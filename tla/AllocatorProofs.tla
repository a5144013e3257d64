--------------------------- MODULE AllocatorProofs ---------------------------
(***************************************************************************)
(* Proofs about Allocator, for every arena and every set of pointers: the     *)
(* list of areas is sound at any time, defrag ends, keeps the order of the     *)
(* allocated areas and packs them, and no call touches the bytes of another.   *)
(*                                                                          *)
(* Each call replaces a part of the list (Spliced).  The new part has the      *)
(* extent of the old (SpliceTiles) and, for each pointer, as many areas        *)
(* (SameOwners), so the whole list tiles the arena and its owners are the       *)
(* valid pointers.  That united free areas have the extent of their sum is     *)
(* shown of the recursive sum by its least counterexample (Amount).            *)
(*                                                                          *)
(* Bytes: an area that a call leaves alone is in the new list with the bytes   *)
(* it had (Bears), also when it is copied in pieces over itself (CopiedIs).    *)
(* So each call is a Resize of Heap for its own pointer, and defrag a stutter.  *)
(***************************************************************************)
EXTENDS Allocator, FiniteSetTheorems, FunctionTheorems, SequenceTheorems,
        WellFoundedInduction, TLAPS

\* Who may own an area, and the areas of a list of any length.
Owner == Pointers \cup {Free}
AreaRec == [start : Nat, size : Nat \ {0}, owner : Owner]

-----------------------------------------------------------------------------
(* Lists with a part of them replaced.                                      *)

\* Elements of another set make a sequence over that set.
LEMMA Retyped ==
  ASSUME NEW S, NEW T, NEW t \in Seq(S), \A i \in 1 .. Len(t) : t[i] \in T
  PROVE  t \in Seq(T)
<1>1. Len(t) \in Nat /\ t \in [1 .. Len(t) -> S]
  BY LenProperties
<1>2. t \in [1 .. Len(t) -> T]
  BY <1>1
<1> QED
  BY <1>1, <1>2

\* The length and the elements of a concatenation.
LEMMA Concatenated ==
  ASSUME NEW T, NEW a \in Seq(T), NEW b \in Seq(T)
  PROVE  /\ a \o b \in Seq(T) /\ Len(a \o b) = Len(a) + Len(b)
         /\ \A k \in 1 .. Len(a) : (a \o b)[k] = a[k]
         /\ \A k \in 1 .. Len(b) : (a \o b)[Len(a) + k] = b[k]
<1>1. a \o b \in Seq(T) /\ Len(a \o b) = Len(a) + Len(b)
  OBVIOUS
<1>2. ASSUME NEW k \in 1 .. Len(a)
      PROVE  (a \o b)[k] = a[k]
  OBVIOUS
<1>3. ASSUME NEW k \in 1 .. Len(b)
      PROVE  (a \o b)[Len(a) + k] = b[k]
  OBVIOUS
<1> QED
  BY <1>1, <1>2, <1>3

\* r is t with what lies from i to j replaced by s, which makes it d longer.
Replaced(r, t, i, j, s, d) ==
  /\ Len(r) = Len(t) + d
  /\ \A k \in 1 .. i - 1 : r[k] = t[k]
  /\ \A k \in 1 .. Len(s) : r[i - 1 + k] = s[k]
  /\ \A k \in j + 1 .. Len(t) : r[k + d] = t[k]

\* Splice: what is in front stays, what is behind moves by the difference in length.
LEMMA Spliced ==
  ASSUME NEW T, NEW t \in Seq(T), NEW s \in Seq(T),
         NEW i \in 1 .. Len(t), NEW j \in i .. Len(t),
         NEW r, r = Splice(t, i, j, s), NEW d, d = Len(s) - (j - i + 1)
  PROVE  r \in Seq(T) /\ Replaced(r, t, i, j, s, d)
<1> DEFINE a == SubSeq(t, 1, i - 1)
           b == SubSeq(t, j + 1, Len(t))
<1>1. /\ a \in Seq(T) /\ Len(a) = i - 1
      /\ \A k \in 1 .. i - 1 : a[k] = t[k]
  OBVIOUS
<1>2. /\ b \in Seq(T) /\ Len(b) = Len(t) - j
      /\ \A k \in 1 .. Len(t) - j : b[k] = t[j + k]
  OBVIOUS
<1>3. r = (a \o s) \o b
  BY DEF Splice
<1> HIDE DEF a, b
<1>4. /\ a \o s \in Seq(T) /\ Len(a \o s) = Len(a) + Len(s)
      /\ \A k \in 1 .. Len(a) : (a \o s)[k] = a[k]
      /\ \A k \in 1 .. Len(s) : (a \o s)[Len(a) + k] = s[k]
  <2>1. a \in Seq(T)
    BY <1>1
  <2> QED
    BY <2>1, Concatenated
<1> DEFINE c == a \o s
<1>5. c \in Seq(T) /\ Len(c) = i - 1 + Len(s)
  BY <1>1, <1>4
<1>6. /\ \A k \in 1 .. i - 1 : c[k] = t[k]
      /\ \A k \in 1 .. Len(s) : c[i - 1 + k] = s[k]
  <2>1. \A k \in 1 .. i - 1 : c[k] = a[k]
    BY <1>1, <1>4
  <2>2. \A k \in 1 .. Len(s) : c[i - 1 + k] = s[k]
    BY <1>1, <1>4
  <2> QED
    BY <1>1, <2>1, <2>2
<1> HIDE DEF c
<1>7. r = c \o b
  BY <1>3 DEF c
<1>8. /\ r \in Seq(T) /\ Len(r) = Len(c) + Len(b)
      /\ \A k \in 1 .. Len(c) : r[k] = c[k]
      /\ \A k \in 1 .. Len(b) : r[Len(c) + k] = b[k]
  <2>1. b \in Seq(T) /\ c \in Seq(T)
    BY <1>2, <1>5
  <2> QED
    BY <2>1, <1>7, Concatenated
<1>9. Len(s) \in Nat /\ Len(t) \in Nat
  OBVIOUS
<1>10. \A k \in 1 .. i - 1 : r[k] = t[k]
  BY <1>5, <1>6, <1>8, <1>9
<1>11. \A k \in 1 .. Len(s) : r[i - 1 + k] = s[k]
  BY <1>5, <1>6, <1>8, <1>9
<1>12. ASSUME NEW k \in j + 1 .. Len(t)
       PROVE  r[k + d] = t[k]
  <2>1. k - j \in 1 .. Len(b) /\ b[k - j] = t[j + (k - j)]
    BY <1>2, <1>9
  <2>2. r[Len(c) + (k - j)] = b[k - j]
    BY <1>8, <2>1
  <2>3. Len(c) + (k - j) = k + d /\ j + (k - j) = k
    BY <1>5, <1>9
  <2> QED
    BY <2>1, <2>2, <2>3
<1> QED
  BY <1>2, <1>5, <1>8, <1>9, <1>10, <1>11, <1>12 DEF Replaced

-----------------------------------------------------------------------------
(* Areas side by side.                                                      *)

\* Where area i of t begins, and where t ends if there is none.
Edge(t, b, i) == IF i \in DOMAIN t THEN t[i].start ELSE b

\* The areas of t lie side by side from a to b.
Tiles(t, a, b) ==
  /\ t \in Seq(AreaRec) /\ a \in Nat /\ b \in Nat
  /\ Edge(t, b, 1) = a
  /\ \A i \in DOMAIN t : t[i].start + t[i].size = Edge(t, b, i + 1)

\* The library's order of the naturals, written out.
LEMMA LessIsWellFounded == IsWellFoundedOn({p \in Nat \X Nat : p[1] < p[2]}, Nat)
BY NatLessThanWellFounded DEF OpToRel

\* A set of naturals that is not empty has a least member: induction by least
\* counterexample.
LEMMA Least ==
  ASSUME NEW S \in SUBSET Nat, S # {}
  PROVE  \E x \in S : \A y \in S : x <= y
<1> DEFINE R == {p \in Nat \X Nat : p[1] < p[2]}
<1>1. PICK x \in S : \A y \in S : ~ (<<y, x>> \in R)
  BY LessIsWellFounded, WFMin
<1>2. ASSUME NEW y \in S
      PROVE  ~(y < x)
  BY <1>1
<1> QED
  BY <1>2

\* Area makes a record of the fields it is given,
LEMMA Areas ==
  ASSUME NEW a \in Nat, NEW n \in Nat \ {0}, NEW o \in Owner
  PROVE  /\ Area(a, n, o) \in AreaRec
         /\ Area(a, n, o).start = a /\ Area(a, n, o).size = n /\ Area(a, n, o).owner = o
BY DEF Area, AreaRec

\* and each area of a list is such a record.
LEMMA AreaFields ==
  ASSUME NEW t \in Seq(AreaRec), NEW i \in DOMAIN t
  PROVE  /\ t[i] \in AreaRec
         /\ t[i].start \in Nat /\ t[i].size \in Nat \ {0} /\ t[i].owner \in Owner
         /\ t[i] = Area(t[i].start, t[i].size, t[i].owner)
<1>1. t[i] \in AreaRec
  BY ElementOfSeq
<1> QED
  BY <1>1 DEF AreaRec, Area

\* The areas are in the order of their addresses.
LEMMA InOrder ==
  ASSUME NEW t, NEW a, NEW b, Tiles(t, a, b),
         NEW i \in 1 .. Len(t) + 1, NEW j \in i + 1 .. Len(t) + 1
  PROVE  Edge(t, b, i) \in Nat /\ Edge(t, b, j) \in Nat /\ Edge(t, b, i) < Edge(t, b, j)
<1>1. t \in Seq(AreaRec) /\ Len(t) \in Nat /\ DOMAIN t = 1 .. Len(t) /\ b \in Nat
  BY DEF Tiles
<1>2. ASSUME NEW k \in 1 .. Len(t) + 1
      PROVE  Edge(t, b, k) \in Nat
  BY <1>1, AreaFields DEF Edge
<1>3. ASSUME NEW k \in 1 .. Len(t)
      PROVE  Edge(t, b, k) < Edge(t, b, k + 1)
  <2>1. t[k].start \in Nat /\ t[k].size \in Nat \ {0}
    BY <1>1, AreaFields
  <2>2. t[k].start + t[k].size = Edge(t, b, k + 1) /\ Edge(t, b, k) = t[k].start
    BY <1>1 DEF Tiles, Edge
  <2> QED
    BY <2>1, <2>2
<1> DEFINE B == {k \in i + 1 .. Len(t) + 1 : ~(Edge(t, b, i) < Edge(t, b, k))}
<1>4. ASSUME B # {}
      PROVE  FALSE
  <2>1. B \in SUBSET Nat
    BY <1>1
  <2>2. PICK x \in B : \A y \in B : x <= y
    BY <2>1, <1>4, Least
  <2>3. CASE x = i + 1
    BY <2>2, <2>3, <1>1, <1>3
  <2>4. CASE x # i + 1
    <3>1. x - 1 \in i + 1 .. Len(t) + 1 /\ x - 1 \in 1 .. Len(t) /\ ~(x <= x - 1)
      BY <2>2, <2>4, <1>1
    <3>2. Edge(t, b, i) < Edge(t, b, x - 1)
      BY <2>2, <3>1
    <3>3. Edge(t, b, x - 1) < Edge(t, b, x)
      <4>1. Edge(t, b, x - 1) < Edge(t, b, (x - 1) + 1)
        BY <1>3, <3>1
      <4>2. (x - 1) + 1 = x
        BY <2>2, <1>1
      <4> QED
        BY <4>1, <4>2
    <3>4. Edge(t, b, i) \in Nat /\ Edge(t, b, x - 1) \in Nat /\ Edge(t, b, x) \in Nat
      BY <1>1, <1>2, <2>2, <3>1
    <3> QED
      BY <3>2, <3>3, <3>4, <2>2
  <2> QED
    BY <2>3, <2>4
<1> QED
  BY <1>1, <1>2, <1>4

\* What the invariant says of the list is that its areas lie side by side.
LEMMA TilingIs == Tiling <=> Tiles(table, 0, Size)
<1> USE AllocatorAssumption
<1>1. ASSUME Tiling
      PROVE  Tiles(table, 0, Size)
  <2>1. table \in Seq(AreaRec)
    <3> DEFINE S == [start : 0 .. Size, size : 1 .. Size, owner : Pointers \cup {Free}]
    <3>1. table \in Seq(S)
      BY <1>1 DEF Tiling
    <3>2. S \subseteq AreaRec
      BY DEF AreaRec, Owner
    <3> QED
      BY <3>1, <3>2, SeqMonotonic
  <2>2. Len(table) \in Nat \ {0} /\ DOMAIN table = 1 .. Len(table)
    BY <2>1, <1>1 DEF Tiling
  <2>3. Edge(table, Size, 1) = 0
    BY <2>2, <1>1 DEF Tiling, Edge
  <2>4. ASSUME NEW i \in DOMAIN table
        PROVE  table[i].start + table[i].size = Edge(table, Size, i + 1)
    <3>1. CASE i = Len(table)
      <4>1. i + 1 \notin DOMAIN table
        BY <2>2, <3>1
      <4> QED
        BY <1>1, <3>1, <4>1 DEF Tiling, Edge
    <3>2. CASE i # Len(table)
      <4>1. i \in 1 .. Len(table) - 1 /\ i + 1 \in DOMAIN table
        BY <2>2, <3>2
      <4> QED
        BY <1>1, <4>1 DEF Tiling, Edge
    <3> QED
      BY <3>1, <3>2
  <2> QED
    BY <2>1, <2>3, <2>4 DEF Tiles
<1>2. ASSUME Tiles(table, 0, Size)
      PROVE  Tiling
  <2>1. table \in Seq(AreaRec) /\ Len(table) \in Nat /\ DOMAIN table = 1 .. Len(table)
    BY <1>2 DEF Tiles
  <2>2. ASSUME NEW i \in 1 .. Len(table)
        PROVE  table[i] \in [start : 0 .. Size, size : 1 .. Size, owner : Pointers \cup {Free}]
    <3>1. table[i] = Area(table[i].start, table[i].size, table[i].owner)
          /\ table[i].start \in Nat /\ table[i].size \in Nat \ {0} /\ table[i].owner \in Owner
      BY <2>1, AreaFields
    <3>2. table[i].start + table[i].size = Edge(table, Size, i + 1)
      BY <1>2, <2>1 DEF Tiles
    <3>3. Edge(table, Size, i + 1) <= Size
      <4>1. CASE i = Len(table)
        BY <2>1, <4>1 DEF Edge
      <4>2. CASE ~(i = Len(table))
        <5> DEFINE n == Len(table) + 1
        <5>1. Len(table) \in Nat
          BY <2>1
        <5>2. i + 1 \in 1 .. n /\ n \in (i + 1) + 1 .. n
          BY <5>1, <4>2
        <5>3. Edge(table, Size, i + 1) < Edge(table, Size, Len(table) + 1)
              /\ Edge(table, Size, i + 1) \in Nat
          BY <1>2, <5>2, InOrder
        <5>4. Edge(table, Size, Len(table) + 1) = Size
          BY <2>1 DEF Edge
        <5> QED
          BY <5>3, <5>4
      <4> QED
        BY <4>1, <4>2
    <3>4. table[i].start \in 0 .. Size /\ table[i].size \in 1 .. Size
      BY <3>1, <3>2, <3>3
    <3> QED
      BY <3>1, <3>4 DEF Area, Owner
  <2>3. table # <<>>
    <3>1. CASE Len(table) = 0
      <4>1. Edge(table, Size, 1) = Size
        BY <2>1, <3>1 DEF Edge
      <4> QED
        BY <4>1, <1>2 DEF Tiles
    <3>2. CASE Len(table) # 0
      BY <3>2
    <3> QED
      BY <3>1, <3>2
  <2>4. Len(table) > 0
    BY <2>1, <2>3
  <2>5. table[1].start = 0
    BY <1>2, <2>1, <2>4 DEF Tiles, Edge
  <2>6. ASSUME NEW i \in 1 .. Len(table)
        PROVE  table[i].start + table[i].size = IF i < Len(table) THEN table[i + 1].start ELSE Size
    BY <1>2, <2>1, <2>4 DEF Tiles, Edge
  <2>7. table \in Seq([start : 0 .. Size, size : 1 .. Size, owner : Pointers \cup {Free}])
    BY <2>1, <2>2, Retyped
  <2>8. \A i \in 1 .. Len(table) - 1 : table[i].start + table[i].size = table[i + 1].start
    BY <2>1, <2>6
  <2>9. table[Len(table)].start + table[Len(table)].size = Size
    BY <2>1, <2>4, <2>6
  <2> QED
    BY <2>3, <2>5, <2>7, <2>8, <2>9 DEF Tiling
<1> QED
  BY <1>1, <1>2

\* A part of the list can be replaced by what lies between the same addresses.
LEMMA SpliceTiles ==
  ASSUME NEW t, NEW a, NEW b, Tiles(t, a, b), NEW s,
         NEW i \in 1 .. Len(t), NEW j \in i .. Len(t),
         Tiles(s, t[i].start, Edge(t, b, j + 1))
  PROVE  Tiles(Splice(t, i, j, s), a, b)
<1> DEFINE r == Splice(t, i, j, s)
           n == Len(t)
           m == Len(s)
           d == m - (j - i + 1)
           e == Edge(t, b, j + 1)
<1>1. /\ t \in Seq(AreaRec) /\ n \in Nat /\ DOMAIN t = 1 .. n
      /\ s \in Seq(AreaRec) /\ m \in Nat /\ DOMAIN s = 1 .. m
      /\ a \in Nat /\ b \in Nat
  BY DEF Tiles
<1>2. /\ r \in Seq(AreaRec) /\ Len(r) = n + d
      /\ \A k \in 1 .. i - 1 : r[k] = t[k]
      /\ \A k \in 1 .. m : r[i - 1 + k] = s[k]
      /\ \A k \in j + 1 .. n : r[k + d] = t[k]
  <2>1. t \in Seq(AreaRec) /\ s \in Seq(AreaRec)
    BY <1>1
  <2>2. /\ r = Splice(t, i, j, s) /\ d = Len(s) - (j - i + 1)
        /\ i \in 1 .. Len(t) /\ j \in i .. Len(t)
    OBVIOUS
  <2> HIDE DEF r, d, e
  <2>3. r \in Seq(AreaRec) /\ Replaced(r, t, i, j, s, d)
    BY <2>1, <2>2, Spliced
  <2> QED
    BY <2>3 DEF Replaced
<1>3. DOMAIN r = 1 .. n + d
  BY <1>2
<1>4. /\ \A k \in 1 .. n : t[k].start + t[k].size = Edge(t, b, k + 1)
      /\ \A k \in 1 .. n : t[k].start = Edge(t, b, k)
      /\ Edge(t, b, 1) = a /\ Edge(t, b, n + 1) = b
  <2>1. \A k \in 1 .. n : t[k].start + t[k].size = Edge(t, b, k + 1)
    BY <1>1 DEF Tiles
  <2>2. \A k \in 1 .. n : t[k].start = Edge(t, b, k)
    BY <1>1 DEF Edge
  <2>3. Edge(t, b, 1) = a
    BY DEF Tiles
  <2>4. Edge(t, b, n + 1) = b
    BY <1>1 DEF Edge
  <2> QED
    BY <2>1, <2>2, <2>3, <2>4
<1>5. /\ \A k \in 1 .. m : s[k].start + s[k].size = Edge(s, e, k + 1)
      /\ \A k \in 1 .. m : s[k].start = Edge(s, e, k)
      /\ Edge(s, e, 1) = Edge(t, b, i) /\ Edge(s, e, m + 1) = e
  <2>1. Tiles(s, t[i].start, e)
    OBVIOUS
  <2> HIDE DEF e
  <2>2. \A k \in 1 .. m : s[k].start + s[k].size = Edge(s, e, k + 1)
    BY <2>1, <1>1 DEF Tiles
  <2>3. \A k \in 1 .. m : s[k].start = Edge(s, e, k)
    BY <1>1 DEF Edge
  <2>4. Edge(s, e, 1) = Edge(t, b, i)
    BY <2>1, <1>4 DEF Tiles
  <2>5. Edge(s, e, m + 1) = e
    BY <1>1 DEF Edge
  <2> QED
    BY <2>2, <2>3, <2>4, <2>5
<1>6. /\ \A k \in 1 .. n + d : Edge(r, b, k) = r[k].start
      /\ Edge(r, b, n + d + 1) = b
  BY <1>3, <1>1 DEF Edge
<1> HIDE DEF r, n, m
<1>7. i \in Nat /\ j \in Nat /\ 1 <= i /\ i <= j /\ j <= n
  BY <1>1 DEF n
<1>8. ASSUME NEW k \in 1 .. i - 1
      PROVE  k \in 1 .. n + d /\ Edge(r, b, k) = Edge(t, b, k)
  <2>1. k \in 1 .. n + d /\ k \in 1 .. n
    BY <1>1, <1>7
  <2> QED
    BY <2>1, <1>2, <1>4, <1>6
<1>9. ASSUME NEW q \in j + 1 .. n + 1
      PROVE  Edge(r, b, q + d) = Edge(t, b, q)
  <2>1. CASE q = n + 1
    BY <2>1, <1>1, <1>4, <1>6, <1>7
  <2>2. CASE q # n + 1
    <3>1. n \in Nat /\ d = m - (j - i + 1) /\ m \in Nat
      BY <1>1
    <3>2. q \in j + 1 .. n /\ q \in 1 .. n /\ q + d \in 1 .. n + d
      BY <2>2, <3>1, <1>7
    <3> QED
      BY <3>2, <1>2, <1>4, <1>6
  <2> QED
    BY <2>1, <2>2
<1>10. ASSUME NEW q \in 1 .. m + 1
       PROVE  Edge(r, b, i - 1 + q) = Edge(s, e, q)
  <2>1. CASE q = m + 1
    <3>1. i - 1 + q = (j + 1) + d /\ j + 1 \in j + 1 .. n + 1
      BY <2>1, <1>1, <1>7
    <3> QED
      BY <2>1, <3>1, <1>5, <1>9
  <2>2. CASE q # m + 1
    <3>1. q \in 1 .. m /\ i - 1 + q \in 1 .. n + d
      BY <2>2, <1>1, <1>7
    <3> QED
      BY <3>1, <1>2, <1>5, <1>6
  <2> QED
    BY <2>1, <2>2
<1>11. Edge(r, b, i) = Edge(t, b, i)
  <2>1. 1 \in 1 .. m + 1 /\ i - 1 + 1 = i
    BY <1>1, <1>7
  <2> QED
    BY <2>1, <1>5, <1>10
<1>12. Edge(r, b, 1) = a
  BY <1>4, <1>7, <1>8, <1>11
<1>13. ASSUME NEW k \in 1 .. n + d
       PROVE  r[k].start + r[k].size = Edge(r, b, k + 1)
  <2>1. CASE k < i
    <3>1. k \in 1 .. i - 1 /\ k \in 1 .. n /\ (k + 1 \in 1 .. i - 1 \/ k + 1 = i)
      BY <2>1, <1>1, <1>7
    <3>2. Edge(r, b, k + 1) = Edge(t, b, k + 1)
      BY <3>1, <1>8, <1>11
    <3> QED
      BY <3>1, <3>2, <1>2, <1>4
  <2>2. CASE i <= k /\ k < i + m
    <3>1. PICK q \in 1 .. m : k = i - 1 + q
      <4>1. k - i + 1 \in 1 .. m /\ k = i - 1 + (k - i + 1)
        BY <2>2, <1>1, <1>7
      <4> QED
        BY <4>1
    <3>2. q + 1 \in 1 .. m + 1 /\ i - 1 + (q + 1) = k + 1
      BY <3>1, <1>1, <1>7
    <3>3. Edge(r, b, k + 1) = Edge(s, e, q + 1)
      BY <3>2, <1>10
    <3> QED
      BY <3>1, <3>3, <1>2, <1>5
  <2>3. CASE i + m <= k
    <3>1. PICK q \in j + 1 .. n : k = q + d
      <4>1. k - d \in j + 1 .. n /\ k = (k - d) + d
        BY <2>3, <1>1, <1>7
      <4> QED
        BY <4>1
    <3>2. q + 1 \in j + 1 .. n + 1 /\ (q + 1) + d = k + 1 /\ q \in 1 .. n
      BY <3>1, <1>1, <1>7
    <3>3. Edge(r, b, k + 1) = Edge(t, b, q + 1)
      BY <3>2, <1>9
    <3> QED
      BY <3>1, <3>2, <3>3, <1>2, <1>4
  <2> QED
    BY <2>1, <2>2, <2>3, <1>1, <1>7
<1> QED
  BY <1>1, <1>2, <1>3, <1>12, <1>13 DEF Tiles, r

-----------------------------------------------------------------------------
(* Folds over finite sets.                                                  *)

Pick(s) == CHOOSE x \in s : TRUE

\* The subsets of I of n elements or less.
UpTo(I, n) == {s \in SUBSET I : Cardinality(s) <= n}

\* g folds every set of those in D: the empty one gives z, another one f of the member
\* that c picks and of what the rest gives.
FoldsOn(g, f, c, z, D) ==
  g = [s \in D |-> IF s = {} THEN z ELSE f[<<c[s], g[s \ {c[s]}]>>]]

\* What is left of a finite set without the member that is picked is smaller by one.
LEMMA Picked ==
  ASSUME NEW I, IsFiniteSet(I), NEW s \in SUBSET I, s # {}
  PROVE  /\ Pick(s) \in s
         /\ \A x \in s : /\ s \ {x} \in SUBSET I
                         /\ Cardinality(s) \in Nat /\ Cardinality(s \ {x}) = Cardinality(s) - 1
<1>1. Pick(s) \in s
  BY DEF Pick
<1>2. IsFiniteSet(s)
  BY FS_Subset
<1>3. ASSUME NEW x \in s
      PROVE  Cardinality(s) \in Nat /\ Cardinality(s \ {x}) = Cardinality(s) - 1
  BY <1>2, FS_RemoveElement, FS_CardinalityType
<1> QED
  BY <1>1, <1>3

\* There is a function that folds every part of I: for one member more, the function
\* for the smaller parts is extended.
LEMMA FoldExists ==
  ASSUME NEW I, IsFiniteSet(I), NEW X, NEW z \in X, NEW f \in [I \X X -> X],
         NEW c, \A s \in (SUBSET I) \ {{}} : c[s] \in s
  PROVE  \E g \in [SUBSET I -> X] : FoldsOn(g, f, c, z, SUBSET I)
<1> DEFINE Bad == {n \in Nat : ~ \E g \in [UpTo(I, n) -> X] : FoldsOn(g, f, c, z, UpTo(I, n))}
<1>1. ASSUME Bad # {}
      PROVE  FALSE
  <2>1. PICK n \in Bad : \A m \in Bad : n <= m
    BY <1>1, Least
  <2>2. CASE n = 0
    <3>1. ASSUME NEW s \in UpTo(I, 0)
          PROVE  s = {}
      <4>1. IsFiniteSet(s) /\ Cardinality(s) = 0
        BY FS_Subset, FS_CardinalityType DEF UpTo
      <4> QED
        BY <4>1, FS_EmptySet
    <3> DEFINE g == [s \in UpTo(I, 0) |-> z]
    <3>2. FoldsOn(g, f, c, z, UpTo(I, 0)) /\ g \in [UpTo(I, 0) -> X]
      BY <3>1 DEF FoldsOn
    <3> QED
      BY <2>1, <2>2, <3>2
  <2>3. CASE n # 0
    <3>1. n - 1 \in Nat /\ n - 1 \notin Bad
      BY <2>1, <2>3
    <3> DEFINE C == UpTo(I, n - 1)
               D == UpTo(I, n)
    <3>2. PICK h \in [C -> X] : FoldsOn(h, f, c, z, C)
      BY <3>1
    <3> DEFINE g == [s \in D |-> IF s = {} THEN z ELSE f[<<c[s], h[s \ {c[s]}]>>]]
    <3>3. C \subseteq D
      BY <2>1, FS_Subset, FS_CardinalityType DEF UpTo
    <3>4. ASSUME NEW s \in D, s # {}
          PROVE  c[s] \in I /\ s \ {c[s]} \in C
      <4>1. s \in SUBSET I /\ Cardinality(s) <= n
        BY DEF UpTo
      <4>2. c[s] \in s
        BY <4>1, <3>4
      <4>3. /\ s \ {c[s]} \in SUBSET I
            /\ Cardinality(s) \in Nat /\ Cardinality(s \ {c[s]}) = Cardinality(s) - 1
        BY <4>1, <4>2, <3>4, Picked
      <4> QED
        BY <4>1, <4>2, <4>3, <2>1 DEF UpTo
    <3> HIDE DEF C, D
    <3>5. ASSUME NEW s \in C
          PROVE  g[s] = h[s]
      BY <3>2, <3>3 DEF FoldsOn
    <3>6. g = [s \in D |-> IF s = {} THEN z ELSE f[<<c[s], g[s \ {c[s]}]>>]]
      <4>1. ASSUME NEW s \in D, s # {}
            PROVE  g[s \ {c[s]}] = h[s \ {c[s]}]
        BY <3>4, <3>5, <4>1
      <4> QED
        BY <4>1
    <3>7. g \in [D -> X]
      <4>1. ASSUME NEW s \in D, s # {}
            PROVE  f[<<c[s], h[s \ {c[s]}]>>] \in X
        <5>1. c[s] \in I /\ h[s \ {c[s]}] \in X
          BY <3>2, <3>4, <4>1
        <5> QED
          BY <5>1
      <4> QED
        BY <4>1
    <3> HIDE DEF g
    <3> QED
      BY <2>1, <3>6, <3>7 DEF FoldsOn, D
  <2> QED
    BY <2>2, <2>3
<1>2. Cardinality(I) \in Nat
  BY FS_CardinalityType
<1>3. UpTo(I, Cardinality(I)) = SUBSET I
  BY FS_Subset DEF UpTo
<1> QED
  <2>1. Cardinality(I) \notin Bad
    BY <1>1
  <2>2. \E g \in [UpTo(I, Cardinality(I)) -> X] :
          FoldsOn(g, f, c, z, UpTo(I, Cardinality(I)))
    BY <2>1, <1>2
  <2> QED
    BY <2>2, <1>3

\* g sums up the weights w of the parts of I.
Sums(g, w, I) ==
  g = [s \in SUBSET I |-> IF s = {} THEN 0 ELSE w[Pick(s)] + g[s \ {Pick(s)}]]

\* Sums exist.
LEMMA SumsExist ==
  ASSUME NEW I, IsFiniteSet(I), NEW w \in [I -> Nat]
  PROVE  \E g \in [SUBSET I -> Nat] : Sums(g, w, I)
<1> DEFINE f == [p \in I \X Nat |-> w[p[1]] + p[2]]
           c == [s \in SUBSET I |-> Pick(s)]
<1>1. \A s \in (SUBSET I) \ {{}} : c[s] = Pick(s) /\ Pick(s) \in s
  BY DEF Pick
<1>2. f \in [I \X Nat -> Nat]
  OBVIOUS
<1>3. \A x \in I, y \in Nat : f[<<x, y>>] = w[x] + y
  OBVIOUS
<1> HIDE DEF f, c
<1>4. PICK g \in [SUBSET I -> Nat] : FoldsOn(g, f, c, 0, SUBSET I)
  <2>1. \A s \in (SUBSET I) \ {{}} : c[s] \in s
    BY <1>1
  <2>2. \E g \in [SUBSET I -> Nat] : FoldsOn(g, f, c, 0, SUBSET I)
    <3> DEFINE X == Nat
               z == 0
    <3>1. z \in X /\ f \in [I \X X -> X]
      BY <1>2
    <3> HIDE DEF X, z
    <3>2. \E g \in [SUBSET I -> X] : FoldsOn(g, f, c, z, SUBSET I)
      BY <2>1, <3>1, FoldExists
    <3> QED
      BY <3>2 DEF X, z
  <2> QED
    BY <2>2
<1>5. ASSUME NEW s \in SUBSET I, s # {}
      PROVE  f[<<c[s], g[s \ {c[s]}]>>] = w[Pick(s)] + g[s \ {Pick(s)}]
  <2>1. c[s] = Pick(s) /\ Pick(s) \in I /\ s \ {Pick(s)} \in SUBSET I
    BY <1>1, <1>5
  <2>2. g[s \ {Pick(s)}] \in Nat
    BY <2>1
  <2> QED
    BY <2>1, <2>2, <1>3
<1> QED
  BY <1>4, <1>5 DEF FoldsOn, Sums

\* Sums of numbers are numbers.
LEMMA SumsType ==
  ASSUME NEW I, IsFiniteSet(I), NEW w \in [I -> Nat], NEW g, Sums(g, w, I)
  PROVE  g \in [SUBSET I -> Nat]
<1> DEFINE Bad == {n \in Nat : \E u \in SUBSET I : Cardinality(u) = n /\ g[u] \notin Nat}
<1>1. ASSUME Bad # {}
      PROVE  FALSE
  <2>1. PICK n \in Bad : \A m \in Bad : n <= m
    BY <1>1, Least
  <2>2. PICK u \in SUBSET I : Cardinality(u) = n /\ g[u] \notin Nat
    BY <2>1
  <2>3. CASE u = {}
    BY <2>2, <2>3 DEF Sums
  <2>4. CASE u # {}
    <3> DEFINE v == u \ {Pick(u)}
    <3>1. g[u] = w[Pick(u)] + g[v]
      BY <2>4 DEF Sums
    <3>2. Pick(u) \in I /\ v \in SUBSET I /\ Cardinality(v) = n - 1
      BY <2>2, <2>4, Picked
    <3> HIDE DEF v
    <3>3. n - 1 \in Nat
      BY <3>2, FS_Subset, FS_CardinalityType
    <3>4. n - 1 \notin Bad
      BY <2>1, <3>3
    <3>5. g[v] \in Nat
      BY <3>2, <3>3, <3>4
    <3> QED
      BY <2>2, <3>1, <3>2, <3>5
  <2> QED
    BY <2>3, <2>4
<1>2. ASSUME NEW u \in SUBSET I
      PROVE  g[u] \in Nat
  <2>1. Cardinality(u) \in Nat
    BY FS_Subset, FS_CardinalityType
  <2> QED
    BY <1>1, <2>1
<1> QED
  BY <1>2 DEF Sums

\* Any element can be taken out of a sum first.
LEMMA SumTakes ==
  ASSUME NEW I, IsFiniteSet(I), NEW w \in [I -> Nat], NEW g, Sums(g, w, I),
         NEW s \in SUBSET I, NEW x \in s
  PROVE  g[s] = w[x] + g[s \ {x}]
<1> DEFINE Wrong(u) == \E y \in u : g[u] # w[y] + g[u \ {y}]
           Bad == {n \in Nat : \E u \in SUBSET I : Cardinality(u) = n /\ Wrong(u)}
<1>1. g \in [SUBSET I -> Nat]
  BY SumsType
<1>2. ASSUME NEW u \in SUBSET I, u # {}
      PROVE  Pick(u) \in u /\ g[u] = w[Pick(u)] + g[u \ {Pick(u)}]
  <2>1. g[u] = w[Pick(u)] + g[u \ {Pick(u)}]
    BY <1>2 DEF Sums
  <2> QED
    BY <2>1, <1>2 DEF Pick
<1>3. ASSUME Bad # {}
      PROVE  FALSE
  <2>1. PICK n \in Bad : \A m \in Bad : n <= m
    BY <1>3, Least
  <2>2. PICK u \in SUBSET I : Cardinality(u) = n /\ Wrong(u)
    BY <2>1
  <2>3. PICK y \in u : g[u] # w[y] + g[u \ {y}]
    BY <2>2
  <2> DEFINE z == Pick(u)
  <2>4. z \in u /\ g[u] = w[z] + g[u \ {z}]
    BY <1>2, <2>3
  <2> HIDE DEF z
  <2>5. z # y
    BY <2>3, <2>4
  <2>6. /\ u \ {z} \in SUBSET I /\ Cardinality(u \ {z}) = n - 1
        /\ u \ {y} \in SUBSET I /\ Cardinality(u \ {y}) = n - 1
    BY <2>2, <2>3, <2>4, Picked
  <2>7. n - 1 \in Nat
    BY <2>6, FS_Subset, FS_CardinalityType
  <2>8. ASSUME NEW v \in SUBSET I, Cardinality(v) = n - 1, NEW a \in v
        PROVE  g[v] = w[a] + g[v \ {a}]
    <3>1. n - 1 \notin Bad
      BY <2>1, <2>7
    <3> QED
      BY <3>1, <2>7, <2>8
  <2>9. g[u \ {z}] = w[y] + g[(u \ {z}) \ {y}] /\ g[u \ {y}] = w[z] + g[(u \ {y}) \ {z}]
    BY <2>3, <2>4, <2>5, <2>6, <2>8
  <2>10. (u \ {z}) \ {y} = (u \ {y}) \ {z}
    OBVIOUS
  <2>11. w[y] \in Nat /\ w[z] \in Nat /\ g[(u \ {y}) \ {z}] \in Nat
    BY <1>1, <2>2, <2>3, <2>4, <2>6
  <2> DEFINE c == g[(u \ {y}) \ {z}]
  <2>12. g[u \ {z}] = w[y] + c
    BY <2>9, <2>10
  <2>13. c \in Nat
    BY <2>11
  <2> HIDE DEF c
  <2>14. g[u \ {y}] = w[z] + c
    BY <2>9 DEF c
  <2>15. g[u] = w[z] + (w[y] + c)
    BY <2>4, <2>12
  <2>16. w[z] + (w[y] + c) = w[y] + (w[z] + c)
    BY <2>11, <2>13
  <2> QED
    BY <2>3, <2>14, <2>15, <2>16
<1>4. Cardinality(s) \in Nat
  BY FS_Subset, FS_CardinalityType
<1> QED
  BY <1>3, <1>4

\* Areas that lie side by side have together the bytes between their ends:
\* rangeMemoryAmount.
LEMMA Amount ==
  ASSUME NEW t, NEW a, NEW b, Tiles(t, a, b),
         NEW i \in 1 .. Len(t), NEW j \in i .. Len(t)
  PROVE  /\ RangeMemoryAmount(t, i .. j) \in Nat \ {0}
         /\ t[i].start + RangeMemoryAmount(t, i .. j) = Edge(t, b, j + 1)
<1> DEFINE I == i .. j
           w == [k \in I |-> t[k].size]
<1>1. /\ t \in Seq(AreaRec) /\ Len(t) \in Nat /\ DOMAIN t = 1 .. Len(t) /\ b \in Nat
      /\ i \in Nat /\ j \in Nat /\ 1 <= i /\ i <= j /\ j <= Len(t)
  BY DEF Tiles
<1>2. ASSUME NEW k \in I
      PROVE  /\ t[k].start \in Nat /\ t[k].size \in Nat \ {0}
             /\ t[k].start = Edge(t, b, k) /\ t[k].start + t[k].size = Edge(t, b, k + 1)
  <2>1. k \in DOMAIN t
    BY <1>1
  <2> QED
    BY <2>1, <1>1, AreaFields DEF Tiles, Edge
<1>3. IsFiniteSet(I) /\ w \in [I -> Nat]
  <2>1. IsFiniteSet(I)
    BY <1>1, FS_Interval
  <2>2. \A k \in I : t[k].size \in Nat
    BY <1>2
  <2> HIDE DEF I
  <2>3. w \in [I -> Nat]
    BY <2>2
  <2> QED
    BY <2>1, <2>3
<1> DEFINE Summing(g) ==
             g = [s \in SUBSET I |-> IF s = {} THEN 0 ELSE t[Pick(s)].size + g[s \ {Pick(s)}]]
           g == CHOOSE g : Summing(g)
<1>4. RangeMemoryAmount(t, I) = g[I]
  BY DEF RangeMemoryAmount, MapThenSumSet, MapThenFoldSet, Pick
<1>5. ASSUME NEW h
      PROVE  Summing(h) <=> Sums(h, w, I)
  <2>1. ASSUME NEW s \in SUBSET I, s # {}
        PROVE  t[Pick(s)].size = w[Pick(s)]
    <3>1. Pick(s) \in I
      BY <2>1 DEF Pick
    <3> HIDE DEF I
    <3> QED
      BY <3>1
  <2> QED
    BY <2>1 DEF Sums
<1> HIDE DEF Summing, w
<1>6. \E h : Summing(h)
  BY <1>3, <1>5, SumsExist
<1>7. Sums(g, w, I)
  BY <1>5, <1>6
<1> HIDE DEF g
<1>8. g \in [SUBSET I -> Nat]
  BY <1>3, <1>7, SumsType
<1> DEFINE Bad == {k \in I : t[i].start + g[i .. k] # Edge(t, b, k + 1)}
<1>9. ASSUME Bad # {}
      PROVE  FALSE
  <2>1. PICK k \in Bad : \A m \in Bad : k <= m
    <3>1. Bad \in SUBSET Nat
      BY <1>1
    <3> QED
      BY <3>1, <1>9, Least
  <2>2. k \in i .. k /\ i .. k \in SUBSET I /\ (i .. k) \ {k} = i .. k - 1
    BY <1>1
  <2>3. g[i .. k] = w[k] + g[i .. k - 1]
    <3> HIDE DEF I
    <3> DEFINE u == i .. k
    <3>1. k \in u /\ u \in SUBSET I /\ u \ {k} = i .. k - 1
      BY <2>2
    <3> HIDE DEF u
    <3>2. g[u] = w[k] + g[u \ {k}]
      BY <3>1, <1>3, <1>7, SumTakes
    <3> QED
      BY <3>1, <3>2 DEF u
  <2>4. w[k] = t[k].size
    BY DEF w
  <2>5. CASE k = i
    <3>1. i .. k - 1 = {}
      BY <2>5, <1>1
    <3>2. g[{}] = 0
      BY <1>7 DEF Sums
    <3> QED
      BY <2>1, <2>3, <2>4, <2>5, <3>1, <3>2, <1>2
  <2>6. CASE k # i
    <3>1. k - 1 \in I /\ k - 1 \notin Bad /\ (k - 1) + 1 = k
      BY <2>1, <2>6, <1>1
    <3>2. t[i].start + g[i .. k - 1] = t[k].start
      BY <3>1, <1>2
    <3>3. g[i .. k - 1] \in Nat /\ t[i].start \in Nat /\ i \in I
      BY <2>2, <1>1, <1>2, <1>8
    <3>4. t[k].start \in Nat /\ t[k].size \in Nat /\ t[k].start + t[k].size = Edge(t, b, k + 1)
      BY <1>2
    <3>5. t[i].start + g[i .. k] # Edge(t, b, k + 1)
      BY <2>1
    <3> DEFINE c == g[i .. k - 1]
               e == Edge(t, b, k + 1)
    <3>6. g[i .. k] = t[k].size + c /\ t[i].start + c = t[k].start /\ c \in Nat
      BY <2>3, <2>4, <3>2, <3>3
    <3>7. t[k].start + t[k].size = e /\ t[i].start + g[i .. k] # e
      BY <3>4, <3>5
    <3> HIDE DEF c, e
    <3> QED
      BY <3>3, <3>4, <3>6, <3>7
  <2> QED
    BY <2>5, <2>6
<1>10. t[i].start + g[I] = Edge(t, b, j + 1)
  BY <1>1, <1>9
<1>11. t[i].start = Edge(t, b, i) /\ t[i].start \in Nat /\ g[I] \in Nat
  BY <1>1, <1>2, <1>8
<1>12. Edge(t, b, i) < Edge(t, b, j + 1)
  BY <1>1, InOrder
<1> QED
  BY <1>4, <1>10, <1>11, <1>12

-----------------------------------------------------------------------------
(* Runs of free areas.                                                      *)

\* The ends of an interval.
LEMMA MinMax ==
  ASSUME NEW l \in Nat, NEW h \in Nat, l <= h
  PROVE  Min(l .. h) = l /\ Max(l .. h) = h
<1>1. ASSUME NEW x \in l .. h, \A y \in l .. h : x <= y
      PROVE  x = l
  BY <1>1
<1>2. l \in l .. h /\ \A y \in l .. h : l <= y
  OBVIOUS
<1>3. ASSUME NEW x \in l .. h, \A y \in l .. h : x >= y
      PROVE  x = h
  BY <1>3
<1>4. h \in l .. h /\ \A y \in l .. h : h >= y
  OBVIOUS
<1>5. Min(l .. h) = l
  BY <1>1, <1>2 DEF Min
<1>6. Max(l .. h) = h
  BY <1>3, <1>4 DEF Max
<1> QED
  BY <1>5, <1>6

\* The free areas of t from l to h, and none next to them.
FreeFrom(t, l, h) ==
  /\ l \in 1 .. Len(t) /\ h \in l .. Len(t)
  /\ \A k \in l .. h : IsFree(t, k)
  /\ l > 1 => ~IsFree(t, l - 1)
  /\ h < Len(t) => ~IsFree(t, h + 1)

\* The run of a free area is an interval that nothing free is next to.
LEMMA RunIs ==
  ASSUME NEW t, NEW S, t \in Seq(S), NEW i \in 1 .. Len(t), IsFree(t, i)
  PROVE  \E l, h : /\ FreeFrom(t, l, h) /\ i \in l .. h
                   /\ Run(t, i) = l .. h
                   /\ Min(Run(t, i)) = l /\ Max(Run(t, i)) = h
<1> DEFINE n == Len(t)
           R == Run(t, i)
<1>1. n \in Nat /\ DOMAIN t = 1 .. n /\ i \in 1 .. n
  OBVIOUS
<1>2. ASSUME NEW j \in 1 .. n
      PROVE  j \in R <=> /\ \A k \in 1 .. n : i <= k /\ k <= j => IsFree(t, k)
                         /\ \A k \in 1 .. n : j <= k /\ k <= i => IsFree(t, k)
  BY <1>1 DEF Run
<1>3. R \in SUBSET (1 .. n)
  BY <1>1 DEF Run
<1> HIDE DEF R, n
<1>4. i \in R
  <2>1. ASSUME NEW k \in 1 .. n, i <= k, k <= i
        PROVE  IsFree(t, k)
    <3>1. k = i
      BY <2>1, <1>1
    <3> QED
      BY <3>1
  <2> QED
    BY <2>1, <1>1, <1>2
<1>5. ASSUME NEW j \in R
      PROVE  IsFree(t, j)
  BY <1>1, <1>2, <1>3
<1>6. PICK l \in R : \A k \in R : l <= k
  <2>1. R \in SUBSET Nat /\ R # {}
    BY <1>1, <1>3, <1>4
  <2> QED
    BY <2>1, Least
<1>7. PICK h \in R : \A k \in R : k <= h
  <2> DEFINE Q == {n - k : k \in R}
  <2>1. Q \in SUBSET Nat /\ Q # {}
    BY <1>1, <1>3, <1>4
  <2>2. PICK x \in Q : \A y \in Q : x <= y
    BY <2>1, Least
  <2>3. PICK h \in R : x = n - h
    BY <2>2
  <2>4. ASSUME NEW k \in R
        PROVE  k <= h
    <3>1. x <= n - k
      BY <2>2
    <3> QED
      BY <3>1, <2>3, <1>1, <1>3
  <2> QED
    BY <2>4
<1>8. /\ l \in 1 .. n /\ h \in 1 .. n /\ l <= i /\ i <= h
      /\ l \in Nat /\ h \in Nat /\ i \in Nat /\ n \in Nat
  BY <1>1, <1>3, <1>4, <1>6, <1>7
<1>9. ASSUME NEW j \in l .. h
      PROVE  j \in R
  <2>1. j \in 1 .. n /\ j \in Nat
    BY <1>8
  <2>2. ASSUME NEW k \in 1 .. n, i <= k, k <= j
        PROVE  IsFree(t, k)
    <3>1. k <= h
      BY <2>2, <2>1, <1>8
    <3> QED
      BY <2>2, <3>1, <1>2, <1>8
  <2>3. ASSUME NEW k \in 1 .. n, j <= k, k <= i
        PROVE  IsFree(t, k)
    <3>1. l <= k
      BY <2>3, <2>1, <1>8
    <3> QED
      BY <2>3, <3>1, <1>2, <1>8
  <2> QED
    BY <2>1, <2>2, <2>3, <1>2
<1>10. R = l .. h
  <2>1. ASSUME NEW k \in R
        PROVE  k \in l .. h
    <3>1. k \in Nat /\ l <= k /\ k <= h
      BY <1>3, <1>6, <1>7, <1>8
    <3> QED
      BY <3>1, <1>8
  <2> QED
    BY <2>1, <1>9
<1>11. ASSUME l > 1
       PROVE  ~IsFree(t, l - 1)
  <2>1. SUFFICES ASSUME IsFree(t, l - 1) PROVE FALSE
    OBVIOUS
  <2>2. l - 1 \in 1 .. n /\ l - 1 <= i /\ ~(l <= l - 1)
    BY <1>8, <1>11
  <2>3. ASSUME NEW k \in 1 .. n, i <= k, k <= l - 1
        PROVE  FALSE
    BY <2>3, <1>8
  <2>4. ASSUME NEW k \in 1 .. n, l - 1 <= k, k <= i
        PROVE  IsFree(t, k)
    <3>1. k = l - 1 \/ l <= k
      BY <2>4, <1>8
    <3> QED
      BY <2>1, <2>4, <3>1, <1>2, <1>8
  <2>5. l - 1 \in R
    BY <2>2, <2>3, <2>4, <1>2
  <2> QED
    BY <2>2, <2>5, <1>6
<1>12. ASSUME h < n
       PROVE  ~IsFree(t, h + 1)
  <2>1. SUFFICES ASSUME IsFree(t, h + 1) PROVE FALSE
    OBVIOUS
  <2>2. h + 1 \in 1 .. n /\ i <= h + 1 /\ ~(h + 1 <= h)
    BY <1>8, <1>12
  <2>3. ASSUME NEW k \in 1 .. n, h + 1 <= k, k <= i
        PROVE  FALSE
    BY <2>3, <1>8
  <2>4. ASSUME NEW k \in 1 .. n, i <= k, k <= h + 1
        PROVE  IsFree(t, k)
    <3>1. k = h + 1 \/ k <= h
      BY <2>4, <1>8
    <3> QED
      BY <2>1, <2>4, <3>1, <1>2, <1>8
  <2>5. h + 1 \in R
    BY <2>2, <2>3, <2>4, <1>2
  <2> QED
    BY <2>2, <2>5, <1>7
<1>13. FreeFrom(t, l, h)
  <2>1. l \in 1 .. n /\ h \in l .. n
    BY <1>8
  <2>2. \A k \in l .. h : IsFree(t, k)
    BY <1>5, <1>10
  <2> QED
    BY <2>1, <2>2, <1>11, <1>12 DEF FreeFrom, n
<1>14. Min(R) = l /\ Max(R) = h
  BY <1>8, <1>10, MinMax
<1>15. i \in l .. h
  BY <1>8
<1> QED
  BY <1>10, <1>13, <1>14, <1>15 DEF R

-----------------------------------------------------------------------------
(* Who owns what.                                                           *)

Has(t, p) == \E k \in DOMAIN t : t[k].owner = p
HasWithin(t, i, j, p) == \E k \in i .. j : t[k].owner = p
HasOutside(t, i, j, p) == \E k \in DOMAIN t \ (i .. j) : t[k].owner = p
Once(t, p) == \A j, k \in DOMAIN t : t[j].owner = p /\ t[k].owner = p => j = k

\* The pointers of V have an area each, and nobody else has one.
Owned(t, V) == \A p \in Pointers : Once(t, p) /\ (p \in V <=> Has(t, p))

\* It is what OneAreaEach says of the list of the allocator.
LEMMA OwnedIs ==
  ASSUME table \in Seq(AreaRec), valid \subseteq Pointers
  PROVE  OneAreaEach <=> Owned(table, valid)
<1> USE AllocatorAssumption
<1>1. \A i \in DOMAIN table : table[i].owner \in Pointers \cup {Free}
  BY AreaFields DEF Owner
<1>2. ASSUME OneAreaEach, NEW p \in Pointers
      PROVE  Once(table, p) /\ (p \in valid <=> Has(table, p))
  <2>1. ASSUME NEW i \in DOMAIN table, table[i].owner = p
        PROVE  ~IsFree(table, i)
    BY <2>1 DEF IsFree
  <2>2. Once(table, p)
    BY <1>2, <2>1 DEF OneAreaEach, Once
  <2>3. p \in valid => Has(table, p)
    BY <1>2 DEF OneAreaEach, Has
  <2>4. Has(table, p) => p \in valid
    BY <1>2, <2>1 DEF OneAreaEach, Has
  <2> QED
    BY <2>2, <2>3, <2>4
<1>3. ASSUME Owned(table, valid)
      PROVE  OneAreaEach
  <2>1. ASSUME NEW p \in valid
        PROVE  \E i \in DOMAIN table : table[i].owner = p
    BY <1>3 DEF Owned, Has
  <2>2. ASSUME NEW i \in DOMAIN table, ~IsFree(table, i)
        PROVE  /\ table[i].owner \in valid
               /\ \A j \in DOMAIN table : table[j].owner = table[i].owner => i = j
    <3>1. table[i].owner \in Pointers
      BY <1>1, <2>2 DEF IsFree
    <3>2. Once(table, table[i].owner) /\ Has(table, table[i].owner)
      BY <1>3, <3>1 DEF Owned, Has
    <3>3. table[i].owner \in valid
      BY <1>3, <3>1, <3>2 DEF Owned
    <3> QED
      BY <3>2, <3>3 DEF Once
  <2> QED
    BY <2>1, <2>2 DEF OneAreaEach
<1> QED
  BY <1>2, <1>3 DEF Owned

\* Where the elements of a spliced list come from.
LEMMA WhereFrom ==
  ASSUME NEW t \in Seq(AreaRec), NEW s \in Seq(AreaRec),
         NEW i \in 1 .. Len(t), NEW j \in i .. Len(t),
         NEW r, r = Splice(t, i, j, s), NEW k \in DOMAIN r,
         NEW d, d = Len(s) - (j - i + 1)
  PROVE  \/ k \in 1 .. i - 1 /\ r[k] = t[k]
         \/ \E q \in 1 .. Len(s) : k = i - 1 + q /\ r[k] = s[q]
         \/ \E q \in j + 1 .. Len(t) : k = q + d /\ r[k] = t[q]
<1>1. r \in Seq(AreaRec) /\ Replaced(r, t, i, j, s, d)
  BY Spliced
<1>2. /\ Len(r) = Len(t) + d /\ Len(t) \in Nat /\ Len(s) \in Nat
      /\ \A x \in 1 .. i - 1 : r[x] = t[x]
      /\ \A q \in 1 .. Len(s) : r[i - 1 + q] = s[q]
      /\ \A q \in j + 1 .. Len(t) : r[q + d] = t[q]
  BY <1>1 DEF Replaced
<1>3. k \in 1 .. Len(t) + d
  BY <1>1, <1>2
<1>4. CASE k < i
  BY <1>2, <1>3, <1>4
<1>5. CASE i <= k /\ k < i + Len(s)
  <2>1. k - i + 1 \in 1 .. Len(s) /\ k = i - 1 + (k - i + 1)
    BY <1>2, <1>3, <1>5
  <2> QED
    BY <1>2, <2>1
<1>6. CASE i + Len(s) <= k
  <2>1. i \in Nat /\ j \in Nat /\ d \in Int /\ k \in Int /\ d = Len(s) - (j - i + 1)
    BY <1>2, <1>3
  <2>2. k - d \in j + 1 .. Len(t) /\ k = (k - d) + d
    BY <2>1, <1>2, <1>3, <1>6
  <2> QED
    BY <1>2, <2>2
<1> QED
  BY <1>2, <1>3, <1>4, <1>5, <1>6

\* Splice gives p the areas that it has in the new part and outside the old one.
LEMMA SpliceOwner ==
  ASSUME NEW t \in Seq(AreaRec), NEW s \in Seq(AreaRec),
         NEW i \in 1 .. Len(t), NEW j \in i .. Len(t),
         NEW r, r = Splice(t, i, j, s), NEW p
  PROVE  /\ Has(r, p) <=> HasOutside(t, i, j, p) \/ Has(s, p)
         /\ Once(t, p) /\ Once(s, p) /\ ~(HasOutside(t, i, j, p) /\ Has(s, p)) => Once(r, p)
<1> DEFINE d == Len(s) - (j - i + 1)
           n == Len(t)
           m == Len(s)
<1>1. r \in Seq(AreaRec) /\ Replaced(r, t, i, j, s, d)
  BY Spliced
<1>2. /\ n \in Nat /\ DOMAIN t = 1 .. n /\ m \in Nat /\ DOMAIN s = 1 .. m
      /\ d = m - (j - i + 1) /\ DOMAIN r = 1 .. n + d
      /\ \A x \in 1 .. i - 1 : r[x] = t[x]
      /\ \A q \in 1 .. m : r[i - 1 + q] = s[q]
      /\ \A q \in j + 1 .. n : r[q + d] = t[q]
  BY <1>1 DEF Replaced
<1>3. i \in Nat /\ j \in Nat /\ 1 <= i /\ i <= j /\ j <= n
  BY <1>2
<1>4. ASSUME NEW k \in DOMAIN r
      PROVE  \/ k \in 1 .. i - 1 /\ r[k] = t[k]
             \/ \E q \in 1 .. m : k = i - 1 + q /\ r[k] = s[q]
             \/ \E q \in j + 1 .. n : k = q + d /\ r[k] = t[q]
  <2> HIDE DEF d, n, m
  <2>1. k \in Nat /\ 1 <= k /\ k <= n + d /\ n \in Nat /\ m \in Nat /\ d = m - (j - i + 1)
    BY <1>2, <1>4
  <2>2. CASE k < i
    BY <1>2, <1>3, <2>1, <2>2
  <2>3. CASE i <= k /\ k < i + m
    <3>1. PICK q \in Nat : q = k - i + 1
      BY <1>3, <2>1, <2>3
    <3>2. q \in 1 .. m /\ k = i - 1 + q
      BY <1>3, <2>1, <2>3, <3>1
    <3> QED
      BY <1>2, <3>2
  <2>4. CASE i + m <= k
    <3>1. PICK q \in Int : q = k - d
      BY <1>3, <2>1
    <3>2. q \in j + 1 .. n /\ k = q + d
      BY <1>3, <2>1, <2>4, <3>1
    <3> QED
      BY <1>2, <3>2
  <2> QED
    BY <1>3, <2>1, <2>2, <2>3, <2>4
<1> HIDE DEF d, n, m
<1>5. ASSUME Has(r, p)
      PROVE  HasOutside(t, i, j, p) \/ Has(s, p)
  <2>1. PICK k \in DOMAIN r : r[k].owner = p
    BY <1>5 DEF Has
  <2>2. CASE k \in 1 .. i - 1 /\ r[k] = t[k]
    <3>1. k \in DOMAIN t \ (i .. j)
      BY <2>2, <1>2, <1>3
    <3> QED
      BY <3>1, <2>1, <2>2 DEF HasOutside
  <2>3. CASE \E q \in 1 .. m : k = i - 1 + q /\ r[k] = s[q]
    BY <2>1, <2>3, <1>2 DEF Has
  <2>4. CASE \E q \in j + 1 .. n : k = q + d /\ r[k] = t[q]
    <3>1. PICK q \in j + 1 .. n : r[k] = t[q]
      BY <2>4
    <3>2. q \in DOMAIN t \ (i .. j)
      BY <1>2, <1>3
    <3> QED
      BY <3>1, <3>2, <2>1 DEF HasOutside
  <2> QED
    BY <2>2, <2>3, <2>4, <1>4
<1>6. ASSUME HasOutside(t, i, j, p)
      PROVE  Has(r, p)
  <2>1. PICK k \in DOMAIN t \ (i .. j) : t[k].owner = p
    BY <1>6 DEF HasOutside
  <2>2. CASE k < i
    <3>1. k \in 1 .. i - 1 /\ k \in DOMAIN r
      BY <2>2, <1>2, <1>3
    <3> QED
      BY <3>1, <2>1, <1>2 DEF Has
  <2>3. CASE ~(k < i)
    <3>1. k \in j + 1 .. n /\ k + d \in DOMAIN r
      BY <2>3, <1>2, <1>3
    <3> QED
      BY <3>1, <2>1, <1>2 DEF Has
  <2> QED
    BY <2>2, <2>3
<1>7. ASSUME Has(s, p)
      PROVE  Has(r, p)
  <2>1. PICK q \in 1 .. m : s[q].owner = p
    BY <1>7, <1>2 DEF Has
  <2>2. i - 1 + q \in DOMAIN r
    BY <1>2, <1>3
  <2> QED
    BY <2>1, <2>2, <1>2 DEF Has
<1>8. ASSUME Once(t, p), Once(s, p), ~(HasOutside(t, i, j, p) /\ Has(s, p)),
             NEW x \in DOMAIN r, NEW y \in DOMAIN r, r[x].owner = p, r[y].owner = p
      PROVE  x = y
  <2>1. CASE Has(s, p)
    <3>1. ASSUME NEW z \in DOMAIN r, r[z].owner = p
          PROVE  \E q \in 1 .. m : z = i - 1 + q /\ s[q].owner = p
      <4>1. ASSUME z \in 1 .. i - 1, r[z] = t[z]
            PROVE  FALSE
        <5>1. z \in DOMAIN t \ (i .. j)
          BY <4>1, <1>2, <1>3
        <5> QED
          BY <5>1, <4>1, <3>1, <1>8, <2>1 DEF HasOutside
      <4>2. ASSUME NEW q \in j + 1 .. n, r[z] = t[q]
            PROVE  FALSE
        <5>1. q \in DOMAIN t \ (i .. j)
          BY <1>2, <1>3
        <5> QED
          BY <5>1, <4>2, <3>1, <1>8, <2>1 DEF HasOutside
      <4> QED
        BY <4>1, <4>2, <3>1, <1>4
    <3>2. PICK q \in 1 .. m : x = i - 1 + q /\ s[q].owner = p
      BY <3>1, <1>8
    <3>3. PICK u \in 1 .. m : y = i - 1 + u /\ s[u].owner = p
      BY <3>1, <1>8
    <3>4. q = u
      BY <3>2, <3>3, <1>2, <1>8 DEF Once
    <3> QED
      BY <3>2, <3>3, <3>4
  <2>2. CASE ~Has(s, p)
    <3>1. ASSUME NEW z \in DOMAIN r, r[z].owner = p
          PROVE  \E q \in 1 .. n : /\ t[q].owner = p
                                   /\ (q < i /\ z = q) \/ (j < q /\ z = q + d)
      <4>1. CASE z \in 1 .. i - 1 /\ r[z] = t[z]
        <5>1. z \in 1 .. n /\ z < i
          BY <4>1, <1>2, <1>3
        <5> QED
          BY <5>1, <4>1, <3>1
      <4>2. CASE \E q \in 1 .. m : z = i - 1 + q /\ r[z] = s[q]
        BY <4>2, <3>1, <2>2, <1>2 DEF Has
      <4>3. CASE \E q \in j + 1 .. n : z = q + d /\ r[z] = t[q]
        <5>1. PICK q \in j + 1 .. n : z = q + d /\ r[z] = t[q]
          BY <4>3
        <5>2. q \in 1 .. n /\ j < q
          BY <1>2, <1>3
        <5> QED
          BY <5>1, <5>2, <3>1
      <4> QED
        BY <4>1, <4>2, <4>3, <1>4
    <3>2. PICK q \in 1 .. n : t[q].owner = p /\ ((q < i /\ x = q) \/ (j < q /\ x = q + d))
      BY <3>1, <1>8
    <3>3. PICK u \in 1 .. n : t[u].owner = p /\ ((u < i /\ y = u) \/ (j < u /\ y = u + d))
      BY <3>1, <1>8
    <3>4. q = u
      BY <3>2, <3>3, <1>2, <1>8 DEF Once
    <3> QED
      BY <3>2, <3>3, <3>4, <1>2, <1>3
  <2> QED
    BY <2>1, <2>2
<1> QED
  BY <1>5, <1>6, <1>7, <1>8 DEF Once

\* A part replaced by areas of the same owners.
LEMMA SameOwners ==
  ASSUME NEW t \in Seq(AreaRec), NEW s \in Seq(AreaRec),
         NEW i \in 1 .. Len(t), NEW j \in i .. Len(t), NEW V, Owned(t, V),
         \A p \in Pointers : Once(s, p) /\ (Has(s, p) <=> HasWithin(t, i, j, p))
  PROVE  Owned(Splice(t, i, j, s), V)
<1> DEFINE r == Splice(t, i, j, s)
<1>1. ASSUME NEW p \in Pointers
      PROVE  Once(r, p) /\ (p \in V <=> Has(r, p))
  <2>1. Once(t, p) /\ (p \in V <=> Has(t, p))
    BY DEF Owned
  <2>2. \A k \in i .. j : k \in DOMAIN t
    OBVIOUS
  <2>3. Has(t, p) <=> HasOutside(t, i, j, p) \/ HasWithin(t, i, j, p)
    BY <2>2 DEF Has, HasOutside, HasWithin
  <2>4. ~(HasOutside(t, i, j, p) /\ HasWithin(t, i, j, p))
    BY <2>1, <2>2 DEF Once, HasOutside, HasWithin
  <2>5. /\ Has(r, p) <=> HasOutside(t, i, j, p) \/ Has(s, p)
        /\ Once(t, p) /\ Once(s, p) /\ ~(HasOutside(t, i, j, p) /\ Has(s, p)) => Once(r, p)
    BY SpliceOwner
  <2> QED
    BY <2>1, <2>3, <2>4, <2>5
<1> QED
  BY <1>1 DEF Owned

-----------------------------------------------------------------------------
(* The operations on the list.                                              *)

\* A list of two.
LEMMA Pair ==
  ASSUME NEW S, NEW A \in S, NEW B \in S
  PROVE  <<A>> \o <<B>> = <<A, B>>
<1> DEFINE x == <<A>>
           y == <<B>>
<1>1. x \in Seq(S) /\ Len(x) = 1 /\ x[1] = A
  OBVIOUS
<1>2. y \in Seq(S) /\ Len(y) = 1 /\ y[1] = B
  OBVIOUS
<1> HIDE DEF x, y
<1>3. /\ x \o y \in Seq(S) /\ Len(x \o y) = 2
      /\ (x \o y)[1] = A /\ (x \o y)[2] = B
  <2>1. /\ x \o y \in Seq(S) /\ Len(x \o y) = Len(x) + Len(y)
        /\ \A k \in 1 .. Len(x) : (x \o y)[k] = x[k]
        /\ \A k \in 1 .. Len(y) : (x \o y)[Len(x) + k] = y[k]
    <3>1. x \in Seq(S) /\ y \in Seq(S)
      BY <1>1, <1>2
    <3> QED
      BY <3>1, Concatenated
  <2>2. 1 \in 1 .. Len(x) /\ 1 \in 1 .. Len(y) /\ Len(x) + 1 = 2
    BY <1>1, <1>2
  <2> QED
    BY <2>1, <2>2, <1>1, <1>2
<1>4. <<A, B>> \in Seq(S) /\ Len(<<A, B>>) = 2
  OBVIOUS
<1> DEFINE z == x \o y
<1>5. \A k \in 1 .. Len(z) : z[k] = <<A, B>>[k]
  <2>1. ASSUME NEW k \in 1 .. 2
        PROVE  z[k] = <<A, B>>[k]
    <3>1. k = 1 \/ k = 2
      OBVIOUS
    <3> QED
      BY <3>1, <1>3
  <2> QED
    BY <2>1, <1>3
<1>6. z \in Seq(S) /\ Len(z) = Len(<<A, B>>)
  BY <1>3, <1>4
<1> HIDE DEF z
<1>7. z = <<A, B>>
  BY <1>4, <1>5, <1>6, SeqEqual
<1> QED
  BY <1>7 DEF x, y, z

\* An area and, behind it, what is left free.
WithRest(a, n, o, f) ==
  <<Area(a, n, o)>> \o (IF f = 0 THEN <<>> ELSE <<Area(a + n, f, Free)>>)

\* Of the pointers only o has an area of s, and one.
OnlyOf(s, o) == \A p \in Pointers : Once(s, p) /\ (Has(s, p) <=> o = p)

\* What is known of an area and what is left behind it.
IsRest(s, a, n, o, f) ==
  /\ s \in Seq(AreaRec) /\ s[1] = Area(a, n, o)
  /\ f = 0 => Len(s) = 1
  /\ f # 0 => Len(s) = 2 /\ s[2] = Area(a + n, f, Free)
  /\ Tiles(s, a, a + n + f)
  /\ OnlyOf(s, o)

\* One area and what is left behind it tile the room of both.
LEMMA RestKeeps ==
  ASSUME NEW a \in Nat, NEW n \in Nat \ {0}, NEW o \in Owner, NEW f \in Nat,
         NEW s, s = WithRest(a, n, o, f)
  PROVE  IsRest(s, a, n, o, f)
<1> USE AllocatorAssumption
<1> DEFINE A == Area(a, n, o)
           B == Area(a + n, f, Free)
<1>1. A \in AreaRec /\ A.start = a /\ A.size = n /\ A.owner = o
  BY Areas
<1>2. ASSUME f # 0
      PROVE  B \in AreaRec /\ B.start = a + n /\ B.size = f /\ B.owner = Free
  BY <1>2, Areas DEF Owner
<1> HIDE DEF A, B
<1>3. CASE f = 0
  <2>1. s = <<A>>
    BY <1>3 DEF WithRest, A
  <2>2. s \in Seq(AreaRec) /\ Len(s) = 1 /\ DOMAIN s = {1} /\ s[1] = A
    BY <2>1, <1>1
  <2>3. Edge(s, a + n + f, 1) = a /\ Edge(s, a + n + f, 2) = a + n
    BY <2>2, <1>1, <1>3 DEF Edge
  <2>4. Tiles(s, a, a + n + f)
    BY <2>2, <2>3, <1>1 DEF Tiles
  <2>5. ASSUME NEW p \in Pointers
        PROVE  Once(s, p) /\ (Has(s, p) <=> o = p)
    BY <2>2, <1>1 DEF Once, Has
  <2> QED
    BY <2>2, <2>4, <2>5, <1>3 DEF A, OnlyOf, IsRest
<1>4. CASE f # 0
  <2>1. s = <<A, B>>
    <3>1. s = <<A>> \o <<B>>
      BY <1>4 DEF WithRest, A, B
    <3> QED
      BY <3>1, <1>1, <1>2, <1>4, Pair
  <2>2. s \in Seq(AreaRec) /\ Len(s) = 2 /\ DOMAIN s = {1, 2} /\ s[1] = A /\ s[2] = B
    BY <2>1, <1>1, <1>2, <1>4
  <2>3. /\ Edge(s, a + n + f, 1) = a /\ Edge(s, a + n + f, 2) = a + n
        /\ Edge(s, a + n + f, 3) = a + n + f
    BY <2>2, <1>1, <1>2, <1>4 DEF Edge
  <2>4. Tiles(s, a, a + n + f)
    <3>1. ASSUME NEW k \in DOMAIN s
          PROVE  s[k].start + s[k].size = Edge(s, a + n + f, k + 1)
      <4>1. CASE k = 1
        BY <4>1, <2>2, <2>3, <1>1
      <4>2. CASE k = 2
        BY <4>2, <2>2, <2>3, <1>2, <1>4
      <4> QED
        BY <4>1, <4>2, <2>2
    <3> QED
      BY <3>1, <2>2, <2>3 DEF Tiles
  <2>5. ASSUME NEW p \in Pointers
        PROVE  Once(s, p) /\ (Has(s, p) <=> o = p)
    BY <2>2, <1>1, <1>2, <1>4 DEF Once, Has
  <2> QED
    BY <2>2, <2>4, <2>5, <1>4 DEF A, B, OnlyOf, IsRest
<1> QED
  BY <1>3, <1>4

\* The area that alloc takes is one of those with room.
LEMMA BestFits ==
  ASSUME NEW t \in Seq(AreaRec), NEW n, Fitting(t, n) # {}
  PROVE  Best(t, n) \in Fitting(t, n)
<1> DEFINE F == Fitting(t, n)
           Z == {t[i].size : i \in F}
<1>1. F \subseteq DOMAIN t /\ \A i \in F : i \in Nat /\ t[i].size \in Nat
  <2>1. F \subseteq DOMAIN t /\ DOMAIN t \subseteq Nat
    BY DEF Fitting
  <2> QED
    BY <2>1, AreaFields
<1> HIDE DEF F
<1>2. PICK z \in Z : \A y \in Z : z <= y
  <2>1. Z \in SUBSET Nat /\ Z # {}
    BY <1>1 DEF F
  <2> QED
    BY <2>1, Least
<1> DEFINE M == {i \in F : t[i].size = z}
<1>3. PICK i \in M : \A j \in M : i <= j
  <2>1. M \in SUBSET Nat /\ M # {}
    BY <1>1, <1>2
  <2> QED
    BY <2>1, Least
<1>4. ASSUME NEW j \in F
      PROVE  t[i].size < t[j].size \/ (t[i].size = t[j].size /\ i <= j)
  <2>1. z <= t[j].size
    BY <1>2
  <2>2. t[i].size = z /\ z \in Nat /\ t[j].size \in Nat
    BY <1>1, <1>2, <1>3
  <2>3. CASE t[j].size = z
    BY <2>2, <2>3, <1>3
  <2>4. CASE t[j].size # z
    BY <2>1, <2>2, <2>4
  <2> QED
    BY <2>3, <2>4
<1>5. i \in F
  BY <1>3
<1>6. \E k \in F : \A j \in F : t[k].size < t[j].size \/ (t[k].size = t[j].size /\ k <= j)
  BY <1>4, <1>5
<1> QED
  BY <1>6 DEF Best, F

\* The end of an area.
LEMMA EndOf ==
  ASSUME NEW t, NEW a, NEW b, Tiles(t, a, b), NEW i \in 1 .. Len(t)
  PROVE  /\ t \in Seq(AreaRec) /\ Len(t) \in Nat /\ DOMAIN t = 1 .. Len(t) /\ b \in Nat
         /\ t[i].start \in Nat /\ t[i].size \in Nat \ {0} /\ t[i].owner \in Owner
         /\ Edge(t, b, i) = t[i].start /\ Edge(t, b, i + 1) = t[i].start + t[i].size
<1>1. t \in Seq(AreaRec) /\ Len(t) \in Nat /\ DOMAIN t = 1 .. Len(t) /\ b \in Nat
  BY DEF Tiles
<1>2. t[i].start \in Nat /\ t[i].size \in Nat \ {0} /\ t[i].owner \in Owner
  BY <1>1, AreaFields
<1>3. Edge(t, b, i) = t[i].start
  BY <1>1 DEF Edge
<1>4. Edge(t, b, i + 1) = t[i].start + t[i].size
  BY <1>1 DEF Tiles
<1> QED
  BY <1>1, <1>2, <1>3, <1>4

\* An area cut out of a free one keeps the areas side by side, and gives p its only one.
LEMMA CutKeeps ==
  ASSUME NEW t, NEW b, Tiles(t, 0, b), NEW V, Owned(t, V),
         NEW p \in Pointers, p \notin V, NEW n \in Nat \ {0},
         NEW i \in 1 .. Len(t), IsFree(t, i), t[i].size >= n,
         NEW r, r = Splice(t, i, i, WithRest(t[i].start, n, p, t[i].size - n))
  PROVE  Tiles(r, 0, b) /\ Owned(r, V \cup {p})
<1> USE AllocatorAssumption
<1> DEFINE f == t[i].size - n
           s == WithRest(t[i].start, n, p, f)
<1>1. /\ t \in Seq(AreaRec) /\ DOMAIN t = 1 .. Len(t)
      /\ t[i].start \in Nat /\ t[i].size \in Nat \ {0} /\ b \in Nat
      /\ Edge(t, b, i + 1) = t[i].start + t[i].size
  BY EndOf
<1>2. f \in Nat /\ p \in Owner /\ t[i].start + n + f = Edge(t, b, i + 1)
  BY <1>1 DEF Owner
<1>3. r = Splice(t, i, i, s)
  OBVIOUS
<1> HIDE DEF f
<1>4. s \in Seq(AreaRec) /\ Tiles(s, t[i].start, t[i].start + n + f) /\ OnlyOf(s, p)
  <2>1. s = WithRest(t[i].start, n, p, f)
    OBVIOUS
  <2> HIDE DEF s
  <2> QED
    BY <2>1, <1>1, <1>2, RestKeeps DEF IsRest
<1> HIDE DEF s
<1>5. i \in i .. Len(t)
  BY <1>1
<1>6. Tiles(r, 0, b)
  BY <1>2, <1>3, <1>4, <1>5, SpliceTiles
<1>7. ASSUME NEW q \in Pointers
      PROVE  Once(r, q) /\ (q \in V \cup {p} <=> Has(r, q))
  <2>1. Once(t, q) /\ (q \in V <=> Has(t, q))
    BY DEF Owned
  <2>2. t[i].owner # q
    BY DEF IsFree
  <2>3. Has(t, q) <=> HasOutside(t, i, i, q)
    <3>1. i .. i = {i}
      BY <1>1
    <3> QED
      BY <2>2, <3>1 DEF Has, HasOutside
  <2>4. /\ Has(r, q) <=> HasOutside(t, i, i, q) \/ Has(s, q)
        /\ Once(t, q) /\ Once(s, q) /\ ~(HasOutside(t, i, i, q) /\ Has(s, q)) => Once(r, q)
    BY <1>1, <1>3, <1>4, <1>5, SpliceOwner
  <2> QED
    BY <2>1, <2>3, <2>4, <1>4 DEF OnlyOf
<1> QED
  BY <1>6, <1>7 DEF Owned

\* What alloc does to the list is such a cut.
LEMMA AllocCuts ==
  ASSUME NEW t \in Seq(AreaRec), NEW p, NEW n \in Nat \ {0}, Fitting(t, n) # {}
  PROVE  \E i \in 1 .. Len(t) :
           /\ IsFree(t, i) /\ t[i].size >= n
           /\ Allocated(t, p, n) = Splice(t, i, i, WithRest(t[i].start, n, p, t[i].size - n))
<1>1. PICK i \in 1 .. Len(t) : i = Best(t, n) /\ IsFree(t, i) /\ t[i].size >= n
  BY BestFits DEF Fitting
<1>2. t[i].size \in Nat
  BY AreaFields
<1>3. t[i].size = n <=> t[i].size - n = 0
  BY <1>2
<1>4. Allocated(t, p, n) = Splice(t, i, i, WithRest(t[i].start, n, p, t[i].size - n))
  BY <1>1, <1>3 DEF Allocated, WithRest
<1> QED
  BY <1>1, <1>4

\* r is t with what lies from i to j replaced by an area of o and a free one of f bytes.
Renewed(r, t, i, j, n, o, f) ==
  /\ r \in Seq(AreaRec) /\ Len(r) = Len(t) - (j - i) + (IF f = 0 THEN 0 ELSE 1)
  /\ \A k \in 1 .. i - 1 : r[k] = t[k]
  /\ i \in 1 .. Len(r) /\ r[i].owner = o /\ r[i].size = n
  /\ f # 0 => i + 1 \in 1 .. Len(r) /\ r[i + 1].owner = Free
  /\ \A k \in j + 1 .. Len(t) :
       f = 0 => k - (j - i) \in 1 .. Len(r) /\ r[k - (j - i)] = t[k]

\* A part replaced by one area, of the owner that it has, and free space.
LEMMA PartKeeps ==
  ASSUME NEW t, NEW b, Tiles(t, 0, b), NEW V, Owned(t, V),
         NEW i \in 1 .. Len(t), NEW j \in i .. Len(t),
         NEW n \in Nat \ {0}, NEW o \in Owner, NEW f \in Nat,
         t[i].start + n + f = Edge(t, b, j + 1),
         \A p \in Pointers : HasWithin(t, i, j, p) <=> o = p,
         NEW r, r = Splice(t, i, j, WithRest(t[i].start, n, o, f))
  PROVE  Tiles(r, 0, b) /\ Owned(r, V) /\ Renewed(r, t, i, j, n, o, f)
<1> USE AllocatorAssumption
<1> DEFINE s == WithRest(t[i].start, n, o, f)
           d == Len(s) - (j - i + 1)
<1>1. t \in Seq(AreaRec) /\ Len(t) \in Nat /\ t[i].start \in Nat
  BY EndOf
<1>2. s = WithRest(t[i].start, n, o, f) /\ r = Splice(t, i, j, s)
  OBVIOUS
<1> HIDE DEF s
<1>3. /\ s \in Seq(AreaRec) /\ s[1] = Area(t[i].start, n, o)
      /\ f = 0 => Len(s) = 1
      /\ f # 0 => Len(s) = 2 /\ s[2] = Area(t[i].start + n, f, Free)
      /\ Tiles(s, t[i].start, t[i].start + n + f)
      /\ OnlyOf(s, o)
  <2>1. IsRest(s, t[i].start, n, o, f)
    BY <1>1, <1>2, RestKeeps
  <2> QED
    BY <2>1 DEF IsRest
<1>4. Tiles(s, t[i].start, Edge(t, b, j + 1))
  BY <1>3
<1>5. Tiles(r, 0, b)
  BY <1>2, <1>4, SpliceTiles
<1>6. \A p \in Pointers : Once(s, p) /\ (Has(s, p) <=> HasWithin(t, i, j, p))
  BY <1>3 DEF OnlyOf
<1>7. Owned(r, V)
  BY <1>1, <1>2, <1>3, <1>6, SameOwners
<1>8. d = Len(s) - (j - i + 1)
  OBVIOUS
<1> HIDE DEF d
<1>9. r \in Seq(AreaRec) /\ Replaced(r, t, i, j, s, d)
  BY <1>1, <1>2, <1>3, <1>8, Spliced
<1>10. /\ Len(r) = Len(t) + d
       /\ \A k \in 1 .. i - 1 : r[k] = t[k]
       /\ \A k \in 1 .. Len(s) : r[i - 1 + k] = s[k]
       /\ \A k \in j + 1 .. Len(t) : r[k + d] = t[k]
  BY <1>9 DEF Replaced
<1>11. i \in Nat /\ j \in Nat /\ 1 <= i /\ i <= j /\ j <= Len(t)
  BY <1>1
<1>12. s[1].owner = o /\ s[1].size = n /\ (f # 0 => s[2].owner = Free)
  BY <1>1, <1>3, Areas DEF Area
<1>13. CASE f = 0
  <2>1. Len(s) = 1
    BY <1>3, <1>13
  <2>2. d = -(j - i) /\ Len(s) = 1
    BY <2>1, <1>8, <1>11
  <2>3. r[i] = s[1]
    <3>1. i - 1 + 1 = i /\ 1 \in 1 .. Len(s)
      BY <2>2, <1>11
    <3>2. r[i - 1 + 1] = s[1]
      BY <3>1, <1>10
    <3> QED
      BY <3>1, <3>2
  <2>4. Len(r) = Len(t) - (j - i) /\ i \in 1 .. Len(r)
    BY <2>2, <1>1, <1>10, <1>11
  <2>5. ASSUME NEW k \in j + 1 .. Len(t)
        PROVE  k - (j - i) \in 1 .. Len(r) /\ r[k - (j - i)] = t[k]
    <3>1. k \in Int /\ j < k /\ k <= Len(t) /\ Len(t) \in Nat
      BY <1>1, <1>11
    <3>2. k + d = k - (j - i)
      BY <2>2, <3>1, <1>11
    <3>3. k - (j - i) \in 1 .. Len(r)
      BY <2>4, <3>1, <1>11
    <3> QED
      BY <3>2, <3>3, <1>10
  <2> QED
    BY <2>3, <2>4, <2>5, <1>5, <1>7, <1>9, <1>10, <1>12, <1>13 DEF Renewed
<1>14. CASE f # 0
  <2>1. Len(s) = 2
    BY <1>3, <1>14
  <2>2. d = 1 - (j - i) /\ Len(s) = 2
    BY <2>1, <1>8, <1>11
  <2>3. r[i] = s[1] /\ r[i + 1] = s[2]
    <3>1. i - 1 + 1 = i /\ i - 1 + 2 = i + 1 /\ 1 \in 1 .. Len(s) /\ 2 \in 1 .. Len(s)
      BY <2>2, <1>11
    <3>2. r[i - 1 + 1] = s[1] /\ r[i - 1 + 2] = s[2]
      BY <3>1, <1>10
    <3> QED
      BY <3>1, <3>2
  <2>4. Len(r) = Len(t) - (j - i) + 1 /\ i \in 1 .. Len(r) /\ i + 1 \in 1 .. Len(r)
    BY <2>2, <1>1, <1>10, <1>11
  <2> QED
    BY <2>3, <2>4, <1>5, <1>7, <1>9, <1>10, <1>12, <1>14 DEF Renewed
<1> QED
  BY <1>13, <1>14

\* r is t with the run l .. h, in which i is, become one free area at its first index:
\* what lies before it stays where it is, what lies behind it closes up.
United(r, t, i, l, h) ==
  /\ FreeFrom(t, l, h) /\ i \in l .. h /\ Min(Run(t, i)) = l
  /\ Len(r) = Len(t) - (h - l) /\ l \in 1 .. Len(r)
  /\ \A k \in 1 .. l - 1 : r[k] = t[k]
  /\ IsFree(r, l)
  /\ \A k \in h + 1 .. Len(t) : k - (h - l) \in 1 .. Len(r) /\ r[k - (h - l)] = t[k]

\* UniteFreeSpace does that to the run that i is in.
LEMMA UniteKeeps ==
  ASSUME NEW t, NEW b, Tiles(t, 0, b), NEW V, Owned(t, V), NEW i \in 1 .. Len(t),
         IsFree(t, i), NEW r, r = UniteFreeSpace(t, i)
  PROVE  /\ Tiles(r, 0, b) /\ Owned(r, V) /\ r \in Seq(AreaRec)
         /\ \E l, h : United(r, t, i, l, h)
<1> USE AllocatorAssumption
<1>1. t \in Seq(AreaRec) /\ Len(t) \in Nat /\ DOMAIN t = 1 .. Len(t)
  BY EndOf
<1>2. PICK l, h : /\ FreeFrom(t, l, h) /\ i \in l .. h /\ Run(t, i) = l .. h
                  /\ Min(Run(t, i)) = l /\ Max(Run(t, i)) = h
  BY <1>1, RunIs
<1>3. l \in 1 .. Len(t) /\ h \in l .. Len(t) /\ \A k \in l .. h : IsFree(t, k)
  BY <1>2 DEF FreeFrom
<1> DEFINE n == RangeMemoryAmount(t, l .. h)
<1>4. n \in Nat \ {0} /\ t[l].start + n = Edge(t, b, h + 1)
  BY <1>3, Amount
<1>5. r = Splice(t, l, h, <<Area(t[l].start, n, Free)>>)
  BY <1>2 DEF UniteFreeSpace
<1> HIDE DEF n
<1>6. t[l].start \in Nat
  BY <1>3, EndOf
<1>7. WithRest(t[l].start, n, Free, 0) = <<Area(t[l].start, n, Free)>>
  BY <1>4, <1>6, Areas DEF WithRest, Owner
<1>8. t[l].start + n + 0 = Edge(t, b, h + 1) /\ Free \in Owner
  BY <1>4, <1>6 DEF Owner
<1>9. \A p \in Pointers : HasWithin(t, l, h, p) <=> Free = p
  BY <1>3 DEF HasWithin, IsFree
<1>10. r = Splice(t, l, h, WithRest(t[l].start, n, Free, 0))
  BY <1>5, <1>7
<1>11. /\ Tiles(r, 0, b) /\ Owned(r, V)
       /\ r \in Seq(AreaRec) /\ Len(r) = Len(t) - (h - l) + (IF 0 = 0 THEN 0 ELSE 1)
       /\ \A k \in 1 .. l - 1 : r[k] = t[k]
       /\ l \in 1 .. Len(r) /\ r[l].owner = Free
       /\ \A k \in h + 1 .. Len(t) :
            0 = 0 => k - (h - l) \in 1 .. Len(r) /\ r[k - (h - l)] = t[k]
  <2>1. Tiles(r, 0, b) /\ Owned(r, V) /\ Renewed(r, t, l, h, n, Free, 0)
    BY <1>3, <1>4, <1>8, <1>9, <1>10, PartKeeps
  <2> QED
    BY <2>1 DEF Renewed
<1>12. Len(r) = Len(t) - (h - l)
  BY <1>11, <1>1, <1>3
<1>13. IsFree(r, l)
  BY <1>11 DEF IsFree
<1>14. \A k \in h + 1 .. Len(t) : k - (h - l) \in 1 .. Len(r) /\ r[k - (h - l)] = t[k]
  BY <1>11
<1>15. United(r, t, i, l, h)
  BY <1>2, <1>11, <1>12, <1>13, <1>14 DEF United
<1> QED
  BY <1>11, <1>15

\* moveToPreviousFree: the two areas have changed places.
LEMMA SwapKeeps ==
  ASSUME NEW t, NEW b, Tiles(t, 0, b), NEW V, Owned(t, V), NEW i, CanMove(t, i),
         NEW r, r = Swapped(t, i)
  PROVE  /\ Tiles(r, 0, b) /\ Owned(r, V) /\ r \in Seq(AreaRec) /\ Len(r) = Len(t)
         /\ r[i - 1].owner = t[i].owner /\ r[i - 1].size = t[i].size /\ IsFree(r, i)
         /\ \A k \in 1 .. i - 2 : r[k] = t[k]
         /\ \A k \in i + 1 .. Len(t) : r[k] = t[k]
<1> USE AllocatorAssumption
<1>1. t \in Seq(AreaRec) /\ Len(t) \in Nat
  BY DEF Tiles
<1>2. i \in 2 .. Len(t) /\ i \in Nat /\ i - 1 \in 1 .. Len(t) /\ i \in 1 .. Len(t)
      /\ i \in i - 1 .. Len(t) /\ (i - 1) + 1 = i
      /\ ~IsFree(t, i) /\ IsFree(t, i - 1)
  BY <1>1 DEF CanMove
<1> DEFINE a == t[i - 1].start
           f == t[i - 1].size
           n == t[i].size
           o == t[i].owner
           j == i - 1
<1>3. /\ a \in Nat /\ f \in Nat \ {0} /\ n \in Nat \ {0} /\ o \in Owner
      /\ a + f = t[i].start /\ t[i].start + n = Edge(t, b, i + 1)
  <2>1. /\ t[j].start \in Nat /\ t[j].size \in Nat \ {0}
        /\ Edge(t, b, j + 1) = t[j].start + t[j].size
    BY <1>2, EndOf
  <2>2. /\ t[i].size \in Nat \ {0} /\ t[i].owner \in Owner
        /\ Edge(t, b, i) = t[i].start /\ Edge(t, b, i + 1) = t[i].start + t[i].size
    BY <1>2, EndOf
  <2> QED
    BY <2>1, <2>2, <1>2
<1>4. r = Splice(t, j, i, WithRest(a, n, o, f))
  <2>1. Area(a, n, o) \in AreaRec /\ Area(a + n, f, Free) \in AreaRec
    BY <1>3, Areas DEF Owner
  <2>2. <<Area(a, n, o)>> \o <<Area(a + n, f, Free)>> = <<Area(a, n, o), Area(a + n, f, Free)>>
    BY <2>1, Pair
  <2>3. WithRest(a, n, o, f) = <<Area(a, n, o), Area(a + n, f, Free)>>
    BY <2>2, <1>3 DEF WithRest
  <2> QED
    BY <2>3 DEF Swapped
<1>5. a + n + f = Edge(t, b, i + 1)
  BY <1>3
<1>6. \A p \in Pointers : HasWithin(t, j, i, p) <=> o = p
  <2>1. \A k \in j .. i : k = j \/ k = i
    BY <1>2
  <2>2. i \in j .. i /\ j \in j .. i
    BY <1>2
  <2>3. t[j].owner = Free
    BY <1>2 DEF IsFree
  <2> HIDE DEF j
  <2> QED
    BY <2>1, <2>2, <2>3 DEF HasWithin
<1>7. j \in 1 .. Len(t) /\ i \in j .. Len(t) /\ f \in Nat /\ a = t[j].start
  BY <1>2, <1>3
<1> HIDE DEF a, n, f, o, j
<1>8. Tiles(r, 0, b) /\ Owned(r, V) /\ Renewed(r, t, j, i, n, o, f)
  <2>1. r = Splice(t, j, i, WithRest(t[j].start, n, o, f)) /\ t[j].start + n + f = Edge(t, b, i + 1)
    BY <1>4, <1>5, <1>7
  <2> QED
    BY <2>1, <1>3, <1>6, <1>7, PartKeeps
<1>9. /\ r \in Seq(AreaRec) /\ Len(r) = Len(t) - (i - j) + 1
      /\ \A k \in 1 .. j - 1 : r[k] = t[k]
      /\ r[j].owner = o /\ r[j].size = n /\ r[j + 1].owner = Free
  BY <1>3, <1>8 DEF Renewed
<1>10. j = i - 1 /\ j + 1 = i /\ j - 1 = i - 2
  BY <1>2 DEF j
<1>11. Len(r) = Len(t)
  BY <1>1, <1>2, <1>9, <1>10
<1>12. \A k \in i + 1 .. Len(t) : r[k] = t[k]
  <2> DEFINE s == WithRest(a, n, o, f)
  <2>1. s \in Seq(AreaRec) /\ Len(s) = 2
    <3>1. Area(a, n, o) \in AreaRec /\ Area(a + n, f, Free) \in AreaRec
      BY <1>3, Areas DEF Owner
    <3>2. s = <<Area(a, n, o), Area(a + n, f, Free)>>
      BY <3>1, <1>3, Pair DEF WithRest
    <3> QED
      BY <3>1, <3>2
  <2> HIDE DEF s
  <2>2. r = Splice(t, j, i, s) /\ 0 = Len(s) - (i - j + 1)
    BY <2>1, <1>2, <1>4, <1>10 DEF s
  <2>3. Replaced(r, t, j, i, s, 0)
    BY <2>1, <2>2, <1>1, <1>7, Spliced
  <2> QED
    BY <2>3, <1>1, <1>2 DEF Replaced
<1> QED
  BY <1>8, <1>9, <1>10, <1>11, <1>12 DEF o, n, IsFree

-----------------------------------------------------------------------------
(* The order of the allocated areas.                                        *)

\* The areas of the pointers in V lie in u in the order that they have in t.
SameOrder(t, u, V) ==
  \A p, q \in V : Of(u, p) < Of(u, q) <=> Of(t, p) < Of(t, q)

\* A valid pointer refers to the one area that it owns.
LEMMA OfOwner ==
  ASSUME NEW t, NEW b, Tiles(t, 0, b), NEW V, V \subseteq Pointers, Owned(t, V), NEW p \in V
  PROVE  /\ Of(t, p) \in 1 .. Len(t) /\ t[Of(t, p)].owner = p /\ ~IsFree(t, Of(t, p))
         /\ \A i \in 1 .. Len(t) : t[i].owner = p => i = Of(t, p)
<1>1. DOMAIN t = 1 .. Len(t) /\ p \in Pointers
  BY DEF Tiles
<1>2. Has(t, p) /\ Once(t, p)
  BY <1>1 DEF Owned
<1>3. Of(t, p) \in DOMAIN t /\ t[Of(t, p)].owner = p
  BY <1>2 DEF Has, Of
<1>4. \A i \in DOMAIN t : t[i].owner = p => i = Of(t, p)
  BY <1>2, <1>3 DEF Once
<1> QED
  BY <1>1, <1>3, <1>4, AllocatorAssumption DEF IsFree

\* What takes each allocated area to a place of its own, in order, keeps the order.
LEMMA OrderIs ==
  ASSUME NEW t, NEW b, Tiles(t, 0, b), NEW V, V \subseteq Pointers, Owned(t, V),
         NEW u, Tiles(u, 0, b), Owned(u, V), NEW m,
         \A i \in 1 .. Len(t) :
           ~IsFree(t, i) => m[i] \in 1 .. Len(u) /\ u[m[i]].owner = t[i].owner,
         \A i, j \in 1 .. Len(t) :
           ~IsFree(t, i) /\ ~IsFree(t, j) /\ i < j => m[i] < m[j]
  PROVE  SameOrder(t, u, V)
<1>1. SUFFICES ASSUME NEW p \in V, NEW q \in V
               PROVE  Of(u, p) < Of(u, q) <=> Of(t, p) < Of(t, q)
  BY DEF SameOrder
<1> DEFINE i == Of(t, p)
           j == Of(t, q)
<1>2. /\ i \in 1 .. Len(t) /\ t[i].owner = p /\ ~IsFree(t, i)
      /\ j \in 1 .. Len(t) /\ t[j].owner = q /\ ~IsFree(t, j)
  BY OfOwner
<1>3. \A k \in 1 .. Len(u) : /\ u[k].owner = p => k = Of(u, p)
                             /\ u[k].owner = q => k = Of(u, q)
  BY OfOwner
<1>4. m[i] = Of(u, p) /\ m[j] = Of(u, q) /\ m[i] \in 1 .. Len(u) /\ m[j] \in 1 .. Len(u)
  BY <1>2, <1>3
<1>5. Len(t) \in Nat /\ Len(u) \in Nat
  BY DEF Tiles
<1>6. /\ i < j => m[i] < m[j]
      /\ j < i => m[j] < m[i]
      /\ i = j => m[i] = m[j]
  BY <1>2
<1>7. i \in Nat /\ j \in Nat /\ m[i] \in Nat /\ m[j] \in Nat
  BY <1>2, <1>4, <1>5
<1>8. m[i] < m[j] <=> i < j
  <2> DEFINE x == m[i]
             y == m[j]
  <2>1. /\ i \in Nat /\ j \in Nat /\ x \in Nat /\ y \in Nat
        /\ i < j => x < y
        /\ j < i => y < x
        /\ i = j => x = y
    BY <1>6, <1>7
  <2> HIDE DEF i, j, x, y
  <2>2. x < y <=> i < j
    BY <2>1
  <2> QED
    BY <2>2 DEF x, y
<1> QED
  BY <1>4, <1>8

\* UniteFreeSpace moves the areas behind the run forward by as much as it erases.
LEMMA UniteOrder ==
  ASSUME NEW t, NEW b, Tiles(t, 0, b), NEW V, V \subseteq Pointers, Owned(t, V),
         NEW i \in 1 .. Len(t), IsFree(t, i), NEW r, r = UniteFreeSpace(t, i)
  PROVE  SameOrder(t, r, V)
<1>1. Tiles(r, 0, b) /\ Owned(r, V) /\ Len(t) \in Nat /\ Len(r) \in Nat
  BY UniteKeeps DEF Tiles
<1>0. PICK l, h : United(r, t, i, l, h)
  BY UniteKeeps
<1>2. /\ FreeFrom(t, l, h)
      /\ Len(r) = Len(t) - (h - l) /\ l \in 1 .. Len(r)
      /\ \A k \in 1 .. l - 1 : r[k] = t[k]
      /\ \A k \in h + 1 .. Len(t) : k - (h - l) \in 1 .. Len(r) /\ r[k - (h - l)] = t[k]
  BY <1>0 DEF United
<1>3. l \in 1 .. Len(t) /\ h \in l .. Len(t) /\ \A k \in l .. h : IsFree(t, k)
  BY <1>2 DEF FreeFrom
<1> DEFINE m == [k \in 1 .. Len(t) |-> IF k < l THEN k ELSE k - (h - l)]
<1>4. ASSUME NEW k \in 1 .. Len(t), ~IsFree(t, k)
      PROVE  /\ m[k] \in 1 .. Len(r) /\ r[m[k]].owner = t[k].owner
             /\ k < l \/ h < k
  <2>1. k \in 1 .. l - 1 \/ k \in h + 1 .. Len(t)
    BY <1>1, <1>3, <1>4
  <2>2. CASE k \in 1 .. l - 1
    <3>1. m[k] = k /\ k \in 1 .. Len(r) /\ k < l
      BY <2>2, <1>1, <1>2, <1>3
    <3> QED
      BY <3>1, <2>2, <1>2
  <2>3. CASE k \in h + 1 .. Len(t)
    <3>1. m[k] = k - (h - l) /\ h < k
      BY <2>3, <1>1, <1>3
    <3> QED
      BY <3>1, <2>3, <1>2
  <2> QED
    BY <2>1, <2>2, <2>3
<1>5. ASSUME NEW k \in 1 .. Len(t), NEW j \in 1 .. Len(t),
             ~IsFree(t, k), ~IsFree(t, j), k < j
      PROVE  m[k] < m[j]
  <2>1. (k < l \/ h < k) /\ (j < l \/ h < j)
    BY <1>4, <1>5
  <2>2. k \in Nat /\ j \in Nat /\ l \in Nat /\ h \in Nat /\ l <= h
    BY <1>1, <1>3
  <2> QED
    BY <2>1, <2>2, <1>5
<1> HIDE DEF m
<1> QED
  BY <1>1, <1>4, <1>5, OrderIs

\* moveToPreviousFree moves one area, over free space.
LEMMA SwapOrder ==
  ASSUME NEW t, NEW b, Tiles(t, 0, b), NEW V, V \subseteq Pointers, Owned(t, V),
         NEW i, CanMove(t, i), NEW r, r = Swapped(t, i)
  PROVE  SameOrder(t, r, V)
<1>1. /\ Tiles(r, 0, b) /\ Owned(r, V) /\ Len(r) = Len(t)
      /\ r[i - 1].owner = t[i].owner
      /\ \A k \in 1 .. i - 2 : r[k] = t[k]
      /\ \A k \in i + 1 .. Len(t) : r[k] = t[k]
  BY SwapKeeps
<1>2. i \in 2 .. Len(t) /\ ~IsFree(t, i) /\ IsFree(t, i - 1) /\ Len(t) \in Nat
  BY DEF CanMove, Tiles
<1> DEFINE m == [k \in 1 .. Len(t) |-> IF k = i THEN i - 1 ELSE k]
<1>3. ASSUME NEW k \in 1 .. Len(t), ~IsFree(t, k)
      PROVE  /\ m[k] \in 1 .. Len(r) /\ r[m[k]].owner = t[k].owner
             /\ k # i - 1
  <2>1. k # i - 1
    BY <1>2, <1>3
  <2>2. k \in 1 .. i - 2 \/ k = i \/ k \in i + 1 .. Len(t)
    BY <2>1, <1>2
  <2>3. k # i => m[k] = k
    OBVIOUS
  <2>4. k = i => m[k] = i - 1 /\ i - 1 \in 1 .. Len(t)
    BY <1>2
  <2>5. k \in 1 .. i - 2 \/ k \in i + 1 .. Len(t) => k # i /\ r[k] = t[k]
    BY <1>1, <1>2
  <2> HIDE DEF m
  <2>6. m[k] \in 1 .. Len(t) /\ r[m[k]].owner = t[k].owner
    BY <2>2, <2>3, <2>4, <2>5, <1>1
  <2> QED
    BY <2>1, <2>6, <1>1
<1>4. ASSUME NEW k \in 1 .. Len(t), NEW j \in 1 .. Len(t),
             ~IsFree(t, k), ~IsFree(t, j), k < j
      PROVE  m[k] < m[j]
  <2>1. k # i - 1 /\ j # i - 1
    BY <1>3, <1>4
  <2>2. k \in Nat /\ j \in Nat /\ i \in Nat
    BY <1>2
  <2> QED
    BY <2>1, <2>2, <1>4
<1> HIDE DEF m
<1> QED
  BY <1>1, <1>3, <1>4, OrderIs

\* extendToNextFree
LEMMA ExtendKeeps ==
  ASSUME NEW t, NEW b, Tiles(t, 0, b), NEW V, Owned(t, V), NEW i \in DOMAIN t,
         NEW n \in Nat, n > t[i].size, CanExtend(t, i, n)
  PROVE  Tiles(Extended(t, i, n), 0, b) /\ Owned(Extended(t, i, n), V)
<1>1. t \in Seq(AreaRec) /\ Len(t) \in Nat
  BY DEF Tiles
<1> DEFINE a == t[i].start
           z == t[i].size
           y == t[i + 1].size
           o == t[i].owner
           j == i + 1
           f == y - (n - z)
           r == Extended(t, i, n)
<1>2. /\ i \in 1 .. Len(t) /\ i \in Nat /\ j \in 1 .. Len(t) /\ j \in i .. Len(t)
      /\ IsFree(t, j) /\ y >= n - z
  BY <1>1 DEF CanExtend
<1>3. /\ a \in Nat /\ z \in Nat \ {0} /\ y \in Nat \ {0} /\ o \in Owner
      /\ a + z = t[j].start /\ t[j].start + y = Edge(t, b, j + 1)
  <2>1. /\ t[i].start \in Nat /\ t[i].size \in Nat \ {0} /\ t[i].owner \in Owner
        /\ Edge(t, b, i + 1) = t[i].start + t[i].size
    BY <1>2, EndOf
  <2>2. /\ t[j].size \in Nat \ {0}
        /\ Edge(t, b, j) = t[j].start /\ Edge(t, b, j + 1) = t[j].start + t[j].size
    BY <1>2, EndOf
  <2> QED
    BY <2>1, <2>2
<1>4. /\ f \in Nat /\ a + n + f = Edge(t, b, j + 1) /\ n \in Nat \ {0}
      /\ f = 0 <=> y = n - z
      /\ t[j].start + (n - z) = a + n
  <2> DEFINE c == t[j].start
             e == Edge(t, b, j + 1)
  <2>1. n > z /\ y >= n - z /\ a + z = c /\ c + y = e
    BY <1>2, <1>3
  <2>2. c \in Nat
    BY <1>2, EndOf
  <2> HIDE DEF a, z, y, o, j, c, e
  <2>3. f \in Nat /\ n \in Nat \ {0} /\ (f = 0 <=> y = n - z)
    BY <2>1, <1>3
  <2>4. a + n + f = e /\ c + (n - z) = a + n
    BY <2>1, <2>2, <1>3
  <2> QED
    BY <2>3, <2>4 DEF c, e
<1>5. r = Splice(t, i, j, WithRest(a, n, o, f))
  BY <1>4 DEF Extended, WithRest
<1>6. \A p \in Pointers : HasWithin(t, i, j, p) <=> o = p
  <2>1. \A k \in i .. j : k = j \/ k = i
    BY <1>2
  <2>2. i \in i .. j /\ j \in i .. j
    BY <1>2
  <2>3. t[j].owner = Free
    BY <1>2 DEF IsFree
  <2> HIDE DEF j
  <2> QED
    BY <2>1, <2>2, <2>3, AllocatorAssumption DEF HasWithin
<1>7. a = t[i].start
  OBVIOUS
<1> HIDE DEF a, z, y, o, j, f, r
<1>8. Tiles(r, 0, b) /\ Owned(r, V)
  <2>1. r = Splice(t, i, j, WithRest(t[i].start, n, o, f)) /\ t[i].start + n + f = Edge(t, b, j + 1)
    BY <1>4, <1>5, <1>7
  <2> QED
    BY <2>1, <1>2, <1>3, <1>4, <1>6, PartKeeps
<1> QED
  BY <1>8 DEF r

\* realloc to fewer bytes
LEMMA ShrinkKeeps ==
  ASSUME NEW t, NEW b, Tiles(t, 0, b), NEW V, Owned(t, V), NEW i \in DOMAIN t,
         NEW n \in Nat \ {0}, n < t[i].size, NEW p, t[i].owner = p,
         NEW r, r = Splice(t, i, i, <<Area(t[i].start, n, p),
                                      Area(t[i].start + n, t[i].size - n, Free)>>)
  PROVE  Tiles(r, 0, b) /\ Owned(r, V)
<1> USE AllocatorAssumption
<1>1. t \in Seq(AreaRec) /\ Len(t) \in Nat /\ i \in 1 .. Len(t) /\ i \in i .. Len(t)
  BY DEF Tiles
<1>2. /\ t[i].start \in Nat /\ t[i].size \in Nat \ {0} /\ p \in Owner
      /\ Edge(t, b, i + 1) = t[i].start + t[i].size
  BY <1>1, EndOf
<1> DEFINE f == t[i].size - n
<1>3. f \in Nat \ {0} /\ t[i].start + n + f = Edge(t, b, i + 1)
  BY <1>2
<1>4. r = Splice(t, i, i, <<Area(t[i].start, n, p), Area(t[i].start + n, f, Free)>>)
  OBVIOUS
<1> HIDE DEF f
<1>5. r = Splice(t, i, i, WithRest(t[i].start, n, p, f))
  <2>1. Area(t[i].start, n, p) \in AreaRec /\ Area(t[i].start + n, f, Free) \in AreaRec
    BY <1>2, <1>3, Areas DEF Owner
  <2>2. WithRest(t[i].start, n, p, f) = <<Area(t[i].start, n, p), Area(t[i].start + n, f, Free)>>
    BY <2>1, <1>3, Pair DEF WithRest
  <2> QED
    BY <2>2, <1>4
<1>6. \A q \in Pointers : HasWithin(t, i, i, q) <=> p = q
  <2>1. i .. i = {i}
    BY <1>1
  <2> QED
    BY <2>1 DEF HasWithin
<1>7. f \in Nat
  BY <1>3
<1> QED
  BY <1>1, <1>2, <1>3, <1>5, <1>6, <1>7, PartKeeps

\* The list with area i given up, before it joins the free areas around it.
GiveUp(t, i) == [t EXCEPT ![i].owner = Free]

\* r is t with area i given up.
GivesUp(r, t, i) ==
  /\ Len(r) = Len(t) /\ DOMAIN r = DOMAIN t
  /\ \A k \in DOMAIN t \ {i} : r[k] = t[k]
  /\ r[i] = Area(t[i].start, t[i].size, Free)

\* GiveUp changes the owner of one area and nothing else,
LEMMA Loses ==
  ASSUME NEW t \in Seq(AreaRec), NEW i \in DOMAIN t,
         NEW r, r = GiveUp(t, i)
  PROVE  r \in Seq(AreaRec) /\ GivesUp(r, t, i)
<1> DEFINE e == [t[i] EXCEPT !.owner = Free]
<1>1. t[i].start \in Nat /\ t[i].size \in Nat \ {0} /\ t[i] \in AreaRec /\ i \in 1 .. Len(t)
  BY AreaFields
<1>2. e = Area(t[i].start, t[i].size, Free)
  BY <1>1 DEF AreaRec, Area
<1>3. e \in AreaRec
  BY <1>1, <1>2, Areas DEF Owner
<1> HIDE DEF e
<1>4. r = [t EXCEPT ![i] = e]
  BY DEF e, GiveUp
<1>5. r \in Seq(AreaRec) /\ Len(r) = Len(t)
  BY <1>1, <1>3, <1>4, ExceptSeq
<1>6. DOMAIN r = DOMAIN t /\ \A k \in DOMAIN t \ {i} : r[k] = t[k]
  BY <1>4
<1>7. r[i] = e
  BY <1>4
<1> QED
  BY <1>2, <1>5, <1>6, <1>7 DEF GivesUp

\* so the areas still tile the arena and p has none.
LEMMA LoseKeeps ==
  ASSUME NEW t, NEW b, Tiles(t, 0, b), NEW V, Owned(t, V),
         NEW i \in DOMAIN t, NEW p \in Pointers, t[i].owner = p,
         NEW r, r = GiveUp(t, i)
  PROVE  /\ Tiles(r, 0, b) /\ Owned(r, V \ {p})
         /\ Len(r) = Len(t) /\ DOMAIN r = DOMAIN t /\ IsFree(r, i)
<1> USE AllocatorAssumption
<1>1. t \in Seq(AreaRec) /\ DOMAIN t = 1 .. Len(t) /\ Len(t) \in Nat
  BY DEF Tiles
<1>2. /\ r \in Seq(AreaRec) /\ Len(r) = Len(t) /\ DOMAIN r = DOMAIN t
      /\ \A k \in DOMAIN t \ {i} : r[k] = t[k]
      /\ r[i] = Area(t[i].start, t[i].size, Free)
  <2>1. r \in Seq(AreaRec) /\ GivesUp(r, t, i)
    BY <1>1, Loses
  <2> QED
    BY <2>1 DEF GivesUp
<1>3. r[i].start = t[i].start /\ r[i].size = t[i].size /\ r[i].owner = Free
  BY <1>2 DEF Area
<1>4. \A k \in DOMAIN t : r[k].start = t[k].start /\ r[k].size = t[k].size
  BY <1>2, <1>3
<1>5. \A k \in 1 .. Len(t) + 1 : Edge(r, b, k) = Edge(t, b, k)
  BY <1>2, <1>4 DEF Edge
<1>6. Tiles(r, 0, b)
  <2>1. Edge(r, b, 1) = 0
    <3>1. Edge(t, b, 1) = 0 /\ 1 \in 1 .. Len(t) + 1
      BY <1>1 DEF Tiles
    <3> QED
      BY <3>1, <1>5
  <2>2. ASSUME NEW k \in DOMAIN r
        PROVE  r[k].start + r[k].size = Edge(r, b, k + 1)
    <3>1. t[k].start + t[k].size = Edge(t, b, k + 1)
      BY <1>2 DEF Tiles
    <3>2. k + 1 \in 1 .. Len(t) + 1
      BY <1>1, <1>2
    <3> QED
      BY <3>1, <3>2, <1>2, <1>4, <1>5
  <2>3. b \in Nat
    BY DEF Tiles
  <2> QED
    BY <2>1, <2>2, <2>3, <1>2 DEF Tiles
<1>7. ASSUME NEW q \in Pointers
      PROVE  Once(r, q) /\ (q \in V \ {p} <=> Has(r, q))
  <2>1. Once(t, q) /\ (q \in V <=> Has(t, q))
    BY DEF Owned
  <2>2. \A k \in DOMAIN t : r[k].owner = q => k # i /\ t[k].owner = q
    BY <1>2, <1>3
  <2>3. \A k \in DOMAIN t : t[k].owner = q /\ k # i => r[k].owner = q
    BY <1>2
  <2>4. Once(r, q)
    BY <2>1, <2>2, <1>2 DEF Once
  <2>5. CASE q = p
    <3>1. ~Has(r, q)
      BY <2>1, <2>2, <2>5, <1>2 DEF Once, Has
    <3> QED
      BY <2>4, <2>5, <3>1
  <2>6. CASE q # p
    <3>1. Has(r, q) <=> Has(t, q)
      BY <2>2, <2>3, <2>6, <1>2 DEF Has
    <3> QED
      BY <2>1, <2>4, <2>6, <3>1
  <2> QED
    BY <2>5, <2>6
<1> QED
  BY <1>2, <1>3, <1>6, <1>7 DEF Owned, IsFree

\* free: the area of p joins the free space around it.
LEMMA FreedKeeps ==
  ASSUME NEW t, NEW b, Tiles(t, 0, b), NEW V, Owned(t, V),
         NEW i \in DOMAIN t, NEW p \in Pointers, t[i].owner = p
  PROVE  Tiles(Freed(t, i), 0, b) /\ Owned(Freed(t, i), V \ {p})
<1> DEFINE r == GiveUp(t, i)
<1>1. DOMAIN t = 1 .. Len(t)
  BY DEF Tiles
<1>2. /\ Tiles(r, 0, b) /\ Owned(r, V \ {p})
      /\ Len(r) = Len(t) /\ DOMAIN r = DOMAIN t /\ IsFree(r, i)
  <2>1. r = GiveUp(t, i)
    OBVIOUS
  <2> HIDE DEF r
  <2> QED
    <3>1. Tiles(r, 0, b)
      BY <2>1, LoseKeeps
    <3>2. Owned(r, V \ {p})
      BY <2>1, LoseKeeps
    <3>3. Len(r) = Len(t) /\ DOMAIN r = DOMAIN t /\ IsFree(r, i)
      <4>1. t \in Seq(AreaRec)
        BY DEF Tiles
      <4>2. GivesUp(r, t, i)
        BY <2>1, <4>1, Loses
      <4> QED
        BY <4>2 DEF GivesUp, Area, IsFree
    <3> QED
      BY <3>1, <3>2, <3>3
<1>3. Freed(t, i) = UniteFreeSpace(r, i)
  BY DEF Freed, GiveUp
<1> HIDE DEF r
<1>4. i \in 1 .. Len(r)
  BY <1>1, <1>2
<1> QED
  BY <1>2, <1>3, <1>4, UniteKeeps

\* Where index o lies when s has replaced what is at m.
Shifted(o, m, s) == IF o < m THEN o ELSE o + (Len(s) - 1)

\* To cut an area out of a free one and then give up another is the same as to give
\* that up first.
LEMMA GivenUp ==
  ASSUME NEW t \in Seq(AreaRec), NEW s \in Seq(AreaRec), NEW m \in DOMAIN t,
         NEW o \in DOMAIN t, o # m,
         NEW i, i = Shifted(o, m, s)
  PROVE  /\ i \in DOMAIN Splice(t, m, m, s) /\ Splice(t, m, m, s)[i] = t[o]
         /\ GiveUp(Splice(t, m, m, s), i) = Splice(GiveUp(t, o), m, m, s)
<1> USE DEF Shifted
<1> DEFINE t0 == GiveUp(t, o)
           r == Splice(t, m, m, s)
           d == Len(s) - (m - m + 1)
           r0 == Splice(t0, m, m, s)
           u == GiveUp(r, i)
<1>1. t0 = GiveUp(t, o) /\ r = Splice(t, m, m, s)
  OBVIOUS
<1> HIDE DEF t0, r
<1>2. /\ Len(t) \in Nat /\ DOMAIN t = 1 .. Len(t) /\ Len(s) \in Nat
      /\ m \in 1 .. Len(t) /\ m \in m .. Len(t) /\ o \in 1 .. Len(t)
  OBVIOUS
<1>3. /\ t0 \in Seq(AreaRec) /\ Len(t0) = Len(t) /\ DOMAIN t0 = DOMAIN t
      /\ \A k \in DOMAIN t \ {o} : t0[k] = t[k]
      /\ t0[o] = Area(t[o].start, t[o].size, Free)
  <2>1. t0 \in Seq(AreaRec) /\ GivesUp(t0, t, o)
    BY <1>1, Loses
  <2> QED
    BY <2>1 DEF GivesUp
<1>4. d = Len(s) - 1
  BY <1>2
<1>5. r \in Seq(AreaRec) /\ Replaced(r, t, m, m, s, d)
  BY <1>1, <1>2, Spliced
<1>6. r0 \in Seq(AreaRec) /\ Replaced(r0, t0, m, m, s, d)
  <2>1. m \in 1 .. Len(t0) /\ m \in m .. Len(t0)
    BY <1>2, <1>3
  <2> QED
    BY <2>1, <1>3, Spliced
<1> HIDE DEF d, r0
<1>7. /\ Len(r) = Len(t) + d /\ DOMAIN r = 1 .. Len(t) + d
      /\ \A k \in 1 .. m - 1 : r[k] = t[k]
      /\ \A k \in 1 .. Len(s) : r[m - 1 + k] = s[k]
      /\ \A k \in m + 1 .. Len(t) : r[k + d] = t[k]
  BY <1>5 DEF Replaced
<1>8. /\ Len(r0) = Len(t) + d /\ DOMAIN r0 = 1 .. Len(t) + d
      /\ \A k \in 1 .. m - 1 : r0[k] = t0[k]
      /\ \A k \in 1 .. Len(s) : r0[m - 1 + k] = s[k]
      /\ \A k \in m + 1 .. Len(t) : r0[k + d] = t0[k]
  <2>1. /\ Len(r0) = Len(t0) + d
        /\ \A k \in 1 .. m - 1 : r0[k] = t0[k]
        /\ \A k \in 1 .. Len(s) : r0[m - 1 + k] = s[k]
        /\ \A k \in m + 1 .. Len(t0) : r0[k + d] = t0[k]
    BY <1>6 DEF Replaced
  <2>2. DOMAIN r0 = 1 .. Len(r0)
    BY <1>6
  <2> QED
    BY <2>1, <2>2, <1>3
<1>9. i \in 1 .. Len(t) + d /\ r[i] = t[o] /\ i \in DOMAIN r
  <2>1. CASE o < m
    <3>1. o \in 1 .. m - 1 /\ i = o /\ o \in 1 .. Len(t) + d
      BY <2>1, <1>2, <1>4
    <3> QED
      BY <3>1, <1>7
  <2>2. CASE ~(o < m)
    <3>1. o \in m + 1 .. Len(t) /\ i = o + d /\ o + d \in 1 .. Len(t) + d
      BY <2>2, <1>2, <1>4
    <3> QED
      BY <3>1, <1>7
  <2> QED
    BY <2>1, <2>2
<1>10. /\ u \in Seq(AreaRec) /\ Len(u) = Len(r)
       /\ \A k \in DOMAIN r \ {i} : u[k] = r[k]
       /\ u[i] = Area(r[i].start, r[i].size, Free)
  <2>1. u = GiveUp(r, i)
    OBVIOUS
  <2> HIDE DEF u
  <2>2. u \in Seq(AreaRec) /\ GivesUp(u, r, i)
    BY <2>1, <1>5, <1>9, Loses
  <2> QED
    BY <2>2 DEF GivesUp
<1> HIDE DEF u
<1>11. u[i] = t0[o]
  BY <1>3, <1>9, <1>10
<1>12. ASSUME NEW k \in 1 .. Len(t) + d
       PROVE  u[k] = r0[k]
  <2>1. CASE k < m
    <3>1. k \in 1 .. m - 1 /\ k \in DOMAIN t
      BY <2>1, <1>2
    <3>2. CASE k = o
      <4>1. k = i
        BY <2>1, <3>2
      <4> QED
        BY <4>1, <3>1, <3>2, <1>8, <1>11
    <3>3. CASE k # o
      <4>1. k # i
        <5>1. CASE o < m
          BY <5>1, <3>3
        <5>2. CASE ~(o < m)
          BY <5>2, <2>1, <1>2
        <5> QED
          BY <5>1, <5>2
      <4>2. u[k] = t[k]
        BY <4>1, <3>1, <1>7, <1>10
      <4>3. r0[k] = t[k]
        BY <3>1, <3>3, <1>3, <1>8
      <4> QED
        BY <4>2, <4>3
    <3> QED
      BY <3>2, <3>3
  <2>2. CASE m <= k /\ k < m + Len(s)
    <3>1. PICK q \in 1 .. Len(s) : k = m - 1 + q
      <4>1. k - m + 1 \in 1 .. Len(s) /\ k = m - 1 + (k - m + 1)
        BY <2>2, <1>2
      <4> QED
        BY <4>1
    <3>2. k # i
      BY <2>2, <1>2
    <3>3. k \in DOMAIN r
      BY <1>7
    <3> QED
      BY <3>1, <3>2, <3>3, <1>7, <1>8, <1>10
  <2>3. CASE m + Len(s) <= k
    <3>1. PICK q \in m + 1 .. Len(t) : k = q + d
      <4>1. k - d \in m + 1 .. Len(t) /\ k = (k - d) + d
        BY <2>3, <1>2, <1>4
      <4> QED
        BY <4>1
    <3>2. q \in DOMAIN t
      BY <1>2
    <3>3. k \in DOMAIN r
      BY <1>7
    <3>4. k = i <=> q = o
      <4>1. q \in Int /\ m < q /\ o \in Int /\ m \in Int /\ d \in Int /\ o # m
        BY <3>1, <1>2, <1>4
      <4>2. o < m => i = o
        BY <1>2, <1>4
      <4>3. ~(o < m) => i = o + d
        BY <1>2, <1>4
      <4>4. m <= k
        BY <2>3, <1>2
      <4>5. CASE o < m
        BY <4>1, <4>2, <4>4, <4>5
      <4>6. CASE ~(o < m)
        <5>1. i = o + d /\ k = q + d
          BY <3>1, <4>3, <4>6
        <5> QED
          BY <4>1, <5>1
      <4> QED
        BY <4>5, <4>6
    <3>5. CASE q = o
      BY <3>1, <3>4, <3>5, <1>8, <1>11
    <3>6. CASE q # o
      <4>1. u[k] = t[q]
        BY <3>1, <3>3, <3>4, <3>6, <1>7, <1>10
      <4>2. r0[k] = t[q]
        BY <3>1, <3>2, <3>6, <1>3, <1>8
      <4> QED
        BY <4>1, <4>2
    <3> QED
      BY <3>5, <3>6
  <2> QED
    BY <2>1, <2>2, <2>3, <1>2, <1>4
<1>13. u = r0
  BY <1>6, <1>7, <1>8, <1>10, <1>12, SeqEqual
<1> QED
  BY <1>9, <1>13 DEF u, r0, r, t0

-----------------------------------------------------------------------------
(* The invariant.                                                           *)

\* Before the iterator of defrag's loop no area is free, but for the last of all,
\* which ends the loop.
InLoop ==
  pc = "defrag" =>
    /\ at \in 1 .. Len(table) + 1
    /\ \A k \in 1 .. at - 1 : IsFree(table, k) => k = Len(table)

IInv ==
  /\ Tiles(table, 0, Size)
  /\ Owned(table, valid)
  /\ valid \subseteq Pointers
  /\ InLoop

\* It holds what the runs check.
LEMMA InvSound == IInv => ListSound
<1> SUFFICES ASSUME IInv PROVE ListSound
  OBVIOUS
<1>1. Tiling
  BY TilingIs DEF IInv
<1>2. table \in Seq(AreaRec) /\ Len(table) \in Nat
  BY DEF IInv, Tiles
<1>3. OneAreaEach
  BY <1>2, OwnedIs DEF IInv
<1>4. CursorSafe
  <2>1. SUFFICES ASSUME pc = "defrag"
                 PROVE  /\ at \in 1 .. Len(table) + 1
                        /\ at \in 2 .. Len(table) => ~IsFree(table, at - 1)
    BY DEF CursorSafe
  <2>2. /\ at \in 1 .. Len(table) + 1
        /\ \A k \in 1 .. at - 1 : IsFree(table, k) => k = Len(table)
    BY <2>1 DEF IInv, InLoop
  <2>3. ASSUME at \in 2 .. Len(table)
        PROVE  ~IsFree(table, at - 1)
    <3>1. at - 1 \in 1 .. at - 1 /\ at - 1 # Len(table)
      BY <2>3, <1>2
    <3> QED
      BY <3>1, <2>2
  <2> QED
    BY <2>2, <2>3
<1> QED
  BY <1>1, <1>3, <1>4 DEF ListSound

\* The empty arena.
LEMMA InitInv == Init => IInv
<1> SUFFICES ASSUME Init PROVE IInv
  OBVIOUS
<1> USE AllocatorAssumption
<1> DEFINE A == Area(0, Size, Free)
<1>1. A \in AreaRec /\ A.start = 0 /\ A.size = Size /\ A.owner = Free
  BY Areas DEF Owner
<1> HIDE DEF A
<1>2. table = <<A>> /\ valid = {} /\ pc = "ready"
  BY DEF Init, A
<1>3. table \in Seq(AreaRec) /\ Len(table) = 1 /\ DOMAIN table = {1} /\ table[1] = A
  BY <1>1, <1>2
<1>4. Edge(table, Size, 1) = 0 /\ Edge(table, Size, 2) = Size
  BY <1>1, <1>3 DEF Edge
<1>5. Tiles(table, 0, Size)
  BY <1>1, <1>3, <1>4 DEF Tiles
<1>6. Owned(table, valid)
  BY <1>1, <1>2, <1>3 DEF Owned, Once, Has
<1>7. InLoop /\ valid \subseteq Pointers
  BY <1>2 DEF InLoop
<1> QED
  BY <1>5, <1>6, <1>7 DEF IInv

\* The area of a valid pointer.
LEMMA OfIs ==
  ASSUME IInv, NEW p \in valid
  PROVE  /\ Of(table, p) \in DOMAIN table /\ table[Of(table, p)].owner = p
         /\ p \in Pointers /\ Of(table, p) \in 1 .. Len(table)
<1>1. p \in Pointers /\ Has(table, p)
  BY DEF IInv, Owned
<1>2. Of(table, p) \in DOMAIN table /\ table[Of(table, p)].owner = p
  BY <1>1 DEF Has, Of
<1>3. DOMAIN table = 1 .. Len(table)
  BY DEF IInv, Tiles
<1> QED
  BY <1>1, <1>2, <1>3

\* alloc
LEMMA AllocInv ==
  ASSUME IInv, NEW p \in Pointers, NEW n \in 1 .. Size, Alloc(p, n)
  PROVE  IInv'
<1> USE AllocatorAssumption
<1>1. /\ Tiles(table, 0, Size) /\ Owned(table, valid) /\ table \in Seq(AreaRec)
      /\ n \in Nat \ {0} /\ p \notin valid /\ Fitting(table, n) # {}
  BY DEF IInv, Alloc, Tiles
<1>2. PICK i \in 1 .. Len(table) :
        /\ IsFree(table, i) /\ table[i].size >= n
        /\ Allocated(table, p, n) =
             Splice(table, i, i, WithRest(table[i].start, n, p, table[i].size - n))
  BY <1>1, AllocCuts
<1>3. table' = Splice(table, i, i, WithRest(table[i].start, n, p, table[i].size - n))
  BY <1>2 DEF Alloc
<1>4. Tiles(table', 0, Size) /\ Owned(table', valid \cup {p})
  BY <1>1, <1>2, <1>3, CutKeeps
<1>5. valid' = valid \cup {p} /\ pc' # "defrag" /\ valid' \subseteq Pointers
  BY DEF Alloc, IInv
<1> QED
  BY <1>4, <1>5 DEF IInv, InLoop

\* free
LEMMA FreeInv ==
  ASSUME IInv, NEW p \in Pointers, FreeIt(p)
  PROVE  IInv'
<1>1. Tiles(table, 0, Size) /\ Owned(table, valid) /\ p \in valid
  BY DEF IInv, FreeIt
<1>2. Of(table, p) \in DOMAIN table /\ table[Of(table, p)].owner = p
  BY <1>1, OfIs
<1>3. table' = Freed(table, Of(table, p))
  BY DEF FreeIt
<1>4. Tiles(table', 0, Size) /\ Owned(table', valid \ {p})
  BY <1>1, <1>2, <1>3, FreedKeeps
<1>5. valid' = valid \ {p} /\ pc' # "defrag" /\ valid' \subseteq Pointers
  BY DEF FreeIt, IInv
<1> QED
  BY <1>4, <1>5 DEF IInv, InLoop

\* realloc to fewer bytes
LEMMA ShrinkInv ==
  ASSUME IInv, NEW p \in Pointers, NEW n \in 1 .. Size, Shrink(p, n)
  PROVE  IInv'
<1> USE AllocatorAssumption
<1> DEFINE i == Of(table, p)
<1>1. Tiles(table, 0, Size) /\ Owned(table, valid) /\ p \in valid /\ n \in Nat \ {0}
  BY DEF IInv, Shrink, Reallocs
<1>2. i \in DOMAIN table /\ table[i].owner = p
  BY <1>1, OfIs
<1>3. /\ n < table[i].size
      /\ table' = Splice(table, i, i, <<Area(table[i].start, n, p),
                                        Area(table[i].start + n, table[i].size - n, Free)>>)
  BY DEF Shrink, Held
<1> HIDE DEF i
<1>4. Tiles(table', 0, Size) /\ Owned(table', valid)
  BY <1>1, <1>2, <1>3, ShrinkKeeps
<1>5. valid' = valid /\ pc' # "defrag"
  BY DEF Shrink, Reallocs
<1> QED
  BY <1>4, <1>5 DEF IInv, InLoop

\* realloc with the free area behind
LEMMA GrowInPlaceInv ==
  ASSUME IInv, NEW p \in Pointers, NEW n \in 1 .. Size, GrowInPlace(p, n)
  PROVE  IInv'
<1> USE AllocatorAssumption
<1> DEFINE i == Of(table, p)
<1>1. Tiles(table, 0, Size) /\ Owned(table, valid) /\ p \in valid /\ n \in Nat
  BY DEF IInv, GrowInPlace, Reallocs
<1>2. i \in DOMAIN table
  BY <1>1, OfIs
<1>3. n > table[i].size /\ CanExtend(table, i, n) /\ table' = Extended(table, i, n)
  BY DEF GrowInPlace, Held
<1> HIDE DEF i
<1>4. Tiles(table', 0, Size) /\ Owned(table', valid)
  BY <1>1, <1>2, <1>3, ExtendKeeps
<1>5. valid' = valid /\ pc' # "defrag"
  BY DEF GrowInPlace, Reallocs
<1> QED
  BY <1>4, <1>5 DEF IInv, InLoop

\* realloc with the free area in front, and the one behind that if there is one
LEMMA GrowBackInv ==
  ASSUME IInv, NEW p \in Pointers, NEW n \in 1 .. Size, GrowBack(p, n)
  PROVE  IInv'
<1> USE AllocatorAssumption
<1> DEFINE i == Of(table, p)
           t == Swapped(table, i)
<1>1. Tiles(table, 0, Size) /\ Owned(table, valid) /\ p \in valid /\ n \in Nat
  BY DEF IInv, GrowBack, Reallocs
<1>2. /\ n > table[i].size /\ CanMove(table, i)
      /\ table' = IF CanExtend(t, i - 1, n) THEN Extended(t, i - 1, n) ELSE t
  BY DEF GrowBack, CanGrowBack, Held
<1>3. t = Swapped(table, i)
  OBVIOUS
<1> HIDE DEF i, t
<1>4. /\ Tiles(t, 0, Size) /\ Owned(t, valid) /\ t \in Seq(AreaRec)
      /\ Len(t) = Len(table) /\ t[i - 1].size = table[i].size
  BY <1>1, <1>2, <1>3, SwapKeeps
<1>5. i - 1 \in DOMAIN t
  <2>1. i \in 2 .. Len(table)
    BY <1>2 DEF CanMove
  <2> QED
    BY <2>1, <1>4
<1>6. ASSUME CanExtend(t, i - 1, n)
      PROVE  Tiles(table', 0, Size) /\ Owned(table', valid)
  <2> DEFINE j == i - 1
  <2>1. j \in DOMAIN t /\ n > t[j].size /\ CanExtend(t, j, n) /\ table' = Extended(t, j, n)
    BY <1>2, <1>4, <1>5, <1>6
  <2> HIDE DEF j
  <2>2. Tiles(table', 0, Size) /\ Owned(table', valid)
    BY <2>1, <1>1, <1>4, ExtendKeeps
  <2> QED
    BY <2>2
<1>7. Tiles(table', 0, Size) /\ Owned(table', valid)
  BY <1>2, <1>4, <1>6
<1>8. valid' = valid /\ pc' # "defrag"
  BY DEF GrowBack, Reallocs
<1> QED
  BY <1>7, <1>8 DEF IInv, InLoop

\* No two areas begin at the same address.
LEMMA StartsDiffer ==
  ASSUME NEW t, NEW a, NEW b, Tiles(t, a, b), NEW i \in DOMAIN t, NEW j \in DOMAIN t,
         t[i].start = t[j].start
  PROVE  i = j
<1>1. DOMAIN t = 1 .. Len(t) /\ Len(t) \in Nat
  BY DEF Tiles
<1>2. ASSUME NEW x \in DOMAIN t, NEW y \in DOMAIN t, x < y
      PROVE  t[x].start # t[y].start
  <2>1. x \in 1 .. Len(t) + 1 /\ y \in x + 1 .. Len(t) + 1
    BY <1>1, <1>2
  <2>2. Edge(t, b, x) \in Nat /\ Edge(t, b, x) < Edge(t, b, y) /\ Edge(t, b, y) \in Nat
    BY <2>1, InOrder
  <2> QED
    BY <2>2 DEF Edge
<1> QED
  BY <1>1, <1>2

\* t is table with n bytes cut out of the free area m for p, which has its old area at
\* k; u is that list with area k given up.
Regrown(t, p, n, m, k, u) ==
  /\ m \in 1 .. Len(table) /\ IsFree(table, m) /\ table[m].size >= n
  /\ t = Splice(table, m, m, WithRest(table[m].start, n, p, table[m].size - n))
  /\ k \in DOMAIN t /\ t[k] = table[Of(table, p)]
  /\ GivesUp(u, t, k) /\ k \in 1 .. Len(u) /\ IsFree(u, k)
  /\ Tiles(u, 0, Size) /\ Owned(u, valid)
  /\ table' = UniteFreeSpace(u, k)

\* p has its new area, cut out of a free one, before it gives the old one up: the list
\* is the same as if it had given the old one up first, but for the free areas around it.
LEMMA GrowElsewhereDoes ==
  ASSUME IInv, NEW p \in Pointers, NEW n \in 1 .. Size, GrowElsewhere(p, n)
  PROVE  \E m, k, u : Regrown(Allocated(table, p, n), p, n, m, k, u)
<1> USE AllocatorAssumption
<1> DEFINE o == Of(table, p)
           t == Allocated(table, p, n)
           i == CHOOSE j \in DOMAIN t : t[j].owner = p /\ t[j].start = table[o].start
           t0 == GiveUp(table, o)
<1>1. /\ Tiles(table, 0, Size) /\ Owned(table, valid) /\ p \in valid /\ n \in Nat \ {0}
      /\ table \in Seq(AreaRec) /\ DOMAIN table = 1 .. Len(table)
  BY DEF IInv, GrowElsewhere, Reallocs, Tiles
<1>2. o \in DOMAIN table /\ table[o].owner = p
  BY <1>1, OfIs
<1>3. Fitting(table, n) # {} /\ table' = Freed(t, i)
  BY DEF GrowElsewhere, Elsewhere
<1>4. t = Allocated(table, p, n) /\ t0 = GiveUp(table, o)
  OBVIOUS
<1> HIDE DEF o, t, t0
<1>5. PICK m \in 1 .. Len(table) :
        /\ IsFree(table, m) /\ table[m].size >= n
        /\ t = Splice(table, m, m, WithRest(table[m].start, n, p, table[m].size - n))
  BY <1>1, <1>3, <1>4, AllocCuts
<1> DEFINE s == WithRest(table[m].start, n, p, table[m].size - n)
           k == Shifted(o, m, s)
<1>6. o # m /\ m \in DOMAIN table
  BY <1>1, <1>2, <1>5 DEF IsFree
<1>7. s = WithRest(table[m].start, n, p, table[m].size - n) /\ t = Splice(table, m, m, s)
  BY <1>5
<1>8. table[m].start \in Nat /\ table[m].size - n \in Nat /\ p \in Owner
  BY <1>1, <1>5, AreaFields DEF Owner
<1> HIDE DEF s
<1>9. s \in Seq(AreaRec)
  BY <1>1, <1>7, <1>8, RestKeeps DEF IsRest
<1>10. k = Shifted(o, m, s)
  OBVIOUS
<1> HIDE DEF k
<1>11. /\ k \in DOMAIN t /\ t[k] = table[o]
       /\ GiveUp(t, k) = Splice(t0, m, m, s)
  <2>1. t = Splice(table, m, m, s) /\ table \in Seq(AreaRec)
    BY <1>1, <1>7
  <2>2. /\ k \in DOMAIN Splice(table, m, m, s) /\ Splice(table, m, m, s)[k] = table[o]
        /\ GiveUp(Splice(table, m, m, s), k) = Splice(GiveUp(table, o), m, m, s)
    BY <2>1, <1>2, <1>6, <1>9, <1>10, GivenUp
  <2> QED
    BY <2>1, <2>2, <1>4
<1>12. t0 \in Seq(AreaRec) /\ GivesUp(t0, table, o)
  BY <1>1, <1>2, <1>4, Loses
<1>13. /\ Tiles(t0, 0, Size) /\ Owned(t0, valid \ {p})
       /\ m \in 1 .. Len(t0) /\ t0[m] = table[m]
  <2>1. Tiles(t0, 0, Size)
    BY <1>1, <1>2, <1>4, LoseKeeps
  <2>2. Owned(t0, valid \ {p})
    BY <1>1, <1>2, <1>4, LoseKeeps
  <2>3. m \in 1 .. Len(t0) /\ t0[m] = table[m]
    BY <1>5, <1>6, <1>12 DEF GivesUp
  <2> QED
    BY <2>1, <2>2, <2>3
<1> DEFINE u == Splice(t0, m, m, s)
<1>14. Tiles(u, 0, Size) /\ Owned(u, (valid \ {p}) \cup {p})
  <2>1. u = Splice(t0, m, m, WithRest(t0[m].start, n, p, t0[m].size - n))
    BY <1>7, <1>13
  <2>2. IsFree(t0, m) /\ t0[m].size >= n /\ p \notin valid \ {p}
    BY <1>5, <1>13 DEF IsFree
  <2> HIDE DEF u
  <2> QED
    BY <2>1, <2>2, <1>1, <1>13, CutKeeps
<1>15. (valid \ {p}) \cup {p} = valid
  BY <1>1
<1>16. u = GiveUp(t, k)
  BY <1>11
<1> HIDE DEF u
<1>17. t \in Seq(AreaRec)
  <2>1. m \in m .. Len(table)
    BY <1>5
  <2> DEFINE d == Len(s) - (m - m + 1)
  <2>2. d = Len(s) - (m - m + 1)
    OBVIOUS
  <2> HIDE DEF d
  <2> QED
    BY <2>1, <2>2, <1>1, <1>7, <1>9, <1>5, Spliced
<1>18. u \in Seq(AreaRec) /\ GivesUp(u, t, k)
  BY <1>11, <1>16, <1>17, Loses
<1>19. /\ DOMAIN u = DOMAIN t /\ u[k] = Area(t[k].start, t[k].size, Free)
       /\ \A j \in DOMAIN t \ {k} : u[j] = t[j]
  BY <1>18 DEF GivesUp
<1>20. i = k
  <2>1. k \in DOMAIN t /\ t[k].owner = p /\ t[k].start = table[o].start
    BY <1>2, <1>11
  <2>2. ASSUME NEW j \in DOMAIN t, t[j].start = table[o].start
        PROVE  j = k
    <3>1. u[k].start = t[k].start
      BY <1>19 DEF Area
    <3>2. u[j].start = t[j].start
      BY <1>19, <3>1
    <3>3. u[j].start = u[k].start
      BY <2>1, <2>2, <3>1, <3>2
    <3> QED
      BY <3>3, <1>14, <1>19, <2>1, StartsDiffer
  <2> QED
    BY <2>1, <2>2
<1> HIDE DEF i
<1>21. table' = UniteFreeSpace(u, k)
  BY <1>3, <1>16, <1>20 DEF Freed, GiveUp
<1>22. k \in 1 .. Len(u) /\ IsFree(u, k)
  <2>1. DOMAIN u = 1 .. Len(u)
    BY <1>18
  <2>2. u[k].owner = Free
    BY <1>19 DEF Area
  <2> QED
    BY <2>1, <2>2, <1>11, <1>19 DEF IsFree
<1>23. Regrown(t, p, n, m, k, u)
  BY <1>5, <1>11, <1>14, <1>15, <1>18, <1>21, <1>22 DEF Regrown, o
<1> QED
  BY <1>23 DEF t

\* So it keeps the invariant.
LEMMA GrowElsewhereInv ==
  ASSUME IInv, NEW p \in Pointers, NEW n \in 1 .. Size, GrowElsewhere(p, n)
  PROVE  IInv'
<1>1. PICK m, k, u : Regrown(Allocated(table, p, n), p, n, m, k, u)
  BY GrowElsewhereDoes
<1>2. /\ k \in 1 .. Len(u) /\ IsFree(u, k)
      /\ Tiles(u, 0, Size) /\ Owned(u, valid)
      /\ table' = UniteFreeSpace(u, k)
  BY <1>1 DEF Regrown
<1>3. Tiles(table', 0, Size) /\ Owned(table', valid)
  BY <1>2, UniteKeeps
<1>4. valid' = valid /\ pc' # "defrag"
  BY DEF GrowElsewhere, Reallocs
<1> QED
  BY <1>3, <1>4 DEF IInv, InLoop

\* defrag: the free areas at the front are united before the loop,
LEMMA DefragBeginInv ==
  ASSUME IInv, DefragBegin
  PROVE  IInv'
<1>1. Tiles(table, 0, Size) /\ Owned(table, valid) /\ table \in Seq(AreaRec) /\ Len(table) \in Nat
  BY DEF IInv, Tiles
<1>2. table' = UniteFreeSpace(table, 1)
  BY DEF DefragBegin
<1>3. 1 \in 1 .. Len(table)
  <2>1. table # <<>>
    BY TilingIs DEF IInv, Tiling
  <2> QED
    BY <2>1, <1>1
<1>4. Tiles(table', 0, Size) /\ Owned(table', valid)
  <2>1. CASE IsFree(table, 1)
    BY <2>1, <1>1, <1>2, <1>3, UniteKeeps
  <2>2. CASE ~IsFree(table, 1)
    BY <2>2, <1>1, <1>2 DEF UniteFreeSpace
  <2> QED
    BY <2>1, <2>2
<1>5. valid' = valid /\ at' = 1 /\ valid' \subseteq Pointers
  BY DEF DefragBegin, IInv
<1>6. Len(table') \in Nat
  BY <1>4 DEF Tiles
<1>7. InLoop'
  BY <1>5, <1>6 DEF InLoop
<1> QED
  BY <1>4, <1>5, <1>7 DEF IInv

\* A turn of defrag's loop: the list that it leaves, what is free of it up to the
\* iterator, and that it does not grow.
LEMMA TurnDoes ==
  ASSUME IInv, DefragTurn
  PROVE  /\ Tiles(table', 0, Size) /\ Owned(table', valid)
         /\ Len(table') <= Len(table) /\ Len(table) \in Nat /\ Len(table') \in Nat
         /\ at \in 1 .. Len(table')
         /\ \A k \in 1 .. at : IsFree(table', k) => k = Len(table')
<1>1. /\ Tiles(table, 0, Size) /\ Owned(table, valid) /\ table \in Seq(AreaRec)
      /\ Len(table) \in Nat /\ DOMAIN table = 1 .. Len(table)
  BY DEF IInv, Tiles
<1>2. /\ at \in 1 .. Len(table)
      /\ \A k \in 1 .. at - 1 : ~IsFree(table, k)
  <2>1. /\ pc = "defrag" /\ at <= Len(table)
    BY DEF DefragTurn
  <2>2. /\ at \in 1 .. Len(table) + 1
        /\ \A k \in 1 .. at - 1 : IsFree(table, k) => k = Len(table)
    BY <2>1 DEF IInv, InLoop
  <2>3. at \in Nat /\ at \in 1 .. Len(table) /\ Len(table) \in Nat
    <3>1. at \in 1 .. Len(table) + 1 /\ Len(table) \in Nat
      BY <2>2, <1>1
    <3> QED
      BY <3>1, <2>1
  <2>4. ASSUME NEW k \in 1 .. at - 1
        PROVE  k # Len(table)
    BY <2>3
  <2> QED
    BY <2>2, <2>3, <2>4
<1>3. CASE ~IsFree(table, at)
  <2>1. table' = table
    BY <1>3 DEF DefragTurn
  <2>2. \A k \in 1 .. at : k \in 1 .. at - 1 \/ k = at
    BY <1>2
  <2>3. \A k \in 1 .. at : ~IsFree(table, k)
    BY <2>2, <1>2, <1>3
  <2>4. \A k \in 1 .. at : IsFree(table', k) => k = Len(table')
    BY <2>1, <2>3 DEF IsFree
  <2>5. Len(table') <= Len(table) /\ at \in 1 .. Len(table')
    BY <2>1, <1>1, <1>2
  <2> QED
    BY <2>1, <2>4, <2>5, <1>1
<1>4. CASE IsFree(table, at)
  <2> DEFINE t == UniteFreeSpace(table, at)
  <2>1. t = UniteFreeSpace(table, at)
    OBVIOUS
  <2> HIDE DEF t
  <2>2. Tiles(t, 0, Size) /\ Owned(t, valid) /\ t \in Seq(AreaRec)
    BY <2>1, <1>1, <1>2, <1>4, UniteKeeps
  <2>0. PICK l, h : United(t, table, at, l, h)
    <3>1. Tiles(table, 0, Size) /\ Owned(table, valid) /\ at \in 1 .. Len(table)
      BY <1>1, <1>2
    <3> QED
      BY <2>1, <3>1, <1>4, UniteKeeps
  <2>3. /\ FreeFrom(table, l, h) /\ at \in l .. h /\ Min(Run(table, at)) = l
        /\ Len(t) = Len(table) - (h - l) /\ l \in 1 .. Len(t)
        /\ \A k \in 1 .. l - 1 : t[k] = table[k]
        /\ IsFree(t, l)
        /\ \A k \in h + 1 .. Len(table) :
             k - (h - l) \in 1 .. Len(t) /\ t[k - (h - l)] = table[k]
    BY <2>0 DEF United
  <2>4. /\ l \in 1 .. Len(table) /\ h \in l .. Len(table)
        /\ \A k \in l .. h : IsFree(table, k)
        /\ h < Len(table) => ~IsFree(table, h + 1)
    BY <2>3 DEF FreeFrom
  <2>5. l = at
    <3>1. SUFFICES ASSUME l # at PROVE FALSE
      OBVIOUS
    <3>2. l \in 1 .. at - 1 /\ l \in l .. h
      BY <3>1, <2>3, <2>4, <1>1
    <3> QED
      BY <3>2, <2>4, <1>2
  <2> DEFINE next == at + 1
  <2>6. /\ CanMove(t, next) => table' = Swapped(t, next)
        /\ ~CanMove(t, next) => table' = t
    BY <2>1, <2>3, <2>5, <1>4 DEF DefragTurn
  <2>7. /\ Len(t) \in Nat /\ Len(t) <= Len(table) /\ at \in 1 .. Len(t)
        /\ at \in Nat /\ h \in Nat /\ at <= h /\ h <= Len(table)
        /\ Len(t) = Len(table) - (h - at)
    BY <2>3, <2>4, <2>5, <1>1
  <2>8. \A k \in 1 .. at - 1 : ~IsFree(t, k)
    BY <2>3, <2>5, <1>2 DEF IsFree
  <2>9. CASE CanMove(t, next)
    <3> HIDE DEF next
    <3>1. table' = Swapped(t, next)
      BY <2>6, <2>9
    <3>2. /\ Tiles(table', 0, Size) /\ Owned(table', valid) /\ Len(table') = Len(t)
          /\ table'[next - 1].owner = t[next].owner
          /\ \A k \in 1 .. next - 2 : table'[k] = t[k]
      BY <3>1, <2>2, <2>9, SwapKeeps
    <3>3. ~IsFree(t, next) /\ next - 1 = at /\ next - 2 = at - 1
      BY <2>7, <2>9 DEF CanMove, next
    <3>4. ASSUME NEW k \in 1 .. at
          PROVE  ~IsFree(table', k)
      <4>1. CASE k = at
        BY <4>1, <3>2, <3>3 DEF IsFree
      <4>2. CASE k # at
        <5>1. k \in 1 .. at - 1
          BY <4>2, <2>7
        <5> QED
          BY <5>1, <3>2, <3>3, <2>8 DEF IsFree
      <4> QED
        BY <4>1, <4>2
    <3> QED
      BY <3>2, <3>4, <2>7, <1>1
  <2>10. CASE ~CanMove(t, next)
    <3>1. table' = t
      BY <2>6, <2>10
    <3>2. h = Len(table)
      <4>1. SUFFICES ASSUME ~(h = Len(table)) PROVE FALSE
        OBVIOUS
      <4>2. h \in Nat /\ Len(table) \in Nat /\ h <= Len(table)
        BY <2>7, <1>1
      <4>3. h < Len(table)
        BY <4>1, <4>2
      <4>4. h + 1 \in h + 1 .. Len(table) /\ (h + 1) - (h - at) = next /\ at = next - 1
        BY <4>3, <2>7, <1>1
      <4>5. next \in 1 .. Len(t) /\ t[next] = table[h + 1]
        <5>1. (h + 1) - (h - at) \in 1 .. Len(t) /\ t[(h + 1) - (h - at)] = table[h + 1]
          BY <4>4, <2>3, <2>5
        <5> QED
          BY <5>1, <4>4
      <4>6. ~IsFree(t, next)
        BY <4>3, <4>5, <2>4 DEF IsFree
      <4>7. IsFree(t, next - 1) /\ next \in 2 .. Len(t)
        BY <4>4, <4>5, <2>3, <2>5, <2>7
      <4> QED
        BY <4>6, <4>7, <2>10 DEF CanMove
    <3>3. Len(t) = at
      BY <3>2, <2>7, <1>1
    <3>4. ASSUME NEW k \in 1 .. at, IsFree(t, k)
          PROVE  k = Len(t)
      <4>1. k \in 1 .. at - 1 \/ k = at
        BY <2>7
      <4> QED
        BY <4>1, <3>3, <3>4, <2>8
    <3> QED
      BY <3>1, <3>4, <2>2, <2>7, <1>1
  <2> QED
    BY <2>9, <2>10
<1> QED
  BY <1>3, <1>4

\* A turn of defrag keeps the order of the allocated areas.
LEMMA TurnOrder ==
  ASSUME IInv, DefragTurn
  PROVE  SameOrder(table, table', valid)
<1>1. /\ Tiles(table, 0, Size) /\ Owned(table, valid) /\ valid \subseteq Pointers
      /\ Len(table) \in Nat
  BY DEF IInv, Tiles
<1>2. at \in 1 .. Len(table)
  <2>1. at \in 1 .. Len(table) + 1 /\ at <= Len(table)
    BY DEF IInv, InLoop, DefragTurn
  <2> QED
    BY <2>1, <1>1
<1>3. CASE ~IsFree(table, at)
  BY <1>3 DEF DefragTurn, SameOrder
<1>4. CASE IsFree(table, at)
  <2> DEFINE t == UniteFreeSpace(table, at)
             next == Min(Run(table, at)) + 1
  <2>1. /\ CanMove(t, next) => table' = Swapped(t, next)
        /\ ~CanMove(t, next) => table' = t
    BY <1>4 DEF DefragTurn
  <2>2. t = UniteFreeSpace(table, at)
    OBVIOUS
  <2> HIDE DEF t, next
  <2>3. Tiles(t, 0, Size) /\ Owned(t, valid)
    BY <2>2, <1>1, <1>2, <1>4, UniteKeeps
  <2>4. SameOrder(table, t, valid)
    BY <2>2, <1>1, <1>2, <1>4, UniteOrder
  <2>5. CASE CanMove(t, next)
    <3>1. SameOrder(t, table', valid)
      BY <2>1, <2>3, <2>5, <1>1, SwapOrder
    <3> QED
      BY <3>1, <2>4 DEF SameOrder
  <2>6. CASE ~CanMove(t, next)
    BY <2>1, <2>4, <2>6
  <2> QED
    BY <2>5, <2>6
<1> QED
  BY <1>3, <1>4

\* each turn of the loop takes the iterator to the next area of the new list,
LEMMA DefragTurnInv ==
  ASSUME IInv, DefragTurn
  PROVE  IInv'
<1>1. /\ Tiles(table', 0, Size) /\ Owned(table', valid)
      /\ Len(table') \in Nat /\ at \in 1 .. Len(table')
      /\ \A k \in 1 .. at : IsFree(table', k) => k = Len(table')
  BY TurnDoes
<1>2. valid' = valid /\ at' = at + 1 /\ valid' \subseteq Pointers
  BY DEF DefragTurn, Advanced, IInv
<1>3. InLoop'
  <2>1. at' \in 1 .. Len(table') + 1 /\ at' - 1 = at
    BY <1>1, <1>2
  <2> QED
    BY <2>1, <1>1 DEF InLoop, IsFree
<1> QED
  BY <1>1, <1>2, <1>3 DEF IInv

\* and the end of the loop changes nothing.
LEMMA DefragEndInv ==
  ASSUME IInv, DefragEnd
  PROVE  IInv'
BY DEF DefragEnd, IInv, InLoop

\* Each step of the program keeps the invariant.
LEMMA NextInv == IInv /\ [Next]_vars => IInv'
<1> SUFFICES ASSUME IInv, [Next]_vars PROVE IInv'
  OBVIOUS
<1>1. ASSUME NEW p \in Pointers, NEW n \in 1 .. Size,
             \/ Alloc(p, n) \/ Shrink(p, n) \/ GrowInPlace(p, n)
             \/ GrowBack(p, n) \/ GrowElsewhere(p, n)
      PROVE  IInv'
  BY <1>1, AllocInv, ShrinkInv, GrowInPlaceInv, GrowBackInv, GrowElsewhereInv
<1>2. ASSUME NEW p \in Pointers, FreeIt(p)
      PROVE  IInv'
  BY <1>2, FreeInv
<1>3. CASE DefragBegin
  BY <1>3, DefragBeginInv
<1>4. CASE DefragTurn
  BY <1>4, DefragTurnInv
<1>5. CASE DefragEnd
  BY <1>5, DefragEndInv
<1>6. CASE UNCHANGED vars
  BY <1>6 DEF vars, IInv, InLoop, IsFree
<1> QED
  BY <1>1, <1>2, <1>3, <1>4, <1>5, <1>6 DEF Next, Defrag

-----------------------------------------------------------------------------
(* Copying bytes.                                                           *)

\* The least of two numbers, as CopiedDown takes it.
LEMMA Least2 ==
  ASSUME NEW x \in Nat, NEW y \in Nat
  PROVE  Min({x, y}) = IF x <= y THEN x ELSE y
<1> DEFINE z == IF x <= y THEN x ELSE y
<1>1. z \in {x, y} /\ \A k \in {x, y} : z <= k
  OBVIOUS
<1>2. ASSUME NEW v \in {x, y}, \A k \in {x, y} : v <= k
      PROVE  v = z
  BY <1>2
<1>3. Min({x, y}) \in {x, y} /\ \A k \in {x, y} : Min({x, y}) <= k
  BY <1>1 DEF Min
<1> QED
  BY <1>2, <1>3

\* The bytes of r are those of m, but that from dst on e bytes are those from src on.
Down(r, m, dst, src, e) ==
  /\ DOMAIN r = Bytes
  /\ \A x \in Bytes : r[x] = IF dst <= x /\ x < dst + e THEN m[src + (x - dst)] ELSE m[x]

\* A piece no longer than the way it goes does not overlap with itself, and what it
\* copies has not been overwritten by the pieces before it.
LEMMA PieceCopies ==
  ASSUME NEW m, NEW b, NEW dst \in Nat, NEW src \in Nat, NEW n \in Nat,
         dst < src, src + n <= Size,
         NEW o \in Nat, Down(b, m, dst, src, o),
         NEW l \in Nat, dst + l <= src, o + l <= n
  PROVE  Down(Memcpy(b, dst + o, src + o, l), m, dst, src, o + l)
<1> DEFINE g == src - dst
           r == Memcpy(b, dst + o, src + o, l)
<1>1. g \in Nat \ {0} /\ src = dst + g
  OBVIOUS
<1> HIDE DEF g
<1>2. l <= g
  BY <1>1
<1>3. ~(src + o < dst + o + l /\ dst + o < src + o + l)
  BY <1>1, <1>2
<1>4. Bytes = 0 .. Size - 1 /\ Size \in Nat
  BY AllocatorAssumption DEF Bytes
<1>5. r = [x \in Bytes |-> IF x \notin dst + o .. dst + o + l - 1 THEN b[x]
                           ELSE b[(src + o) + x - (dst + o)]]
  BY <1>3 DEF Memcpy
<1> HIDE DEF r
<1>6. ASSUME NEW x \in Bytes
      PROVE  r[x] = IF dst <= x /\ x < dst + (o + l) THEN m[src + (x - dst)] ELSE m[x]
  <2>1. x \in Nat
    BY <1>4
  <2>2. b[x] = IF dst <= x /\ x < dst + o THEN m[src + (x - dst)] ELSE m[x]
    BY DEF Down
  <2>3. CASE x \in dst + o .. dst + o + l - 1
    <3> DEFINE y == (src + o) + x - (dst + o)
    <3>1. y = src + (x - dst) /\ y \in Bytes /\ ~(y < dst + o)
      BY <2>1, <2>3, <1>1, <1>2, <1>4
    <3>2. r[x] = b[y]
      BY <2>3, <1>5
    <3> HIDE DEF y
    <3>3. b[y] = m[y]
      BY <3>1 DEF Down
    <3>4. dst <= x /\ x < dst + (o + l)
      BY <2>1, <2>3, <1>2
    <3> QED
      BY <3>1, <3>2, <3>3, <3>4
  <2>4. CASE x \notin dst + o .. dst + o + l - 1
    <3>1. r[x] = b[x]
      BY <2>4, <1>5
    <3>2. (dst <= x /\ x < dst + o) <=> (dst <= x /\ x < dst + (o + l))
      BY <2>1, <2>4, <1>2
    <3> QED
      BY <3>1, <3>2, <2>2
  <2> QED
    BY <2>3, <2>4
<1>7. DOMAIN r = Bytes
  BY <1>5
<1> QED
  BY <1>6, <1>7 DEF Down, r

\* There are as many pieces as are needed to copy n bytes.
LEMMA PieceCount ==
  ASSUME NEW n \in Nat \ {0}, NEW g \in Nat \ {0}, NEW K, K = (n + g - 1) \div g
  PROVE  /\ K \in Nat /\ n <= K * g
         /\ \A k \in 1 .. K : (k - 1) * g \in Nat /\ (k - 1) * g < n
<1> DEFINE a == n + g - 1
           r == a % g
<1>1. a \in Nat /\ a = n + g - 1
  OBVIOUS
<1> HIDE DEF a
<1>2. K = a \div g
  BY <1>1
<1>3. K \in Nat /\ r \in 0 .. g - 1 /\ a = K * g + r
  BY <1>1, <1>2
<1> HIDE DEF r
<1>4. K * g \in Nat /\ n <= K * g /\ K * g < n + g
  <2>1. K * g \in Nat
    BY <1>3
  <2> DEFINE q == K * g
  <2>2. q \in Nat /\ a = q + r
    BY <2>1, <1>3
  <2> HIDE DEF q
  <2>3. n <= q /\ q < n + g
    BY <2>2, <1>1, <1>3
  <2> QED
    BY <2>1, <2>3 DEF q
<1>5. ASSUME NEW k \in 1 .. K
      PROVE  (k - 1) * g \in Nat /\ (k - 1) * g < n
  <2>1. k * g <= K * g /\ (k - 1) * g = k * g - g /\ k * g \in Nat /\ (k - 1) * g \in Nat
    <3>1. k \in Nat /\ k <= K /\ k - 1 \in Nat
      BY <1>3
    <3> QED
      BY <3>1, <1>3
  <2> DEFINE q == K * g
             j == k * g
             i == (k - 1) * g
  <2>2. j <= q /\ i = j - g /\ q < n + g /\ j \in Nat /\ q \in Nat /\ i \in Nat
    BY <2>1, <1>4
  <2> HIDE DEF q, j, i
  <2>3. i \in Nat /\ i < n
    BY <2>2
  <2> QED
    BY <2>3 DEF i
<1> QED
  BY <1>3, <1>4, <1>5

\* The last member of a set of numbers up to K.
LEMMA MaxOf ==
  ASSUME NEW K \in Nat, NEW s \in SUBSET (1 .. K), s # {}
  PROVE  Max(s) \in s /\ \A y \in s : y <= Max(s)
<1> DEFINE Q == {K - k : k \in s}
<1>1. Q \in SUBSET Nat /\ Q # {}
  <2>1. \A k \in s : K - k \in Nat
    OBVIOUS
  <2> QED
    BY <2>1
<1>2. PICK x \in Q : \A y \in Q : x <= y
  BY <1>1, Least
<1>3. PICK h \in s : x = K - h
  BY <1>2
<1>4. ASSUME NEW k \in s
      PROVE  h >= k
  <2>1. x <= K - k
    BY <1>2
  <2> QED
    BY <2>1, <1>3
<1>5. Max(s) \in s /\ \A y \in s : Max(s) >= y
  BY <1>3, <1>4 DEF Max
<1> QED
  BY <1>5

\* The functions on the bytes of the arena with the values of m.
Like(m) == [Bytes -> {m[x] : x \in Bytes} \cup {Junk}]

\* Memcpy yields such a function.
LEMMA MemcpyLike ==
  ASSUME NEW m, NEW b \in Like(m), NEW dst \in Nat, NEW src \in Nat, NEW n \in Nat,
         \A x \in Bytes : dst <= x /\ x < dst + n => src + x - dst \in Bytes
  PROVE  Memcpy(b, dst, src, n) \in Like(m)
<1> DEFINE V == {m[x] : x \in Bytes} \cup {Junk}
<1>1. b \in [Bytes -> V] /\ Junk \in V
  BY DEF Like
<1> HIDE DEF V
<1>2. Bytes \subseteq Nat
  BY DEF Bytes
<1>3. ASSUME NEW x \in Bytes, x \in dst .. dst + n - 1
      PROVE  b[src + x - dst] \in V
  <2>1. dst <= x /\ x < dst + n
    BY <1>2, <1>3
  <2> QED
    BY <2>1, <1>1
<1>4. ASSUME NEW x \in Bytes
      PROVE  (IF x \notin dst .. dst + n - 1 THEN b[x]
              ELSE IF src < dst + n /\ dst < src + n THEN Junk
              ELSE b[src + x - dst]) \in V
  BY <1>1, <1>3
<1>5. Memcpy(b, dst, src, n) \in [Bytes -> V]
  BY <1>4 DEF Memcpy
<1> QED
  BY <1>5 DEF Like, V

\* moveToPreviousFree copies n bytes from src down to dst, over themselves if they are
\* more than the way, and touches no others.
LEMMA CopiedIs ==
  ASSUME NEW m, m \in Like(m), NEW dst \in Nat, NEW src \in Nat, NEW n \in Nat \ {0},
         dst < src, src + n <= Size
  PROVE  Down(CopiedDown(m, dst, src, n), m, dst, src, n)
<1> DEFINE g == src - dst
           K == (n + g - 1) \div g
           q == [k \in 1 .. K |-> (k - 1) * g]
           I == DOMAIN q
           M == Like(m)
           Folding(h) == h = [s \in SUBSET I |->
             IF s = {} THEN m
             ELSE Memcpy(h[s \ {Max(s)}], dst + q[Max(s)], src + q[Max(s)],
                         Min({g, n - q[Max(s)]}))]
<1>1. g \in Nat \ {0} /\ src = dst + g
  OBVIOUS
<1>2. CopiedDown(m, dst, src, n) = (CHOOSE h : Folding(h))[I]
  BY DEF CopiedDown, FoldLeft, MapThenFoldSet
<1>3. I = 1 .. K
  OBVIOUS
<1> HIDE DEF g
<1>4. /\ K \in Nat /\ n <= K * g
      /\ \A k \in 1 .. K : (k - 1) * g \in Nat /\ (k - 1) * g < n
  BY <1>1, PieceCount
<1>5. \A k \in 1 .. K : q[k] = (k - 1) * g /\ q[k] \in Nat /\ q[k] < n
  BY <1>4
<1>6. IsFiniteSet(I)
  BY <1>3, <1>4, FS_Interval
<1> HIDE DEF q, K
<1> DEFINE Copied(k, b) == Memcpy(b, dst + q[k], src + q[k], Min({g, n - q[k]}))
           f == [p \in I \X M |-> Copied(p[1], p[2])]
           c == [s \in SUBSET I |-> Max(s)]
<1>7. ASSUME NEW s \in SUBSET I, s # {}
      PROVE  c[s] = Max(s) /\ Max(s) \in s /\ \A y \in s : y <= Max(s)
  BY <1>3, <1>4, <1>7, MaxOf
<1>8. ASSUME NEW k \in I, NEW b \in M
      PROVE  Copied(k, b) \in M
  <2> DEFINE o == q[k]
             l == Min({g, n - o})
  <2>1. o \in Nat /\ o < n
    BY <1>3, <1>5
  <2> HIDE DEF o
  <2>2. l = IF g <= n - o THEN g ELSE n - o
    BY <2>1, <1>1, Least2
  <2> HIDE DEF l
  <2>3. l \in Nat /\ o + l <= n
    BY <2>1, <2>2, <1>1
  <2>4. \A x \in Bytes : dst + o <= x /\ x < dst + o + l => (src + o) + x - (dst + o) \in Bytes
    BY <2>1, <2>3, <1>1, AllocatorAssumption DEF Bytes
  <2>5. dst + o \in Nat /\ src + o \in Nat
    BY <2>1
  <2>6. Memcpy(b, dst + o, src + o, l) \in M
    BY <2>3, <2>4, <2>5, MemcpyLike
  <2> QED
    BY <2>6 DEF l, o
<1> HIDE DEF Copied
<1>9. f \in [I \X M -> M]
  BY <1>8
<1>10. \A k \in I, b \in M : f[<<k, b>>] = Copied(k, b)
  OBVIOUS
<1> HIDE DEF f, c, I, M
<1>11. PICK h \in [SUBSET I -> M] : FoldsOn(h, f, c, m, SUBSET I)
  <2>1. \A s \in (SUBSET I) \ {{}} : c[s] \in s
    BY <1>7
  <2>2. m \in M
    BY DEF M
  <2> QED
    BY <2>1, <2>2, <1>6, <1>9, FoldExists
<1>12. Folding(h)
  <2>1. ASSUME NEW s \in SUBSET I, s # {}
        PROVE  f[<<c[s], h[s \ {c[s]}]>>] = Copied(Max(s), h[s \ {Max(s)}])
    <3>1. c[s] = Max(s) /\ Max(s) \in I /\ s \ {Max(s)} \in SUBSET I
      BY <2>1, <1>7
    <3>2. h[s \ {Max(s)}] \in M
      BY <3>1
    <3> QED
      BY <3>1, <3>2, <1>10
  <2>2. h = [s \in SUBSET I |-> IF s = {} THEN m ELSE f[<<c[s], h[s \ {c[s]}]>>]]
    BY <1>11 DEF FoldsOn
  <2>3. h = [s \in SUBSET I |-> IF s = {} THEN m ELSE Copied(Max(s), h[s \ {Max(s)}])]
    BY <2>1, <2>2
  <2> QED
    BY <2>3 DEF Copied
<1> DEFINE d == CHOOSE e : Folding(e)
<1>13. d = [s \in SUBSET I |-> IF s = {} THEN m ELSE Copied(Max(s), d[s \ {Max(s)}])]
  <2>1. Folding(d)
    BY <1>12
  <2> HIDE DEF d
  <2> QED
    BY <2>1 DEF Copied
<1> HIDE DEF d, Folding
<1> DEFINE Done(k) == IF k * g <= n THEN k * g ELSE n
           Bad == {k \in 0 .. K : ~Down(d[1 .. k], m, dst, src, Done(k))}
<1>14. ASSUME Bad # {}
       PROVE  FALSE
  <2>1. PICK k \in Bad : \A j \in Bad : k <= j
    <3>1. Bad \in SUBSET Nat
      BY <1>4
    <3> QED
      BY <3>1, <1>14, Least
  <2>2. CASE k = 0
    <3>1. 1 .. k = {} /\ Done(k) = 0
      BY <2>2, <1>1
    <3>2. d[{}] = m
      BY <1>13
    <3>3. Down(m, m, dst, src, 0)
      BY DEF Down, Like, Bytes
    <3> QED
      BY <2>1, <3>1, <3>2, <3>3
  <2>3. CASE k # 0
    <3>1. k \in 1 .. K /\ k - 1 \in 0 .. K /\ k - 1 \in Nat /\ k \in Nat /\ k - 1 \notin Bad
      BY <2>1, <2>3, <1>4
    <3> DEFINE o == q[k]
               l == Min({g, n - o})
               b == d[1 .. k - 1]
    <3>2. o = (k - 1) * g /\ o \in Nat /\ o < n
      BY <3>1, <1>5
    <3>3. Done(k - 1) = o
      BY <3>2
    <3>4. Down(b, m, dst, src, o)
      BY <3>1, <3>3
    <3>5. d[1 .. k] = Memcpy(b, dst + o, src + o, l)
      <4> DEFINE u == 1 .. k
      <4>1. u \in SUBSET I /\ u # {}
        BY <3>1, <1>3, <1>4
      <4>2. Max(u) = k
        BY <3>1, MinMax
      <4>3. u \ {k} = 1 .. k - 1
        BY <3>1
      <4> HIDE DEF u
      <4>4. d[u] = Copied(k, d[u \ {k}])
        BY <4>1, <4>2, <1>13
      <4> QED
        BY <4>3, <4>4 DEF u, Copied
    <3> HIDE DEF o
    <3>6. l = IF g <= n - o THEN g ELSE n - o
      <4>1. g \in Nat /\ n - o \in Nat
        BY <3>2, <1>1
      <4> QED
        BY <4>1, Least2
    <3> HIDE DEF l, b
    <3>7. /\ l \in Nat /\ l <= g /\ o + l <= n
          /\ o + l = IF o + g <= n THEN o + g ELSE n
      BY <3>2, <3>6, <1>1
    <3>8. Down(Memcpy(b, dst + o, src + o, l), m, dst, src, o + l)
      <4>1. o \in Nat /\ n \in Nat /\ dst + l <= src
        BY <3>2, <3>7, <1>1
      <4> HIDE DEF Done, Bad
      <4> QED
        BY <4>1, <3>4, <3>7, PieceCopies
    <3>9. Done(k) = o + l
      <4>1. k * g = o + g
        <5>1. (k - 1) * g = k * g - g /\ k * g \in Nat
          BY <3>1, <1>1
        <5> QED
          BY <5>1, <3>2, <1>1
      <4> QED
        BY <4>1, <3>7
    <3> QED
      BY <2>1, <3>5, <3>8, <3>9
  <2> QED
    BY <2>2, <2>3
<1>15. Done(K) = n
  BY <1>1, <1>4
<1>16. Down(d[1 .. K], m, dst, src, n)
  <2>1. K \in 0 .. K /\ K \notin Bad
    BY <1>4, <1>14
  <2> QED
    BY <2>1, <1>15
<1> QED
  BY <1>2, <1>3, <1>16 DEF d

-----------------------------------------------------------------------------
(* Which areas a call leaves alone.                                         *)

\* a is an area of t.
In(a, t) == \E k \in DOMAIN t : t[k] = a

\* No two areas share a byte.
LEMMA Apart ==
  ASSUME NEW t, NEW a, NEW b, Tiles(t, a, b), NEW j \in DOMAIN t, NEW k \in DOMAIN t, j # k
  PROVE  t[j].start + t[j].size <= t[k].start \/ t[k].start + t[k].size <= t[j].start
<1>1. DOMAIN t = 1 .. Len(t) /\ Len(t) \in Nat
  BY DEF Tiles
<1>2. ASSUME NEW x \in DOMAIN t, NEW y \in DOMAIN t, x < y
      PROVE  t[x].start + t[x].size <= t[y].start
  <2>1. /\ Edge(t, b, x + 1) = t[x].start + t[x].size /\ Edge(t, b, y) = t[y].start
        /\ t[x].start + t[x].size \in Nat
    <3>1. x \in 1 .. Len(t) /\ y \in 1 .. Len(t)
      BY <1>1
    <3>2. /\ t[x].start \in Nat /\ t[x].size \in Nat \ {0}
          /\ Edge(t, b, x + 1) = t[x].start + t[x].size
      BY <3>1, EndOf
    <3>3. Edge(t, b, y) = t[y].start
      BY <3>1, EndOf
    <3> QED
      BY <3>2, <3>3
  <2>2. CASE x + 1 = y
    BY <2>1, <2>2
  <2>3. CASE x + 1 # y
    <3>1. x + 1 \in 1 .. Len(t) + 1 /\ y \in (x + 1) + 1 .. Len(t) + 1
      BY <1>1, <1>2, <2>3
    <3>2. /\ Edge(t, b, x + 1) \in Nat /\ Edge(t, b, y) \in Nat
          /\ Edge(t, b, x + 1) < Edge(t, b, y)
      BY <3>1, InOrder
    <3> QED
      BY <2>1, <3>2
  <2> QED
    BY <2>2, <2>3
<1>3. j < k \/ k < j
  BY <1>1
<1> QED
  BY <1>2, <1>3

\* Every area lies within the arena.
LEMMA InArena ==
  ASSUME NEW t, NEW a, NEW b, Tiles(t, a, b), NEW k \in DOMAIN t
  PROVE  /\ t[k] \in AreaRec /\ t[k].start \in Nat /\ t[k].size \in Nat \ {0}
         /\ t[k].start + t[k].size <= b
<1>1. t \in Seq(AreaRec) /\ DOMAIN t = 1 .. Len(t) /\ Len(t) \in Nat /\ b \in Nat
  BY DEF Tiles
<1>2. /\ t[k] \in AreaRec /\ t[k].start \in Nat /\ t[k].size \in Nat \ {0}
      /\ Edge(t, b, k + 1) = t[k].start + t[k].size
  BY <1>1, EndOf, AreaFields
<1>3. Edge(t, b, Len(t) + 1) = b
  BY <1>1 DEF Edge
<1>4. CASE k = Len(t)
  BY <1>1, <1>2, <1>3, <1>4
<1>5. CASE k # Len(t)
  <2>1. k + 1 \in 1 .. Len(t) + 1 /\ Len(t) + 1 \in (k + 1) + 1 .. Len(t) + 1
    BY <1>1, <1>5
  <2>2. Edge(t, b, k + 1) < Edge(t, b, Len(t) + 1)
    BY <2>1, InOrder
  <2> QED
    BY <2>2, <1>1, <1>2, <1>3
<1> QED
  BY <1>2, <1>4, <1>5

\* The areas outside of what is replaced stay in the list, those of s come into it.
Stays(r, t, i, j, s) ==
  /\ \A k \in DOMAIN t : k < i \/ j < k => In(t[k], r)
  /\ \A k \in DOMAIN s : In(s[k], r)

\* Splice
LEMMA SpliceStays ==
  ASSUME NEW t \in Seq(AreaRec), NEW s \in Seq(AreaRec),
         NEW i \in 1 .. Len(t), NEW j \in i .. Len(t), NEW r, r = Splice(t, i, j, s)
  PROVE  Stays(r, t, i, j, s)
<1> DEFINE d == Len(s) - (j - i + 1)
<1>1. d = Len(s) - (j - i + 1)
  OBVIOUS
<1>2. Len(t) \in Nat /\ Len(s) \in Nat /\ DOMAIN t = 1 .. Len(t) /\ DOMAIN s = 1 .. Len(s)
  OBVIOUS
<1> HIDE DEF d
<1>3. r \in Seq(AreaRec) /\ Replaced(r, t, i, j, s, d)
  BY <1>1, Spliced
<1>4. /\ DOMAIN r = 1 .. Len(t) + d
      /\ \A k \in 1 .. i - 1 : r[k] = t[k]
      /\ \A k \in 1 .. Len(s) : r[i - 1 + k] = s[k]
      /\ \A k \in j + 1 .. Len(t) : r[k + d] = t[k]
  BY <1>3 DEF Replaced
<1>5. ASSUME NEW k \in DOMAIN t, k < i \/ j < k
      PROVE  In(t[k], r)
  <2>1. CASE k < i
    <3>1. k \in 1 .. i - 1 /\ k \in 1 .. Len(t) + d
      BY <2>1, <1>1, <1>2
    <3> QED
      BY <3>1, <1>4 DEF In
  <2>2. CASE j < k
    <3>1. k \in j + 1 .. Len(t) /\ k + d \in 1 .. Len(t) + d
      BY <2>2, <1>1, <1>2
    <3> QED
      BY <3>1, <1>4 DEF In
  <2> QED
    BY <2>1, <2>2, <1>5
<1>6. ASSUME NEW k \in DOMAIN s
      PROVE  In(s[k], r)
  <2>1. k \in 1 .. Len(s) /\ i - 1 + k \in 1 .. Len(t) + d
    BY <1>1, <1>2
  <2> QED
    BY <2>1, <1>4 DEF In
<1> QED
  BY <1>5, <1>6 DEF Stays

\* UniteFreeSpace leaves what is not free.
LEMMA UniteStays ==
  ASSUME NEW t, NEW b, Tiles(t, 0, b), NEW V, Owned(t, V), NEW i \in 1 .. Len(t),
         NEW r, r = UniteFreeSpace(t, i),
         NEW k \in DOMAIN t, ~IsFree(t, k)
  PROVE  In(t[k], r)
<1>1. DOMAIN t = 1 .. Len(t) /\ Len(t) \in Nat
  BY DEF Tiles
<1>2. CASE ~IsFree(t, i)
  <2>1. r = t
    BY <1>2 DEF UniteFreeSpace
  <2> QED
    BY <2>1 DEF In
<1>3. CASE IsFree(t, i)
  <2>1. r \in Seq(AreaRec)
    BY <1>3, UniteKeeps
  <2>0. PICK l, h : United(r, t, i, l, h)
    BY <1>3, UniteKeeps
  <2>2. /\ FreeFrom(t, l, h)
        /\ Len(r) = Len(t) - (h - l) /\ l \in 1 .. Len(r)
        /\ \A y \in 1 .. l - 1 : r[y] = t[y]
        /\ \A y \in h + 1 .. Len(t) : y - (h - l) \in 1 .. Len(r) /\ r[y - (h - l)] = t[y]
    BY <2>0 DEF United
  <2>3. l \in 1 .. Len(t) /\ h \in l .. Len(t) /\ \A y \in l .. h : IsFree(t, y)
    BY <2>2 DEF FreeFrom
  <2>4. DOMAIN r = 1 .. Len(r) /\ Len(r) \in Nat
    BY <2>1
  <2>5. k \in 1 .. l - 1 \/ k \in h + 1 .. Len(t)
    BY <1>1, <2>3
  <2>6. CASE k \in 1 .. l - 1
    <3>1. k \in 1 .. Len(r)
      BY <2>2, <2>4, <2>6
    <3> QED
      BY <3>1, <2>2, <2>4, <2>6 DEF In
  <2>7. CASE k \in h + 1 .. Len(t)
    BY <2>2, <2>4, <2>7 DEF In
  <2> QED
    BY <2>5, <2>6, <2>7
<1> QED
  BY <1>2, <1>3

\* moveToPreviousFree leaves all but two areas, one of which it moves.
LEMMA SwapStays ==
  ASSUME NEW t, NEW b, Tiles(t, 0, b), NEW i, CanMove(t, i), NEW r, r = Swapped(t, i)
  PROVE  /\ \A k \in DOMAIN t : k # i /\ k # i - 1 => In(t[k], r)
         /\ In(Area(t[i - 1].start, t[i].size, t[i].owner), r)
         /\ i \in DOMAIN t /\ i - 1 \in DOMAIN t /\ ~IsFree(t, i)
         /\ t[i].start = t[i - 1].start + t[i - 1].size
<1>1. t \in Seq(AreaRec) /\ Len(t) \in Nat /\ DOMAIN t = 1 .. Len(t)
  BY DEF Tiles
<1>2. i \in 2 .. Len(t) /\ i - 1 \in 1 .. Len(t) /\ i \in 1 .. Len(t) /\ i \in i - 1 .. Len(t)
      /\ (i - 1) + 1 = i /\ ~IsFree(t, i)
  BY <1>1 DEF CanMove
<1> DEFINE j == i - 1
           A == Area(t[j].start, t[i].size, t[i].owner)
           B == Area(t[j].start + t[i].size, t[j].size, Free)
           s == <<A, B>>
<1>3. /\ t[j].start \in Nat /\ t[j].size \in Nat \ {0} /\ t[j].start + t[j].size = Edge(t, b, j + 1)
      /\ t[i].start = Edge(t, b, i) /\ t[i].size \in Nat \ {0} /\ t[i].owner \in Owner
  BY <1>2, EndOf
<1>4. A \in AreaRec /\ B \in AreaRec
  <2>1. t[j].start + t[i].size \in Nat
    BY <1>3
  <2> QED
    BY <2>1, <1>3, Areas DEF Owner
<1>5. r = Splice(t, j, i, s)
  BY DEF Swapped
<1> HIDE DEF A, B
<1>6. s \in Seq(AreaRec) /\ 1 \in DOMAIN s /\ s[1] = A
  BY <1>4
<1>7. j \in 1 .. Len(t) /\ i \in j .. Len(t) /\ j + 1 = i
  BY <1>2
<1> HIDE DEF s, j
<1>8. Stays(r, t, j, i, s)
  BY <1>1, <1>5, <1>6, <1>7, SpliceStays
<1>9. \A k \in DOMAIN t : k # i /\ k # j => k < j \/ i < k
  BY <1>1, <1>7
<1>10. (\A k \in DOMAIN t : k # i /\ k # j => In(t[k], r)) /\ In(A, r)
  BY <1>6, <1>8, <1>9 DEF Stays
<1>11. t[i].start = t[j].start + t[j].size
  BY <1>3, <1>7
<1> QED
  BY <1>1, <1>2, <1>10, <1>11 DEF A, j

\* extendToNextFree leaves all but the area that it extends and the free one behind.
LEMMA ExtendStays ==
  ASSUME NEW t, NEW b, Tiles(t, 0, b), NEW i \in DOMAIN t,
         NEW n \in Nat, n > t[i].size, CanExtend(t, i, n), NEW r, r = Extended(t, i, n)
  PROVE  /\ \A k \in DOMAIN t : k # i /\ ~IsFree(t, k) => In(t[k], r)
         /\ In(Area(t[i].start, n, t[i].owner), r)
<1>1. t \in Seq(AreaRec) /\ Len(t) \in Nat /\ DOMAIN t = 1 .. Len(t)
  BY DEF Tiles
<1> DEFINE j == i + 1
           more == n - t[i].size
           A == Area(t[i].start, n, t[i].owner)
           B == Area(t[j].start + more, t[j].size - more, Free)
           rest == IF t[j].size = more THEN <<>> ELSE <<B>>
           s == <<A>> \o rest
<1>2. i \in 1 .. Len(t) /\ j \in 1 .. Len(t) /\ j \in i .. Len(t)
      /\ IsFree(t, j) /\ t[j].size >= more
  BY <1>1 DEF CanExtend
<1>3. /\ t[i].start \in Nat /\ t[i].size \in Nat \ {0} /\ t[i].owner \in Owner
      /\ t[j].start \in Nat /\ t[j].size \in Nat \ {0}
  BY <1>2, EndOf
<1>4. A \in AreaRec /\ (t[j].size # more => B \in AreaRec)
  <2>1. n \in Nat \ {0} /\ more \in Nat /\ t[j].start + more \in Nat
    BY <1>3
  <2>2. t[j].size # more => t[j].size - more \in Nat \ {0}
    <3>1. t[j].size >= more /\ t[j].size \in Nat /\ more \in Nat
      BY <2>1, <1>2, <1>3
    <3> HIDE DEF more
    <3> QED
      BY <3>1
  <2> HIDE DEF more
  <2>3. A \in AreaRec
    BY <2>1, <1>3, Areas
  <2>4. t[j].size # more => B \in AreaRec
    BY <2>1, <2>2, Areas DEF Owner
  <2> QED
    BY <2>3, <2>4
<1>5. r = Splice(t, i, j, s)
  BY DEF Extended
<1> HIDE DEF A, B, more
<1>6. rest \in Seq(AreaRec)
  BY <1>4
<1> HIDE DEF rest
<1>7. s \in Seq(AreaRec) /\ 1 \in DOMAIN s /\ s[1] = A
  <2>1. <<A>> \in Seq(AreaRec) /\ Len(<<A>>) = 1 /\ <<A>>[1] = A /\ Len(rest) \in Nat
    BY <1>4, <1>6
  <2>2. s \in Seq(AreaRec) /\ Len(s) = Len(<<A>>) + Len(rest)
    BY <2>1, <1>6, Concatenated
  <2>3. \A k \in 1 .. Len(<<A>>) : s[k] = <<A>>[k]
    BY <2>1, <1>6, Concatenated
  <2> HIDE DEF s
  <2> QED
    BY <2>1, <2>2, <2>3
<1> HIDE DEF s
<1>8. Stays(r, t, i, j, s)
  BY <1>1, <1>2, <1>5, <1>7, SpliceStays
<1>9. \A k \in DOMAIN t : k # i /\ ~IsFree(t, k) => k < i \/ j < k
  BY <1>1, <1>2
<1> HIDE DEF j
<1>10. (\A k \in DOMAIN t : k # i /\ ~IsFree(t, k) => In(t[k], r)) /\ In(A, r)
  BY <1>7, <1>8, <1>9 DEF Stays
<1> QED
  BY <1>10 DEF A

-----------------------------------------------------------------------------
(* Whose bytes a call leaves alone.                                         *)

\* Area a of the bytes m has in r, with the bytes m1, an area of n bytes that has the
\* bytes of a as far as both go.
Bears(a, m, r, m1, n) ==
  \E b : /\ In(b, r) /\ b.owner = a.owner /\ b.size = n
         /\ \A d \in Nat : d < a.size /\ d < n => m1[b.start + d] = m[a.start + d]

\* An area that stays where it is bears the bytes that it has.
LEMMA StillBears ==
  ASSUME NEW r, NEW a, In(a, r), NEW m, NEW m1,
         \A d \in Nat : d < a.size => m1[a.start + d] = m[a.start + d]
  PROVE  Bears(a, m, r, m1, a.size)
BY DEF Bears

\* What the caller writes are bytes of p from byte "from" on, and no others that count.
LEMMA WrittenLeaves ==
  ASSUME NEW r, Tiles(r, 0, Size), NEW k \in DOMAIN r, ~IsFree(r, k),
         NEW m, NEW p, NEW from \in Nat,
         NEW d \in Nat, d < r[k].size, ~(r[k].owner = p /\ d >= from)
  PROVE  Written(m, r, p, from)[r[k].start + d] = m[r[k].start + d]
<1> USE AllocatorAssumption
<1> DEFINE x == r[k].start + d
           I == {i \in DOMAIN r : r[i].start <= x /\ x < r[i].start + r[i].size}
<1>1. /\ r[k].start \in Nat /\ r[k].size \in Nat \ {0} /\ r[k].start + r[k].size <= Size
  BY InArena
<1>2. x \in Nat /\ x < r[k].start + r[k].size /\ r[k].start <= x /\ x - r[k].start = d
  BY <1>1
<1>3. x \in Bytes
  <2>1. Size \in Nat /\ x < Size
    BY <1>1, <1>2
  <2> HIDE DEF x
  <2> QED
    BY <2>1, <1>2 DEF Bytes
<1> HIDE DEF x
<1>4. ASSUME NEW i \in I
      PROVE  i = k
  <2>1. SUFFICES ASSUME i # k PROVE FALSE
    OBVIOUS
  <2>2. r[i].start + r[i].size <= r[k].start \/ r[k].start + r[k].size <= r[i].start
    BY <2>1, Apart
  <2>3. r[i].start <= x /\ x < r[i].start + r[i].size /\ r[i].start \in Nat /\ r[i].size \in Nat
    BY InArena
  <2> QED
    BY <2>2, <2>3, <1>1, <1>2
<1>5. k \in I
  BY <1>2
<1>6. Written(m, r, p, from)[x] =
        IF \A i \in I : IsFree(r, i) THEN Junk
        ELSE IF \E i \in I : r[i].owner = p /\ x - r[i].start >= from
             THEN <<p, x - r[Of(r, p)].start>>
        ELSE m[x]
  BY <1>3 DEF Written
<1> HIDE DEF I
<1>7. ~(\A i \in I : IsFree(r, i))
  BY <1>5
<1>8. ~(\E i \in I : r[i].owner = p /\ x - r[i].start >= from)
  BY <1>2, <1>4
<1>9. Written(m, r, p, from)[x] = m[x]
  BY <1>6, <1>7, <1>8
<1> QED
  BY <1>9 DEF x

\* moveToPreviousFree: the areas that are not free bear their bytes, the one that it
\* moves at its new place.
LEMMA SwapBears ==
  ASSUME NEW t, Tiles(t, 0, Size), NEW i, CanMove(t, i), NEW m, m \in Like(m),
         NEW k \in DOMAIN t, ~IsFree(t, k)
  PROVE  Bears(t[k], m, Swapped(t, i), MovedBytes(m, t, i), t[k].size)
<1> USE AllocatorAssumption
<1> DEFINE r == Swapped(t, i)
           m1 == MovedBytes(m, t, i)
           j == i - 1
           c == Area(t[j].start, t[i].size, t[i].owner)
<1>1. /\ \A q \in DOMAIN t : q # i /\ q # j => In(t[q], r)
      /\ In(c, r)
      /\ i \in DOMAIN t /\ j \in DOMAIN t /\ ~IsFree(t, i) /\ IsFree(t, j)
      /\ t[i].start = t[j].start + t[j].size
  BY SwapStays DEF CanMove
<1>2. /\ t[i].start \in Nat /\ t[i].size \in Nat \ {0} /\ t[i].start + t[i].size <= Size
  BY <1>1, InArena
<1>3. t[j].start \in Nat /\ t[j].size \in Nat \ {0}
  BY <1>1, InArena
<1>4. c.start = t[j].start /\ c.size = t[i].size /\ c.owner = t[i].owner
  BY DEF Area
<1>5. m1 = CopiedDown(m, t[j].start, t[i].start, t[i].size)
  BY DEF MovedBytes
<1> HIDE DEF r, m1, c
<1> HIDE DEF j
<1> DEFINE src == t[i].start
           dst == t[j].start
           n == t[i].size
<1>6. src \in Nat /\ dst \in Nat /\ n \in Nat \ {0} /\ dst < src /\ src + n <= Size
  BY <1>1, <1>2, <1>3
<1>7. m1 = CopiedDown(m, dst, src, n) /\ c.start = dst /\ c.size = n
  BY <1>4, <1>5
<1>8. src = dst + t[j].size
  BY <1>1
<1> HIDE DEF src, dst, n
<1>9. Down(m1, m, dst, src, n)
  BY <1>6, <1>7, CopiedIs
<1>10. \A x \in Bytes : m1[x] = IF dst <= x /\ x < dst + n THEN m[src + (x - dst)] ELSE m[x]
  BY <1>9 DEF Down
<1>11. CASE k = i
  <2>1. ASSUME NEW d \in Nat, d < n
        PROVE  m1[dst + d] = m[src + d]
    <3>1. /\ dst + d \in Bytes /\ dst <= dst + d /\ dst + d < dst + n
          /\ src + ((dst + d) - dst) = src + d
      BY <2>1, <1>6 DEF Bytes
    <3> QED
      BY <3>1, <1>10
  <2>2. t[k].size = n /\ t[k].start = src /\ c.owner = t[k].owner
    BY <1>4, <1>11 DEF n, src
  <2> QED
    BY <2>1, <2>2, <1>1, <1>7 DEF Bears, r, m1
<1>12. CASE k # i
  <2>1. k # j
    BY <1>1
  <2>2. In(t[k], r)
    BY <2>1, <1>1, <1>12
  <2>3. /\ t[k].start \in Nat /\ t[k].size \in Nat \ {0} /\ t[k].start + t[k].size <= Size
    BY InArena
  <2>4. t[k].start + t[k].size <= src \/ src + n <= t[k].start
    BY <1>1, <1>12, Apart DEF src, n
  <2>5. t[k].start + t[k].size <= dst \/ dst + t[j].size <= t[k].start
    BY <2>1, <1>1, Apart DEF dst
  <2> DEFINE y == t[k].start
             z == t[k].size
  <2>6. y + z <= dst \/ dst + n <= y
    BY <2>3, <2>4, <2>5, <1>6, <1>8
  <2>7. ASSUME NEW d \in Nat, d < z
        PROVE  m1[y + d] = m[y + d]
    <3>1. y \in Nat /\ z \in Nat /\ y + z <= Size
      BY <2>3
    <3> HIDE DEF y, z
    <3>2. y + d \in Bytes /\ ~(dst <= y + d /\ y + d < dst + n)
      BY <3>1, <2>6, <2>7, <1>6 DEF Bytes
    <3> QED
      BY <3>2, <1>10
  <2> QED
    BY <2>2, <2>7, StillBears DEF r, m1
<1> QED
  BY <1>11, <1>12

-----------------------------------------------------------------------------
(* The rows of bytes that the pointers refer to.                            *)

RowOf(t, m, p) == [i \in 1 .. t[Of(t, p)].size |-> m[t[Of(t, p)].start + i - 1]]

\* A valid pointer refers to that row, now and after a step.
LEMMA RowIs ==
  ASSUME NEW q
  PROVE  /\ q \in valid => Row(q) = RowOf(table, mem, q)
         /\ q \in valid' => Row(q)' = RowOf(table', mem', q)
         /\ q \notin valid => Row(q) = <<>>
         /\ q \notin valid' => Row(q)' = <<>>
BY DEF Row, RowOf

\* The bytes of m2 are those of m1, but for what the caller may have written.
Leaves(m2, m1, r, p, from) == m2 = m1 \/ m2 = Written(m1, r, p, from)

\* The row of a pointer whose area is borne by another of n bytes is the same as far as
\* both go, unless the caller has written there.
LEMMA RowKept ==
  ASSUME IInv, IInv', NEW q \in valid, q \in valid', NEW m1, NEW n \in Nat,
         Bears(table[Of(table, q)], mem, table', m1, n),
         NEW p, NEW from \in Nat, Leaves(mem', m1, table', p, from),
         \/ q # p
         \/ \A d \in Nat : d < table[Of(table, q)].size /\ d < n => d < from
  PROVE  /\ HeapOf!Agree(Row(q), Row(q)')
         /\ table[Of(table, q)].size = n => Row(q)' = Row(q)
<1> USE AllocatorAssumption
<1> DEFINE r == table'
           V == valid'
           a == table[Of(table, q)]
           m2 == mem'
<1>1. Tiles(table, 0, Size) /\ Owned(table, valid) /\ valid \subseteq Pointers
  BY DEF IInv
<1>2. Tiles(r, 0, Size) /\ Owned(r, V) /\ V \subseteq Pointers /\ q \in V
  BY DEF IInv
<1>3. Row(q) = RowOf(table, mem, q) /\ Row(q)' = RowOf(r, m2, q)
  BY RowIs
<1> HIDE DEF r, V, m2
<1>4. /\ Of(table, q) \in 1 .. Len(table) /\ a.owner = q /\ DOMAIN table = 1 .. Len(table)
  <2>1. Of(table, q) \in 1 .. Len(table) /\ table[Of(table, q)].owner = q
    BY <1>1, OfOwner
  <2>2. DOMAIN table = 1 .. Len(table)
    BY <1>1 DEF Tiles
  <2> QED
    BY <2>1, <2>2
<1>5. a.start \in Nat /\ a.size \in Nat \ {0}
  BY <1>1, <1>4, InArena
<1>6. /\ RowOf(table, mem, q) = [i \in 1 .. a.size |-> mem[a.start + i - 1]]
  BY DEF RowOf
<1> HIDE DEF a
<1>7. PICK b : /\ In(b, r) /\ b.owner = q /\ b.size = n
               /\ \A d \in Nat : d < a.size /\ d < n => m1[b.start + d] = mem[a.start + d]
  BY <1>4 DEF Bears, a, r
<1>8. PICK k \in DOMAIN r : r[k] = b
  BY <1>7 DEF In
<1>9. Of(r, q) = k /\ ~IsFree(r, k)
  <2>1. DOMAIN r = 1 .. Len(r)
    BY <1>2 DEF Tiles
  <2>2. k = Of(r, q)
    BY <2>1, <1>2, <1>7, <1>8, OfOwner
  <2>3. q # Free
    BY <1>2
  <2> QED
    BY <2>2, <2>3, <1>7, <1>8 DEF IsFree
<1>10. RowOf(r, m2, q) = [i \in 1 .. n |-> m2[b.start + i - 1]]
  BY <1>7, <1>8, <1>9 DEF RowOf
<1>11. b.start \in Nat
  <2>1. r[k].start \in Nat
    BY <1>2, InArena
  <2> QED
    BY <2>1, <1>8
<1>12. ASSUME NEW d \in Nat, d < a.size, d < n
       PROVE  m2[b.start + d] = mem[a.start + d]
  <2>1. m1[b.start + d] = mem[a.start + d]
    BY <1>7, <1>12
  <2>2. CASE m2 = m1
    BY <2>1, <2>2
  <2>3. CASE m2 = Written(m1, r, p, from)
    <3>1. ~(r[k].owner = p /\ d >= from)
      <4>1. CASE q # p
        BY <4>1, <1>7, <1>8
      <4>2. CASE d < from
        <5>1. SUFFICES ASSUME d >= from PROVE FALSE
          OBVIOUS
        <5> QED
          BY <5>1, <4>2
      <4> QED
        BY <4>1, <4>2, <1>12 DEF a
    <3>2. d < r[k].size
      BY <1>7, <1>8, <1>12
    <3>3. m2[r[k].start + d] = m1[r[k].start + d]
      <4>1. Tiles(r, 0, Size) /\ k \in DOMAIN r /\ ~IsFree(r, k)
        BY <1>2, <1>9
      <4>2. Written(m1, r, p, from)[r[k].start + d] = m1[r[k].start + d]
        BY <3>1, <3>2, <4>1, WrittenLeaves
      <4> QED
        BY <2>3, <4>2
    <3> QED
      BY <2>1, <3>3, <1>8
  <2> QED
    BY <2>2, <2>3 DEF Leaves, r, m2
<1>13. ASSUME NEW i \in 1 .. a.size, i \in 1 .. n
       PROVE  m2[b.start + i - 1] = mem[a.start + i - 1]
  <2> DEFINE d == i - 1
  <2>1. d \in Nat /\ d < a.size /\ d < n /\ b.start + d = b.start + i - 1
        /\ a.start + d = a.start + i - 1
    BY <1>5, <1>11, <1>13
  <2> HIDE DEF d
  <2> QED
    BY <2>1, <1>12
<1> DEFINE x == RowOf(table, mem, q)
           y == RowOf(r, m2, q)
<1>14. x = [i \in 1 .. a.size |-> mem[a.start + i - 1]]
  BY <1>6
<1>15. y = [i \in 1 .. n |-> m2[b.start + i - 1]]
  BY <1>10
<1> HIDE DEF x, y
<1>16. HeapOf!Agree(x, y)
  BY <1>13, <1>14, <1>15 DEF HeapOf!Agree
<1>17. a.size = n => y = x
  BY <1>13, <1>14, <1>15
<1> QED
  BY <1>3, <1>16, <1>17 DEF x, y, a

-----------------------------------------------------------------------------
(* The rows together fit into the arena.                                    *)

\* What weighs nothing sums up to nothing.
LEMMA SumOfNone ==
  ASSUME NEW I, IsFiniteSet(I), NEW w \in [I -> Nat], NEW g, Sums(g, w, I),
         NEW s \in SUBSET I, \A x \in s : w[x] = 0
  PROVE  g[s] = 0
<1> DEFINE Bad == {n \in Nat : \E u \in SUBSET s : Cardinality(u) = n /\ g[u] # 0}
<1>1. ASSUME Bad # {}
      PROVE  FALSE
  <2>1. PICK n \in Bad : \A m \in Bad : n <= m
    BY <1>1, Least
  <2>2. PICK u \in SUBSET s : Cardinality(u) = n /\ g[u] # 0
    BY <2>1
  <2>3. u \in SUBSET I
    OBVIOUS
  <2>4. CASE u = {}
    BY <2>2, <2>3, <2>4 DEF Sums
  <2>5. CASE u # {}
    <3> DEFINE v == u \ {Pick(u)}
    <3>1. g[u] = w[Pick(u)] + g[v]
      BY <2>3, <2>5 DEF Sums
    <3>2. Pick(u) \in u /\ v \in SUBSET I /\ Cardinality(v) = n - 1 /\ n \in Nat
      BY <2>2, <2>3, <2>5, Picked
    <3>3. v \in SUBSET s /\ w[Pick(u)] = 0
      BY <3>2
    <3> HIDE DEF v
    <3>4. n - 1 \in Nat
      BY <3>2, FS_Subset, FS_CardinalityType
    <3>5. n - 1 \notin Bad
      BY <2>1, <3>4
    <3>6. g[v] = 0
      BY <3>2, <3>3, <3>4, <3>5
    <3> QED
      BY <2>2, <3>1, <3>3, <3>6
  <2> QED
    BY <2>4, <2>5
<1>2. IsFiniteSet(s) /\ Cardinality(s) \in Nat
  BY FS_Subset, FS_CardinalityType
<1> QED
  BY <1>1, <1>2

\* The pointers that own nothing from index k of the list on.
Before(t, V, k) == {q \in Pointers : q \in V => Of(t, q) < k}

\* The areas that the pointers in V own do not outgrow the arena.
LEMMA SumFits ==
  ASSUME NEW t, NEW b, Tiles(t, 0, b), NEW V, V \subseteq Pointers, Owned(t, V),
         NEW w \in [Pointers -> Nat],
         \A q \in Pointers : w[q] = IF q \in V THEN t[Of(t, q)].size ELSE 0,
         NEW g, Sums(g, w, Pointers)
  PROVE  g[Pointers] <= b
<1> USE FiniteAssumption
<1>1. DOMAIN t = 1 .. Len(t) /\ Len(t) \in Nat /\ b \in Nat
  BY DEF Tiles
<1>2. \A q \in V : /\ Of(t, q) \in 1 .. Len(t) /\ t[Of(t, q)].owner = q
                   /\ \A i \in 1 .. Len(t) : t[i].owner = q => i = Of(t, q)
  BY OfOwner
<1>3. g \in [SUBSET Pointers -> Nat]
  BY SumsType
<1> DEFINE Bad == {k \in 1 .. Len(t) + 1 : ~(g[Before(t, V, k)] <= Edge(t, b, k))}
<1>4. ASSUME Bad # {}
      PROVE  FALSE
  <2>1. PICK k \in Bad : \A j \in Bad : k <= j
    <3>1. Bad \in SUBSET Nat
      BY <1>1
    <3> QED
      BY <3>1, <1>4, Least
  <2>2. k \in Nat /\ k \in 1 .. Len(t) + 1
    BY <1>1
  <2>3. CASE k = 1
    <3>1. \A q \in Before(t, V, 1) : w[q] = 0
      BY <1>2 DEF Before
    <3>2. Before(t, V, 1) \in SUBSET Pointers
      BY DEF Before
    <3>3. g[Before(t, V, 1)] = 0
      BY <3>1, <3>2, SumOfNone
    <3>4. Edge(t, b, 1) = 0
      BY DEF Tiles
    <3> QED
      BY <2>1, <2>3, <3>3, <3>4
  <2>4. CASE k # 1
    <3> DEFINE j == k - 1
               A == Before(t, V, j)
               B == Before(t, V, k)
    <3>1. j \in 1 .. Len(t) /\ j \in 1 .. Len(t) + 1 /\ j + 1 = k /\ ~(k <= j) /\ j \in Nat
      BY <2>2, <2>4, <1>1
    <3>2. A \in SUBSET Pointers /\ B \in SUBSET Pointers
      BY DEF Before
    <3>3. j \notin Bad
      BY <2>1, <3>1
    <3>4. g[A] <= Edge(t, b, j)
      BY <3>1, <3>3
    <3>5. /\ Edge(t, b, j) = t[j].start /\ Edge(t, b, k) = t[j].start + t[j].size
          /\ t[j].start \in Nat /\ t[j].size \in Nat /\ t[j].owner \in Owner
      <4>1. /\ Edge(t, b, j) = t[j].start /\ Edge(t, b, j + 1) = t[j].start + t[j].size
            /\ t[j].start \in Nat /\ t[j].size \in Nat \ {0} /\ t[j].owner \in Owner
        BY <3>1, EndOf
      <4> QED
        BY <4>1, <3>1
    <3>6. g[A] \in Nat /\ g[B] \in Nat
      BY <3>2, <1>3
    <3>7. ASSUME NEW q \in V, Of(t, q) < k
          PROVE  Of(t, q) < j \/ Of(t, q) = j
      BY <3>1, <3>7, <1>2
    <3>8. ASSUME NEW q \in V, Of(t, q) < j
          PROVE  Of(t, q) < k
      BY <3>1, <3>8, <1>2
    <3> HIDE DEF j
    <3>9. CASE t[j].owner \in V
      <4> DEFINE p == t[j].owner
      <4>1. Of(t, p) = j /\ p \in Pointers
        BY <3>1, <3>9, <1>2
      <4>2. p \in B
        BY <4>1, <3>1, <2>2 DEF Before
      <4>3. \A q \in V : q # p => Of(t, q) # j
        BY <1>2
      <4>4. ~(Of(t, p) < j)
        BY <4>1, <3>1
      <4>5. B \ {p} = A
        BY <3>7, <3>8, <3>9, <4>3, <4>4 DEF Before
      <4>6. g[B] = w[p] + g[B \ {p}]
        <5> HIDE DEF p, B
        <5> QED
          BY <3>2, <4>2, SumTakes
      <4>7. w[p] = t[j].size
        BY <3>9, <4>1
      <4> HIDE DEF p, A, B
      <4>8. g[B] <= Edge(t, b, k)
        <5> DEFINE x == g[A]
                   y == t[j].start
                   z == t[j].size
        <5>1. g[B] = z + x /\ x <= y /\ x \in Nat /\ y \in Nat /\ z \in Nat
          BY <3>4, <3>5, <3>6, <4>5, <4>6, <4>7
        <5>2. Edge(t, b, k) = y + z
          BY <3>5
        <5> HIDE DEF x, y, z
        <5>3. g[B] <= y + z
          BY <5>1
        <5> QED
          BY <5>2, <5>3
      <4> QED
        BY <2>1, <4>8 DEF B
    <3>10. CASE t[j].owner \notin V
      <4>1. \A q \in V : Of(t, q) # j
        BY <3>10, <1>2
      <4>2. A = B
        BY <3>7, <3>8, <4>1 DEF Before
      <4> HIDE DEF A, B
      <4>3. g[B] <= Edge(t, b, k)
        BY <3>4, <3>5, <3>6, <4>2
      <4> QED
        BY <2>1, <4>3 DEF B
    <3> QED
      BY <3>9, <3>10
  <2> QED
    BY <2>3, <2>4
<1>5. Before(t, V, Len(t) + 1) = Pointers
  <2>1. \A q \in V : Of(t, q) < Len(t) + 1
    BY <1>1, <1>2
  <2> QED
    BY <2>1 DEF Before
<1>6. Edge(t, b, Len(t) + 1) = b
  BY <1>1 DEF Edge
<1>7. Len(t) + 1 \in 1 .. Len(t) + 1
  BY <1>1
<1> QED
  BY <1>4, <1>5, <1>6, <1>7

\* The bytes of all rows.
RoomOf(h) == HeapOf!MapThenSumSet(LAMBDA q : Len(h[q]), Pointers)

\* They do not, either.
LEMMA RowsFit ==
  ASSUME NEW t, NEW b, Tiles(t, 0, b), NEW V, V \subseteq Pointers, Owned(t, V),
         NEW m, NEW h,
         \A q \in Pointers : h[q] = IF q \in V THEN RowOf(t, m, q) ELSE <<>>
  PROVE  RoomOf(h) <= b
<1> USE FiniteAssumption
<1> DEFINE w == [q \in Pointers |-> Len(h[q])]
           I == Pointers
           Summing(g) == g = [s \in SUBSET I |->
             IF s = {} THEN 0 ELSE Len(h[Pick(s)]) + g[s \ {Pick(s)}]]
           g == CHOOSE g : Summing(g)
<1>1. ASSUME NEW q \in Pointers
      PROVE  w[q] \in Nat /\ w[q] = IF q \in V THEN t[Of(t, q)].size ELSE 0
  <2>1. CASE q \in V
    <3>1. Of(t, q) \in 1 .. Len(t) /\ DOMAIN t = 1 .. Len(t)
      BY <2>1, OfOwner DEF Tiles
    <3>2. t[Of(t, q)].size \in Nat
      BY <3>1, InArena
    <3> DEFINE z == t[Of(t, q)].size
               x == t[Of(t, q)].start
    <3>3. h[q] = [i \in 1 .. z |-> m[x + i - 1]]
      BY <2>1 DEF RowOf
    <3>4. z \in Nat
      BY <3>2
    <3> HIDE DEF z, x
    <3>5. Len(h[q]) = z
      BY <3>3, <3>4
    <3> QED
      BY <2>1, <3>4, <3>5 DEF z
  <2>2. CASE q \notin V
    BY <2>2
  <2> QED
    BY <2>1, <2>2
<1>2. w \in [I -> Nat]
  BY <1>1
<1>3. RoomOf(h) = g[I]
  BY DEF RoomOf, HeapOf!MapThenSumSet, HeapOf!MapThenFoldSet, Pick
<1>4. ASSUME NEW f
      PROVE  Summing(f) <=> Sums(f, w, I)
  <2>1. ASSUME NEW s \in SUBSET I, s # {}
        PROVE  Len(h[Pick(s)]) = w[Pick(s)]
    <3>1. Pick(s) \in I
      BY <2>1 DEF Pick
    <3> QED
      BY <3>1
  <2> QED
    BY <2>1 DEF Sums
<1> HIDE DEF w
<1>5. \E f : Sums(f, w, I)
  BY <1>2, SumsExist
<1>6. Sums(g, w, I)
  BY <1>4, <1>5
<1> HIDE DEF g, I
<1>7. g[Pointers] <= b
  BY <1>1, <1>2, <1>6, SumFits DEF I
<1> QED
  BY <1>3, <1>7 DEF I

-----------------------------------------------------------------------------
(* Every step is one of those that the heap promises.                       *)

\* A call on p that leaves the bytes of the others, and of its own those that fit.
LEMMA ResizeIs ==
  ASSUME IInv, IInv', NEW p \in Pointers, valid' \ {p} = valid \ {p},
         NEW m1, NEW from \in Nat, Leaves(mem', m1, table', p, from),
         \A k \in DOMAIN table :
           ~IsFree(table, k) /\ table[k].owner # p =>
             Bears(table[k], mem, table', m1, table[k].size),
         p \in valid /\ p \in valid' =>
           \E n \in Nat : /\ Bears(table[Of(table, p)], mem, table', m1, n)
                          /\ \A d \in Nat : d < table[Of(table, p)].size /\ d < n => d < from
  PROVE  HeapOf!Resize(p)
<1> DEFINE rows == Rows'
<1>1. Tiles(table, 0, Size) /\ Owned(table, valid) /\ valid \subseteq Pointers
  BY DEF IInv
<1>2. Tiles(table', 0, Size) /\ Owned(table', valid') /\ valid' \subseteq Pointers
  BY DEF IInv
<1>3. rows = [q \in Pointers |-> Row(q)']
  BY DEF Rows
<1>4. ASSUME NEW q \in Pointers, q # p
      PROVE  Row(q)' = Row(q)
  <2>1. CASE q \in valid
    <3>1. q \in valid'
      BY <1>4, <2>1
    <3>2. /\ Of(table, q) \in 1 .. Len(table) /\ table[Of(table, q)].owner = q
          /\ ~IsFree(table, Of(table, q)) /\ DOMAIN table = 1 .. Len(table)
      <4>1. DOMAIN table = 1 .. Len(table)
        BY <1>1 DEF Tiles
      <4> QED
        BY <4>1, <2>1, <1>1, OfOwner
    <3>3. Bears(table[Of(table, q)], mem, table', m1, table[Of(table, q)].size)
      BY <3>2, <1>4
    <3>4. table[Of(table, q)].size \in Nat
      BY <3>2, <1>1, InArena
    <3> QED
      BY <2>1, <3>1, <3>3, <3>4, <1>4, RowKept
  <2>2. CASE q \notin valid
    <3>1. q \notin valid'
      BY <1>4, <2>2
    <3> QED
      BY <2>2, <3>1, RowIs
  <2> QED
    BY <2>1, <2>2
<1>5. HeapOf!Agree(Row(p), Row(p)')
  <2>1. CASE p \in valid /\ p \in valid'
    <3>1. PICK n \in Nat :
            /\ Bears(table[Of(table, p)], mem, table', m1, n)
            /\ \A d \in Nat : d < table[Of(table, p)].size /\ d < n => d < from
      BY <2>1
    <3> QED
      BY <2>1, <3>1, RowKept
  <2>2. CASE p \notin valid
    <3>1. Row(p) = <<>>
      BY <2>2, RowIs
    <3> QED
      BY <3>1 DEF HeapOf!Agree
  <2>3. CASE p \notin valid'
    <3>1. Row(p)' = <<>>
      BY <2>3, RowIs
    <3> QED
      BY <3>1 DEF HeapOf!Agree
  <2> QED
    BY <2>1, <2>2, <2>3
<1>6. \A q \in Pointers : Rows[q] = Row(q) /\ rows[q] = Row(q)'
  BY <1>3 DEF Rows
<1>7. \A q \in Pointers : rows[q] = IF q \in valid' THEN RowOf(table', mem', q) ELSE <<>>
  BY <1>6, RowIs
<1> HIDE DEF rows
<1>8. RoomOf(rows) <= Size
  BY <1>2, <1>7, RowsFit
<1>9. /\ \A q \in Pointers \ {p} : rows[q] = Rows[q]
      /\ HeapOf!Agree(Rows[p], rows[p])
  BY <1>4, <1>5, <1>6
<1> QED
  BY <1>8, <1>9 DEF RoomOf, HeapOf!Resize, rows

\* alloc
LEMMA AllocHeap ==
  ASSUME IInv, NEW p \in Pointers, NEW n \in 1 .. Size, Alloc(p, n)
  PROVE  HeapOf!Resize(p)
<1> USE AllocatorAssumption
<1>1. /\ Tiles(table, 0, Size) /\ table \in Seq(AreaRec) /\ DOMAIN table = 1 .. Len(table)
      /\ n \in Nat \ {0} /\ p \notin valid /\ Fitting(table, n) # {}
  BY DEF IInv, Alloc, Tiles
<1>2. PICK i \in 1 .. Len(table) :
        /\ IsFree(table, i) /\ table[i].size >= n
        /\ Allocated(table, p, n) =
             Splice(table, i, i, WithRest(table[i].start, n, p, table[i].size - n))
  BY <1>1, AllocCuts
<1> DEFINE s == WithRest(table[i].start, n, p, table[i].size - n)
<1>3. table' = Splice(table, i, i, s)
  BY <1>2 DEF Alloc
<1>4. s \in Seq(AreaRec)
  <2>1. table[i].start \in Nat /\ table[i].size - n \in Nat /\ p \in Owner
    BY <1>1, <1>2, AreaFields DEF Owner
  <2>2. s = WithRest(table[i].start, n, p, table[i].size - n)
    OBVIOUS
  <2> HIDE DEF s
  <2> QED
    BY <2>1, <2>2, <1>1, RestKeeps DEF IsRest
<1> HIDE DEF s
<1>5. ASSUME NEW k \in DOMAIN table, ~IsFree(table, k)
      PROVE  Bears(table[k], mem, table', mem, table[k].size)
  <2>1. k < i \/ i < k
    <3>1. k # i
      BY <1>2, <1>5
    <3> QED
      BY <3>1, <1>1
  <2>2. Stays(table', table, i, i, s)
    <3>1. i \in i .. Len(table)
      BY <1>1
    <3> QED
      BY <3>1, <1>1, <1>3, <1>4, SpliceStays
  <2>3. In(table[k], table')
    BY <2>1, <2>2 DEF Stays
  <2> QED
    BY <2>3, StillBears
<1>6. /\ valid' \ {p} = valid \ {p}
      /\ Leaves(mem', mem, table', p, 0)
  BY DEF Alloc, Leaves
<1>7. IInv'
  BY AllocInv
<1> QED
  BY <1>1, <1>5, <1>6, <1>7, ResizeIs

\* free
LEMMA FreeHeap ==
  ASSUME IInv, NEW p \in Pointers, FreeIt(p)
  PROVE  HeapOf!Resize(p)
<1> DEFINE i == Of(table, p)
           u == GiveUp(table, i)
<1>1. /\ Tiles(table, 0, Size) /\ Owned(table, valid) /\ p \in valid
      /\ table \in Seq(AreaRec) /\ DOMAIN table = 1 .. Len(table)
  BY DEF IInv, FreeIt, Tiles
<1>2. i \in DOMAIN table /\ table[i].owner = p
  BY <1>1, OfIs
<1>3. table' = UniteFreeSpace(u, i) /\ u = GiveUp(table, i)
  BY DEF FreeIt, Freed, GiveUp
<1> HIDE DEF i, u
<1>4. Tiles(u, 0, Size) /\ Owned(u, valid \ {p})
  <2>1. Tiles(u, 0, Size)
    BY <1>1, <1>2, <1>3, LoseKeeps
  <2>2. Owned(u, valid \ {p})
    BY <1>1, <1>2, <1>3, LoseKeeps
  <2> QED
    BY <2>1, <2>2
<1>5. /\ DOMAIN u = DOMAIN table /\ Len(u) = Len(table)
      /\ \A k \in DOMAIN table \ {i} : u[k] = table[k]
  <2>1. GivesUp(u, table, i)
    BY <1>1, <1>2, <1>3, Loses
  <2> QED
    BY <2>1 DEF GivesUp
<1>6. ASSUME NEW k \in DOMAIN table, ~IsFree(table, k), table[k].owner # p
      PROVE  Bears(table[k], mem, table', mem, table[k].size)
  <2>1. k \in DOMAIN u /\ u[k] = table[k]
    BY <1>2, <1>5, <1>6
  <2>2. ~IsFree(u, k)
    BY <2>1, <1>6 DEF IsFree
  <2>3. i \in 1 .. Len(u)
    BY <1>1, <1>2, <1>5
  <2>4. In(u[k], table')
    BY <2>1, <2>2, <2>3, <1>3, <1>4, UniteStays
  <2> QED
    BY <2>1, <2>4, StillBears
<1>7. /\ valid' \ {p} = valid \ {p} /\ p \notin valid'
      /\ Leaves(mem', mem, table', p, 0)
  BY DEF FreeIt, Leaves
<1>8. IInv'
  BY FreeInv
<1> QED
  BY <1>6, <1>7, <1>8, ResizeIs

\* realloc to fewer bytes
LEMMA ShrinkHeap ==
  ASSUME IInv, NEW p \in Pointers, NEW n \in 1 .. Size, Shrink(p, n)
  PROVE  HeapOf!Resize(p)
<1> USE AllocatorAssumption
<1> DEFINE i == Of(table, p)
           A == Area(table[i].start, n, p)
           B == Area(table[i].start + n, table[i].size - n, Free)
           s == <<A, B>>
<1>1. /\ Tiles(table, 0, Size) /\ p \in valid /\ n \in Nat \ {0}
      /\ table \in Seq(AreaRec) /\ DOMAIN table = 1 .. Len(table)
  BY DEF IInv, Shrink, Reallocs, Tiles
<1>2. i \in DOMAIN table /\ table[i].owner = p /\ i \in 1 .. Len(table) /\ i \in i .. Len(table)
  BY <1>1, OfIs
<1>3. n < table[i].size /\ table' = Splice(table, i, i, s)
  BY DEF Shrink, Held
<1>4. A \in AreaRec /\ B \in AreaRec /\ A.start = table[i].start /\ A.size = n /\ A.owner = p
  <2>1. table[i].start \in Nat /\ table[i].size \in Nat \ {0}
    BY <1>1, <1>2, AreaFields
  <2>2. table[i].start + n \in Nat /\ table[i].size - n \in Nat \ {0}
    <3>1. n \in Nat \ {0} /\ n < table[i].size
      BY <1>1, <1>3
    <3> QED
      BY <2>1, <3>1
  <2>3. p \in Owner /\ Free \in Owner
    BY DEF Owner
  <2>4. A \in AreaRec /\ A.start = table[i].start /\ A.size = n /\ A.owner = p
    BY <2>1, <2>3, <1>1, Areas
  <2>5. B \in AreaRec
    BY <2>2, <2>3, Areas
  <2> QED
    BY <2>4, <2>5
<1>5. i = Of(table, p)
  OBVIOUS
<1> HIDE DEF i, A, B
<1>6. s \in Seq(AreaRec) /\ 1 \in DOMAIN s /\ s[1] = A
  BY <1>4
<1> HIDE DEF s
<1>7. Stays(table', table, i, i, s)
  BY <1>1, <1>2, <1>3, <1>6, SpliceStays
<1>8. ASSUME NEW k \in DOMAIN table, table[k].owner # p
      PROVE  Bears(table[k], mem, table', mem, table[k].size)
  <2>1. k < i \/ i < k
    <3>1. k # i
      BY <1>2, <1>8
    <3> QED
      BY <3>1, <1>1, <1>2
  <2>2. In(table[k], table')
    BY <2>1, <1>7 DEF Stays
  <2> QED
    BY <2>2, StillBears
<1>9. Bears(table[i], mem, table', mem, n)
  <2>1. In(A, table')
    BY <1>6, <1>7 DEF Stays
  <2> QED
    BY <2>1, <1>2, <1>4 DEF Bears
<1>10. /\ valid' = valid
       /\ Leaves(mem', mem, table', p, n)
  BY DEF Shrink, Leaves
<1>11. IInv'
  BY ShrinkInv
<1>12. n \in Nat /\ valid' \ {p} = valid \ {p}
  BY <1>1, <1>10
<1> QED
  BY <1>5, <1>8, <1>9, <1>10, <1>11, <1>12, ResizeIs

\* realloc with the free area behind
LEMMA GrowInPlaceHeap ==
  ASSUME IInv, NEW p \in Pointers, NEW n \in 1 .. Size, GrowInPlace(p, n)
  PROVE  HeapOf!Resize(p)
<1> USE AllocatorAssumption
<1> DEFINE i == Of(table, p)
           from == table[i].size
<1>1. Tiles(table, 0, Size) /\ p \in valid /\ n \in Nat
  BY DEF IInv, GrowInPlace, Reallocs
<1>2. i \in DOMAIN table /\ table[i].owner = p
  BY <1>1, OfIs
<1>3. n > table[i].size /\ CanExtend(table, i, n) /\ table' = Extended(table, i, n)
  BY DEF GrowInPlace, Held
<1>4. i = Of(table, p) /\ Leaves(mem', mem, table', p, from)
  BY DEF GrowInPlace, Held, Leaves
<1> HIDE DEF i
<1>5. from \in Nat
  BY <1>1, <1>2, InArena
<1>6. /\ \A k \in DOMAIN table : k # i /\ ~IsFree(table, k) => In(table[k], table')
      /\ In(Area(table[i].start, n, table[i].owner), table')
  BY <1>1, <1>2, <1>3, ExtendStays
<1>7. ASSUME NEW k \in DOMAIN table, ~IsFree(table, k), table[k].owner # p
      PROVE  Bears(table[k], mem, table', mem, table[k].size)
  <2>1. In(table[k], table')
    BY <1>2, <1>6, <1>7
  <2> QED
    BY <2>1, StillBears
<1>8. Bears(table[i], mem, table', mem, n)
  <2> DEFINE A == Area(table[i].start, n, table[i].owner)
  <2>1. In(A, table') /\ A.start = table[i].start /\ A.size = n /\ A.owner = table[i].owner
    BY <1>6 DEF Area
  <2> HIDE DEF A
  <2> QED
    BY <2>1 DEF Bears
<1>9. \A d \in Nat : d < table[i].size /\ d < n => d < from
  OBVIOUS
<1>10. valid' \ {p} = valid \ {p}
  BY DEF GrowInPlace
<1>11. IInv'
  BY GrowInPlaceInv
<1> HIDE DEF from
<1> QED
  BY <1>1, <1>4, <1>5, <1>7, <1>8, <1>9, <1>10, <1>11, ResizeIs

\* realloc with the free area in front, and the one behind that if there is one
LEMMA GrowBackHeap ==
  ASSUME IInv, mem \in Like(mem), NEW p \in Pointers, NEW n \in 1 .. Size, GrowBack(p, n)
  PROVE  HeapOf!Resize(p)
<1> USE AllocatorAssumption
<1> DEFINE i == Of(table, p)
           j == i - 1
           t == Swapped(table, i)
           m1 == MovedBytes(mem, table, i)
           from == table[i].size
<1>1. /\ Tiles(table, 0, Size) /\ Owned(table, valid) /\ p \in valid /\ n \in Nat
      /\ DOMAIN table = 1 .. Len(table)
  BY DEF IInv, GrowBack, Reallocs, Tiles
<1>2. i \in DOMAIN table /\ table[i].owner = p /\ ~IsFree(table, i)
  BY <1>1, OfIs DEF IsFree
<1>3. /\ n > table[i].size /\ CanMove(table, i)
      /\ table' = IF CanExtend(t, j, n) THEN Extended(t, j, n) ELSE t
  BY DEF GrowBack, CanGrowBack, Held
<1>4. /\ i = Of(table, p) /\ j = i - 1 /\ t = Swapped(table, i)
      /\ m1 = MovedBytes(mem, table, i) /\ from = table[i].size
  OBVIOUS
<1>5. Leaves(mem', m1, table', p, from)
  BY DEF GrowBack, Held, Leaves
<1> HIDE DEF i, j, t, m1, from
<1>6. from \in Nat /\ table[i].size \in Nat
  BY <1>1, <1>2, <1>4, InArena
<1>7. /\ Tiles(t, 0, Size) /\ Owned(t, valid)
      /\ Len(t) = Len(table) /\ t[j].owner = p /\ t[j].size = table[i].size
      /\ DOMAIN t = 1 .. Len(t)
  <2>1. /\ Tiles(t, 0, Size) /\ Owned(t, valid)
        /\ Len(t) = Len(table) /\ t[i - 1].owner = table[i].owner
        /\ t[i - 1].size = table[i].size
    BY <1>1, <1>3, <1>4, SwapKeeps
  <2>2. DOMAIN t = 1 .. Len(t)
    BY <2>1 DEF Tiles
  <2> QED
    BY <2>1, <2>2, <1>2, <1>4
<1>8. \A k \in DOMAIN table : ~IsFree(table, k) => Bears(table[k], mem, t, m1, table[k].size)
  BY <1>1, <1>3, <1>4, SwapBears
<1>9. j \in DOMAIN t
  <2>1. i \in 2 .. Len(table) /\ Len(table) \in Nat
    BY <1>1, <1>3 DEF CanMove, Tiles
  <2> QED
    BY <2>1, <1>4, <1>7
<1>10. ASSUME NEW b, In(b, t), b.owner = p
       PROVE  b = t[j]
  <2>1. Once(t, p)
    BY <1>7 DEF Owned
  <2> QED
    BY <2>1, <1>7, <1>9, <1>10 DEF In, Once
<1>11. ASSUME NEW b, In(b, t), b.owner \in Pointers, b.owner # p
       PROVE  In(b, table')
  <2>1. CASE CanExtend(t, j, n)
    <3>1. PICK k \in DOMAIN t : t[k] = b
      BY <1>11 DEF In
    <3>2. k # j /\ ~IsFree(t, k)
      BY <3>1, <1>7, <1>11 DEF IsFree
    <3>3. n > t[j].size /\ table' = Extended(t, j, n)
      BY <2>1, <1>3, <1>7
    <3>4. In(t[k], table')
      BY <2>1, <3>2, <3>3, <1>1, <1>7, <1>9, ExtendStays
    <3> QED
      BY <3>1, <3>4
  <2>2. CASE ~CanExtend(t, j, n)
    BY <2>2, <1>3, <1>11
  <2> QED
    BY <2>1, <2>2
<1>12. ASSUME NEW k \in DOMAIN table, ~IsFree(table, k), table[k].owner # p
       PROVE  Bears(table[k], mem, table', m1, table[k].size)
  <2>1. PICK b : /\ In(b, t) /\ b.owner = table[k].owner /\ b.size = table[k].size
                 /\ \A d \in Nat : d < table[k].size /\ d < table[k].size =>
                      m1[b.start + d] = mem[table[k].start + d]
    BY <1>8, <1>12 DEF Bears
  <2>2. table[k].owner \in Pointers
    <3>1. table[k].owner \in Owner
      BY <1>1, <1>12, EndOf
    <3> QED
      BY <3>1, <1>12 DEF Owner, IsFree
  <2>3. In(b, table')
    BY <2>1, <2>2, <1>11, <1>12
  <2> QED
    BY <2>1, <2>3 DEF Bears
<1>13. \E z \in Nat : /\ Bears(table[i], mem, table', m1, z)
                      /\ \A d \in Nat : d < table[i].size /\ d < z => d < from
  <2>1. PICK b : /\ In(b, t) /\ b.owner = p /\ b.size = table[i].size
                 /\ \A d \in Nat : d < table[i].size /\ d < table[i].size =>
                      m1[b.start + d] = mem[table[i].start + d]
    BY <1>2, <1>8 DEF Bears
  <2>2. b = t[j]
    BY <2>1, <1>10
  <2>3. CASE CanExtend(t, j, n)
    <3> DEFINE A == Area(t[j].start, n, t[j].owner)
    <3>1. n > t[j].size /\ table' = Extended(t, j, n)
      BY <2>3, <1>3, <1>7
    <3>2. In(A, table')
      BY <2>3, <3>1, <1>1, <1>7, <1>9, ExtendStays
    <3>3. A.start = b.start /\ A.size = n /\ A.owner = table[i].owner
      BY <2>2, <1>2, <1>7 DEF Area
    <3> HIDE DEF A
    <3>4. Bears(table[i], mem, table', m1, n)
      BY <2>1, <3>2, <3>3 DEF Bears
    <3> QED
      BY <3>4, <1>1, <1>4
  <2>4. CASE ~CanExtend(t, j, n)
    <3>1. In(b, table')
      BY <2>1, <2>4, <1>3
    <3>2. Bears(table[i], mem, table', m1, table[i].size)
      BY <2>1, <3>1, <1>2 DEF Bears
    <3> QED
      BY <3>2, <1>4, <1>6
  <2> QED
    BY <2>3, <2>4
<1>14. valid' \ {p} = valid \ {p}
  BY DEF GrowBack
<1>15. IInv'
  BY GrowBackInv
<1> QED
  BY <1>4, <1>5, <1>6, <1>12, <1>13, <1>14, <1>15, ResizeIs

\* realloc with another area: what is copied there does not reach the old ones.
LEMMA GrowElsewhereHeap ==
  ASSUME IInv, NEW p \in Pointers, NEW n \in 1 .. Size, GrowElsewhere(p, n)
  PROVE  HeapOf!Resize(p)
<1> USE AllocatorAssumption
<1> DEFINE o == Of(table, p)
           old == table[o]
           t == Allocated(table, p, n)
           c == CHOOSE i \in DOMAIN t : t[i].owner = p /\ t[i].start # old.start
           new == t[c]
           m1 == Memcpy(mem, new.start, old.start, old.size)
           from == old.size
<1>1. /\ Tiles(table, 0, Size) /\ Owned(table, valid) /\ p \in valid /\ n \in Nat \ {0}
      /\ table \in Seq(AreaRec) /\ DOMAIN table = 1 .. Len(table)
  BY DEF IInv, GrowElsewhere, Reallocs, Tiles
<1>2. o \in DOMAIN table /\ old.owner = p /\ ~IsFree(table, o)
  BY <1>1, OfIs DEF IsFree
<1>3. n > old.size /\ Leaves(mem', m1, table', p, from)
  BY DEF GrowElsewhere, Held, Leaves
<1>4. PICK m, k, u : Regrown(t, p, n, m, k, u)
  BY GrowElsewhereDoes
<1> DEFINE s == WithRest(table[m].start, n, p, table[m].size - n)
           A == Area(table[m].start, n, p)
<1>5. /\ m \in 1 .. Len(table) /\ IsFree(table, m) /\ table[m].size >= n
      /\ t = Splice(table, m, m, s)
      /\ k \in DOMAIN t /\ t[k] = old
      /\ k \in 1 .. Len(u) /\ IsFree(u, k)
      /\ Tiles(u, 0, Size) /\ Owned(u, valid)
      /\ table' = UniteFreeSpace(u, k)
  BY <1>4 DEF Regrown
<1>6. DOMAIN u = DOMAIN t /\ \A q \in DOMAIN t \ {k} : u[q] = t[q]
  BY <1>4 DEF Regrown, GivesUp
<1>7. /\ o = Of(table, p) /\ old = table[o] /\ new = t[c] /\ from = old.size
      /\ m1 = Memcpy(mem, new.start, old.start, old.size)
      /\ c = CHOOSE i \in DOMAIN t : t[i].owner = p /\ t[i].start # old.start
  OBVIOUS
<1>8. old.start \in Nat /\ old.size \in Nat \ {0} /\ old.start + old.size <= Size
  BY <1>1, <1>2, InArena
<1>9. /\ table[m].start \in Nat /\ table[m].size \in Nat \ {0}
      /\ table[m].start + table[m].size <= Size
  BY <1>1, <1>5, InArena
<1>10. A.start = table[m].start /\ A.size = n /\ A.owner = p
  BY DEF Area
<1>11. s \in Seq(AreaRec) /\ s[1] = A /\ 1 \in DOMAIN s
  <2>1. table[m].size - n \in Nat /\ p \in Owner
    BY <1>1, <1>5, <1>9 DEF Owner
  <2>2. s = WithRest(table[m].start, n, p, table[m].size - n)
    OBVIOUS
  <2> HIDE DEF s
  <2>3. IsRest(s, table[m].start, n, p, table[m].size - n)
    BY <2>1, <2>2, <1>1, <1>9, RestKeeps
  <2> QED
    BY <2>3 DEF IsRest
<1> HIDE DEF o, old, t, c, new, m1, from, s, A
<1>12. Stays(t, table, m, m, s)
  <2>1. m \in m .. Len(table)
    BY <1>5
  <2> QED
    BY <2>1, <1>1, <1>5, <1>11, SpliceStays
<1>13. \A q \in DOMAIN table : q # m => In(table[q], t)
  <2>1. \A q \in DOMAIN table : q # m => q < m \/ m < q
    BY <1>1, <1>5
  <2> QED
    BY <2>1, <1>12 DEF Stays
<1>14. ASSUME NEW b, In(b, t), b.owner \in Pointers, b # old
       PROVE  In(b, table')
  <2>1. PICK q \in DOMAIN t : t[q] = b
    BY <1>14 DEF In
  <2>2. q # k /\ u[q] = b /\ q \in DOMAIN u
    BY <2>1, <1>5, <1>6, <1>14
  <2>3. ~IsFree(u, q)
    BY <2>2, <1>14 DEF IsFree
  <2>4. In(u[q], table')
    BY <2>2, <2>3, <1>5, UniteStays
  <2> QED
    BY <2>2, <2>4
<1>15. A.start # old.start
  <2>1. o # m /\ m \in DOMAIN table
    BY <1>1, <1>2, <1>5
  <2> QED
    BY <2>1, <1>1, <1>2, <1>7, <1>10, StartsDiffer
<1>16. PICK y \in DOMAIN t : t[y] = A
  BY <1>11, <1>12 DEF Stays, In
<1>17. new = A
  <2>1. y \in DOMAIN t /\ t[y].owner = p /\ t[y].start # old.start
    BY <1>10, <1>15, <1>16
  <2>2. c \in DOMAIN t /\ t[c].owner = p /\ t[c].start # old.start
    BY <2>1, <1>7
  <2>3. y # k /\ c # k
    BY <2>1, <2>2, <1>5
  <2>4. y = c
    <3>1. u[y].owner = p /\ u[c].owner = p /\ y \in DOMAIN u /\ c \in DOMAIN u
      BY <2>1, <2>2, <2>3, <1>6
    <3> QED
      BY <3>1, <1>5 DEF Owned, Once
  <2> QED
    BY <2>4, <1>7, <1>16
<1> DEFINE dst == A.start
           src == old.start
           z == old.size
<1>18. /\ dst \in Nat /\ src \in Nat /\ z \in Nat \ {0} /\ z < n
       /\ m1 = Memcpy(mem, dst, src, z)
       /\ dst + n <= dst + table[m].size /\ dst + table[m].size <= Size
  <2>1. dst = table[m].start /\ m1 = Memcpy(mem, dst, src, z) /\ z < n
    BY <1>3, <1>7, <1>10, <1>17
  <2>2. n \in Nat /\ n <= table[m].size
    BY <1>1, <1>5, <1>9
  <2> QED
    BY <2>1, <2>2, <1>8, <1>9
<1>19. ASSUME NEW q \in DOMAIN table, q # m
       PROVE  \/ table[q].start + table[q].size <= dst
              \/ dst + table[m].size <= table[q].start
  BY <1>1, <1>5, <1>10, <1>19, Apart
<1>20. ASSUME NEW q \in DOMAIN table, ~IsFree(table, q), table[q].owner # p
       PROVE  Bears(table[q], mem, table', m1, table[q].size)
  <2>1. q # m /\ table[q] # old
    BY <1>2, <1>5, <1>20
  <2>2. /\ table[q].start \in Nat /\ table[q].size \in Nat \ {0} /\ table[q].owner \in Pointers
        /\ table[q].start + table[q].size <= Size
    <3>1. table[q].owner \in Owner
      BY <1>1, <1>20, AreaFields
    <3> QED
      BY <3>1, <1>1, <1>20, InArena DEF Owner, IsFree
  <2>3. In(table[q], table')
    BY <2>1, <2>2, <1>13, <1>14
  <2>4. ASSUME NEW d \in Nat, d < table[q].size
        PROVE  m1[table[q].start + d] = mem[table[q].start + d]
    <3> DEFINE x == table[q].start
               l == table[q].size
               w == table[m].size
    <3>1. x \in Nat /\ l \in Nat /\ x + l <= Size /\ (x + l <= dst \/ dst + w <= x) /\ d < l
      BY <2>1, <2>2, <2>4, <1>19
    <3>2. n <= w /\ w \in Nat
      BY <1>5, <1>9
    <3> HIDE DEF x, l, w, dst, src, z
    <3>3. x + l <= dst \/ dst + z <= x
      BY <3>1, <3>2, <1>1, <1>18
    <3>4. Memcpy(mem, dst, src, z)[x + d] = mem[x + d]
      <4>1. x + d \in Bytes /\ x + d \notin dst .. dst + z - 1
        BY <3>1, <3>3, <1>18 DEF Bytes
      <4> QED
        BY <4>1 DEF Memcpy
    <3> QED
      BY <3>4, <1>18 DEF x
  <2> QED
    BY <2>3, <2>4, StillBears
<1>21. Bears(old, mem, table', m1, n)
  <2>1. In(A, t) /\ A # old /\ A.owner \in Pointers
    BY <1>10, <1>15, <1>16 DEF In
  <2>2. In(A, table')
    BY <2>1, <1>14
  <2>3. ASSUME NEW d \in Nat, d < z
        PROVE  m1[dst + d] = mem[src + d]
    <3> DEFINE w == table[m].size
    <3>1. src + z <= dst \/ dst + w <= src
      <4>1. o # m
        BY <1>2, <1>5
      <4> QED
        BY <4>1, <1>2, <1>7, <1>19
    <3>2. n <= w /\ w \in Nat
      BY <1>5, <1>9
    <3>3. dst + w <= Size
      BY <1>18
    <3> HIDE DEF w, dst, src, z
    <3>4. /\ src + z <= dst \/ dst + z <= src
          /\ dst + z <= Size /\ z \in Nat
      BY <3>1, <3>2, <3>3, <1>1, <1>18
    <3>5. /\ dst + d \in Bytes /\ dst + d \in dst .. dst + z - 1
          /\ ~(src < dst + z /\ dst < src + z)
          /\ src + (dst + d) - dst = src + d
      BY <3>4, <2>3, <1>18 DEF Bytes
    <3>6. Memcpy(mem, dst, src, z)[dst + d] = mem[src + (dst + d) - dst]
      BY <3>5 DEF Memcpy
    <3> QED
      BY <3>5, <3>6, <1>18
  <2> QED
    BY <2>2, <2>3, <1>2, <1>10 DEF Bears
<1>22. from \in Nat /\ n \in Nat /\ \A d \in Nat : d < old.size /\ d < n => d < from
  BY <1>1, <1>7, <1>8
<1>23. valid' \ {p} = valid \ {p}
  BY DEF GrowElsewhere
<1>24. IInv'
  BY GrowElsewhereInv
<1>25. old = table[Of(table, p)]
  BY <1>7
<1> QED
  BY <1>3, <1>20, <1>21, <1>22, <1>23, <1>24, <1>25, ResizeIs

\* A step that leaves all the bytes that count does not show.
LEMMA NothingShows ==
  ASSUME IInv, IInv', valid' = valid, NEW m1, Leaves(mem', m1, table', Free, 0),
         \A k \in DOMAIN table :
           ~IsFree(table, k) => Bears(table[k], mem, table', m1, table[k].size)
  PROVE  UNCHANGED Rows
<1>1. /\ Tiles(table, 0, Size) /\ Owned(table, valid) /\ valid \subseteq Pointers
      /\ DOMAIN table = 1 .. Len(table)
  BY DEF IInv, Tiles
<1>2. ASSUME NEW q \in Pointers
      PROVE  Row(q)' = Row(q)
  <2>1. CASE q \in valid
    <3>1. /\ Of(table, q) \in 1 .. Len(table) /\ ~IsFree(table, Of(table, q))
      BY <2>1, <1>1, OfOwner
    <3>2. Bears(table[Of(table, q)], mem, table', m1, table[Of(table, q)].size)
      BY <3>1, <1>1
    <3>3. table[Of(table, q)].size \in Nat
      BY <3>1, <1>1, InArena
    <3>4. q # Free /\ q \in valid' /\ 0 \in Nat
      BY <2>1, AllocatorAssumption
    <3> QED
      BY <2>1, <3>2, <3>3, <3>4, RowKept
  <2>2. CASE q \notin valid
    BY <2>2, RowIs
  <2> QED
    BY <2>1, <2>2
<1> QED
  BY <1>2 DEF Rows

\* defrag before its loop,
LEMMA DefragBeginHeap ==
  ASSUME IInv, DefragBegin
  PROVE  UNCHANGED Rows
<1>1. /\ Tiles(table, 0, Size) /\ Owned(table, valid)
      /\ table \in Seq(AreaRec) /\ Len(table) \in Nat
  BY DEF IInv, Tiles
<1>2. 1 \in 1 .. Len(table)
  <2>1. table # <<>>
    BY TilingIs DEF IInv, Tiling
  <2> QED
    BY <2>1, <1>1
<1>3. table' = UniteFreeSpace(table, 1) /\ valid' = valid /\ Leaves(mem', mem, table', Free, 0)
  BY DEF DefragBegin, Leaves
<1>4. ASSUME NEW k \in DOMAIN table, ~IsFree(table, k)
      PROVE  Bears(table[k], mem, table', mem, table[k].size)
  <2>1. In(table[k], table')
    BY <1>1, <1>2, <1>3, <1>4, UniteStays
  <2> QED
    BY <2>1, StillBears
<1>5. IInv'
  BY DefragBeginInv
<1> QED
  BY <1>3, <1>4, <1>5, NothingShows

\* and a turn of the loop, which moves an area with its bytes.
LEMMA DefragTurnHeap ==
  ASSUME IInv, mem \in Like(mem), DefragTurn
  PROVE  UNCHANGED Rows
<1> DEFINE t == UniteFreeSpace(table, at)
           next == Min(Run(table, at)) + 1
           m1 == MovedBytes(mem, t, next)
<1>1. /\ Tiles(table, 0, Size) /\ Owned(table, valid)
      /\ table \in Seq(AreaRec) /\ Len(table) \in Nat
  BY DEF IInv, Tiles
<1>2. at \in 1 .. Len(table)
  <2>1. at \in 1 .. Len(table) + 1 /\ at <= Len(table)
    BY DEF IInv, InLoop, DefragTurn
  <2> QED
    BY <2>1, <1>1
<1>3. IInv' /\ valid' = valid
  BY DefragTurnInv DEF DefragTurn
<1>4. CASE ~IsFree(table, at)
  <2>1. table' = table /\ Leaves(mem', mem, table', Free, 0)
    BY <1>4 DEF DefragTurn, Leaves
  <2>2. ASSUME NEW k \in DOMAIN table
        PROVE  Bears(table[k], mem, table', mem, table[k].size)
    <3>1. In(table[k], table')
      BY <2>1 DEF In
    <3> QED
      BY <3>1, StillBears
  <2> QED
    BY <2>1, <2>2, <1>3, NothingShows
<1>5. CASE IsFree(table, at)
  <2>1. t = UniteFreeSpace(table, at) /\ m1 = MovedBytes(mem, t, next)
    OBVIOUS
  <2>2. /\ CanMove(t, next) => table' = Swapped(t, next) /\ mem' = Written(m1, table', Free, 0)
        /\ ~CanMove(t, next) => table' = t /\ mem' = mem
    BY <1>5 DEF DefragTurn
  <2> HIDE DEF t, next, m1
  <2>3. Tiles(t, 0, Size)
    BY <2>1, <1>1, <1>2, <1>5, UniteKeeps
  <2>4. ASSUME NEW k \in DOMAIN table, ~IsFree(table, k)
        PROVE  In(table[k], t)
    BY <2>1, <2>4, <1>1, <1>2, UniteStays
  <2>5. CASE CanMove(t, next)
    <3>1. ASSUME NEW k \in DOMAIN table, ~IsFree(table, k)
          PROVE  Bears(table[k], mem, table', m1, table[k].size)
      <4>1. PICK q \in DOMAIN t : t[q] = table[k]
        BY <2>4, <3>1 DEF In
      <4>2. ~IsFree(t, q)
        BY <4>1, <3>1 DEF IsFree
      <4>3. Bears(t[q], mem, Swapped(t, next), MovedBytes(mem, t, next), t[q].size)
        BY <4>2, <2>3, <2>5, SwapBears
      <4> QED
        BY <4>1, <4>3, <2>1, <2>2, <2>5
    <3>2. Leaves(mem', m1, table', Free, 0)
      BY <2>2, <2>5 DEF Leaves
    <3> QED
      BY <3>1, <3>2, <1>3, NothingShows
  <2>6. CASE ~CanMove(t, next)
    <3>1. table' = t /\ Leaves(mem', mem, table', Free, 0)
      BY <2>2, <2>6 DEF Leaves
    <3>2. ASSUME NEW k \in DOMAIN table, ~IsFree(table, k)
          PROVE  Bears(table[k], mem, table', mem, table[k].size)
      BY <2>4, <3>1, <3>2, StillBears
    <3> QED
      BY <3>1, <3>2, <1>3, NothingShows
  <2> QED
    BY <2>5, <2>6
<1> QED
  BY <1>4, <1>5

\* The arena has its bytes and no others, in every state.
Full == mem = [x \in Bytes |-> mem[x]]

LEMMA FullInit == Init => Full
BY DEF Init, Full

LEMMA FullNext == Full /\ [Next]_vars => Full'
<1> SUFFICES ASSUME Full, [Next]_vars PROVE Full'
  OBVIOUS
<1>1. ASSUME NEW p \in Pointers, NEW n \in 1 .. Size,
             \/ Alloc(p, n) \/ Shrink(p, n) \/ GrowInPlace(p, n)
             \/ GrowBack(p, n) \/ GrowElsewhere(p, n)
      PROVE  \E m, q, z : mem' = Written(m, table', q, z)
  BY <1>1 DEF Alloc, Shrink, GrowInPlace, GrowBack, GrowElsewhere
<1>2. ASSUME NEW p \in Pointers, FreeIt(p)
      PROVE  \E m, q, z : mem' = Written(m, table', q, z)
  BY <1>2 DEF FreeIt
<1>3. ASSUME DefragTurn
      PROVE  (\E m, q, z : mem' = Written(m, table', q, z)) \/ mem' = mem
  BY <1>3 DEF DefragTurn
<1>4. \/ \E m, q, z : mem' = Written(m, table', q, z)
      \/ mem' = mem
  BY <1>1, <1>2, <1>3 DEF Next, Defrag, DefragBegin, DefragEnd, DefragTurn, vars
<1>5. CASE \E m, q, z : mem' = Written(m, table', q, z)
  <2>1. PICK m, q, z : mem' = Written(m, table', q, z)
    BY <1>5
  <2>2. mem' = [x \in Bytes |-> mem'[x]]
    BY <2>1 DEF Written
  <2> QED
    BY <2>2 DEF Full, Bytes
<1>6. CASE mem' = mem
  BY <1>6 DEF Full, Bytes
<1> QED
  BY <1>4, <1>5, <1>6

\* Every step is one of those that the heap promises, or does not show.
LEMMA HeapNext ==
  ASSUME IInv, Full, [Next]_vars
  PROVE  \/ HeapOf!Next
         \/ UNCHANGED Rows
<1>1. mem \in Like(mem)
  BY DEF Full, Like
<1>2. ASSUME NEW p \in Pointers, NEW n \in 1 .. Size,
             \/ Alloc(p, n) \/ Shrink(p, n) \/ GrowInPlace(p, n)
             \/ GrowBack(p, n) \/ GrowElsewhere(p, n)
      PROVE  HeapOf!Next
  <2>1. HeapOf!Resize(p)
    BY <1>1, <1>2, AllocHeap, ShrinkHeap, GrowInPlaceHeap, GrowBackHeap, GrowElsewhereHeap
  <2> QED
    BY <2>1 DEF HeapOf!Next
<1>3. ASSUME NEW p \in Pointers, FreeIt(p)
      PROVE  HeapOf!Next
  <2>1. HeapOf!Resize(p)
    BY <1>3, FreeHeap
  <2> QED
    BY <2>1 DEF HeapOf!Next
<1>4. CASE DefragBegin
  BY <1>4, DefragBeginHeap
<1>5. CASE DefragTurn
  BY <1>1, <1>5, DefragTurnHeap
<1>6. CASE DefragEnd
  BY <1>6 DEF DefragEnd, Rows, Row, Of
<1>7. CASE UNCHANGED vars
  BY <1>7 DEF vars, Rows, Row, Of
<1> QED
  BY <1>2, <1>3, <1>4, <1>5, <1>6, <1>7 DEF Next, Defrag

\* At first no pointer holds anything.
LEMMA HeapInit == Init => HeapOf!Init
<1> SUFFICES ASSUME Init PROVE HeapOf!Init
  OBVIOUS
<1>1. \A q \in Pointers : Row(q) = <<>>
  BY DEF Init, Row
<1> QED
  BY <1>1 DEF HeapOf!Init, Rows

-----------------------------------------------------------------------------
(* The theorems.                                                            *)

\* The areas lie side by side, each valid pointer owns one of them, nobody else does,
\* and nothing free but the end of the list lies before the iterator of defrag.
THEOREM Invariance == Spec => []IInv
BY InitInv, NextInv, PTL DEF Spec

\* The list and the pointers into it are sound between any two calls and between any
\* two turns of defrag, for every arena and every set of pointers (memory_table,
\* PointerImpl).
THEOREM Sound == Spec => []ListSound
BY Invariance, InvSound, PTL

\* defrag keeps the order of the allocated areas, and when its loop is over nothing
\* free lies before the last area: the free space is one area at the end.
THEOREM Packs == Spec => DefragPacks
<1>1. ASSUME IInv, Next, pc = "defrag"
      PROVE  Ahead' = Ahead /\ (pc' = "ready" => Packed(table'))
  <2>1. valid' = valid /\ (DefragTurn \/ DefragEnd)
    BY <1>1 DEF Next, Defrag, Alloc, Shrink, GrowInPlace, GrowBack, GrowElsewhere, Reallocs,
                FreeIt, DefragBegin, DefragTurn, DefragEnd
  <2>2. CASE DefragTurn
    <3>1. \A p, q \in valid : Of(table', p) < Of(table', q) <=> Of(table, p) < Of(table, q)
      BY <1>1, <2>2, TurnOrder DEF SameOrder
    <3>2. Ahead' = {o \in valid \X valid : Of(table', o[1]) < Of(table', o[2])}
      BY <2>1 DEF Ahead, Of
    <3>3. Ahead' = Ahead
      BY <3>1, <3>2 DEF Ahead
    <3>4. pc' # "ready"
      BY <1>1, <2>2 DEF DefragTurn
    <3> QED
      BY <3>3, <3>4
  <2>3. CASE DefragEnd
    <3>1. table' = table /\ at > Len(table)
      BY <2>3 DEF DefragEnd
    <3>2. Ahead' = Ahead
      BY <2>1, <3>1 DEF Ahead, Of
    <3>3. /\ DOMAIN table = 1 .. Len(table)
          /\ \A k \in 1 .. at - 1 : IsFree(table, k) => k = Len(table)
      BY <1>1 DEF IInv, Tiles, InLoop
    <3>4. at - 1 = Len(table)
      <4>1. Len(table) \in Nat /\ at \in 1 .. Len(table) + 1
        BY <1>1 DEF IInv, Tiles, InLoop
      <4> QED
        BY <4>1, <3>1
    <3>5. Packed(table)
      BY <3>3, <3>4 DEF Packed
    <3> QED
      BY <3>1, <3>2, <3>5
  <2> QED
    BY <2>1, <2>2, <2>3
<1>2. ASSUME IInv, [Next]_vars
      PROVE  [pc = "defrag" => /\ Ahead' = Ahead
                               /\ pc' = "ready" => Packed(table')]_vars
  BY <1>1, <1>2
<1> QED
  BY <1>2, Invariance, PTL DEF Spec, DefragPacks

\* Each turn of defrag's loop leaves fewer areas ahead of it.
THEOREM Ends == Spec => DefragEnds
<1>1. ASSUME IInv, [Next]_vars
      PROVE  [pc = "defrag" /\ pc' = "defrag" => Len(table') - at' < Len(table) - at]_vars
  <2>1. SUFFICES ASSUME [Next]_vars, pc = "defrag", pc' = "defrag"
                 PROVE  Len(table') - at' < Len(table) - at \/ UNCHANGED vars
    BY <1>1
  <2>2. DefragTurn \/ UNCHANGED vars
    BY <2>1 DEF Next, Defrag, Alloc, Shrink, GrowInPlace, GrowBack, GrowElsewhere, Reallocs,
                FreeIt, DefragBegin, DefragEnd
  <2>3. CASE DefragTurn
    <3>1. Len(table') <= Len(table) /\ Len(table) \in Nat /\ Len(table') \in Nat
          /\ at \in 1 .. Len(table')
      BY <1>1, <2>3, TurnDoes
    <3>2. at' = at + 1
      BY <2>3 DEF DefragTurn, Advanced
    <3> QED
      BY <3>1, <3>2
  <2> QED
    BY <2>2, <2>3
<1> QED
  BY <1>1, Invariance, PTL DEF Spec, DefragEnds

\* Every call changes the bytes of its own pointer only and a reallocation keeps what
\* fits, although areas move, in pieces and over each other, for every arena and every
\* set of pointers (allocator.cpp).
THEOREM Kept == Spec => KeepsBytes
<1>1. Init => IInv /\ Full /\ HeapOf!Init
  BY InitInv, FullInit, HeapInit
<1>2. IInv /\ Full /\ [Next]_vars => (IInv /\ Full)' /\ [HeapOf!Next]_Rows
  BY NextInv, FullNext, HeapNext
<1> QED
  BY <1>1, <1>2, PTL DEF Spec, KeepsBytes, HeapOf!Spec
=============================================================================
