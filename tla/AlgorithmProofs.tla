--------------------------- MODULE AlgorithmProofs ---------------------------
(***************************************************************************)
(* Proofs about the programs that compute something and end.                 *)
(*                                                                          *)
(* MergeSort: whatever the number of elements, the contents of the buffers     *)
(* and where they lie in memory, merge is never called with parts that it      *)
(* refuses, no index leaves the array, and merges of one round may run in      *)
(* parallel; and the numbers that main sorts are sorted.                      *)
(*                                                                          *)
(* IndexCover: each index of the sine table has one thread and each term of    *)
(* the sum one rank, for every size.                                          *)
(*                                                                          *)
(* ShellTokens: the scan of a line is sound, and the parser accepts the shell   *)
(* lines and makes of them what the reference says, for lines of every length. *)
(***************************************************************************)
EXTENDS MergeSort, IndexCover, ShellTokens, Sequences, FiniteSets, TLAPS,
        FiniteSetTheorems, NaturalsInduction, WellFoundedInduction

-----------------------------------------------------------------------------
(* The merge sort.                                                          *)

\* The fields of a task record.
LEMMA TaskFields ==
  ASSUME NEW t \in Task
  PROVE  /\ t.state \in {"wait", "merge", "done", "thrown"}
         /\ t.i1 \in Nat /\ t.i2 \in Nat /\ t.r \in Nat
BY DEF Task

LEMMA TaskRecord ==
  ASSUME NEW s \in {"wait", "merge", "done", "thrown"},
         NEW a \in Nat, NEW b \in Nat, NEW c \in Nat
  PROVE  [state |-> s, i1 |-> a, i2 |-> b, r |-> c] \in Task
BY DEF Task

\* The sizes of the two parts at an element: within the array, however the
\* parts are cut.
LEMMA Sizes ==
  ASSUME Types, NEW i \in Cells
  PROVE  /\ Size1(i) \in 1 .. part /\ Size2(i) \in 0 .. part
         /\ i + Size1(i) + Size2(i) <= N
         /\ Size2(i) > 0 => i + part + Size2(i) <= N
         /\ End1(i) \in Nat /\ End2(i) \in Nat /\ Begin2(i) \in Nat
         /\ End1(i) = i + Size1(i) /\ Begin2(i) = i + part
         /\ End2(i) = i + part + Size2(i)
  <1> USE SortAssumption
  <1>1. i \in Nat /\ i < N /\ N \in Nat /\ part \in Nat /\ part > 0
    BY DEF Types, Cells
  <1>2. Size1(i) = IF N - i < part THEN N - i ELSE part
    BY DEF Size1, Cut
  <1>3. Size2(i) = IF N - i < part THEN 0
                   ELSE IF N - i - part < part THEN N - i - part ELSE part
    BY <1>1 DEF Size2, Cut, Rest
  <1> QED
    BY <1>1, <1>2, <1>3 DEF End1, End2, Begin2

\* The check at the beginning of merge lets the parts of every round pass.
LEMMA NotRefused ==
  ASSUME Types, Running, NEW i \in Cells
  PROVE  ~Refused(i)
  <1> DEFINE bc == base[cur]
             bt == base[Target]
             s1 == Size1(i)
             s2 == Size2(i)
  <1>1. /\ i \in Nat /\ i < N /\ N \in Nat /\ part \in Nat /\ part > 0 /\ part < N
    BY SortAssumption DEF Types, Cells, Running
  <1>2. bc \in Nat /\ bt \in Nat /\ (bt >= bc + N \/ bc >= bt + N)
    <2>1. base \in [{0, 1} -> Nat] /\ Apart(base)
      BY SortAssumption DEF Types
    <2>2. (cur = 0 /\ Target = 1) \/ (cur = 1 /\ Target = 0)
      BY DEF Types, Target
    <2> QED
      BY <2>1, <2>2, <1>1 DEF Apart
  <1>3. /\ s1 \in Nat /\ s2 \in Nat /\ s1 > 0 /\ s1 <= part /\ s2 <= part
        /\ i + s1 + s2 <= N /\ (s2 > 0 => i + part + s2 <= N)
        /\ Begin2(i) = i + part
    BY <1>1, Sizes
  <1> HIDE DEF bc, bt, s1, s2
  <1>4. ~Intersect(bc + i, s1, bc + (i + part), s2)
    BY <1>1, <1>2, <1>3 DEF Intersect, Within
  <1>5. ~Intersect(bc + i, s1, bt + i, s1 + s2)
    BY <1>1, <1>2, <1>3 DEF Intersect, Within
  <1>6. ~Intersect(bc + (i + part), s2, bt + i, s1 + s2)
    BY <1>1, <1>2, <1>3 DEF Intersect, Within
  <1> QED
    BY <1>3, <1>4, <1>5, <1>6 DEF Refused, bc, bt, s1, s2

\* What an element that a merge takes says about the indices it has.
LEMMA Taking ==
  ASSUME Types, NEW i \in Cells, InParts(i), Takes1(i) \/ Takes2(i)
  PROVE  \/ Takes1(i) /\ task[i].i1 < End1(i)
         \/ ~Takes1(i) /\ task[i].i2 < End2(i)
  <1>1. task[i].i1 \in i .. End1(i) /\ task[i].i2 \in Begin2(i) .. End2(i)
    BY DEF InParts
  <1>2. /\ End1(i) \in Nat /\ End2(i) \in Nat /\ Begin2(i) \in Nat
        /\ End1(i) <= Begin2(i) /\ i \in Nat
    BY Sizes, SortAssumption DEF Types, Cells
  <1>3. CASE Takes1(i)
    BY <1>3 DEF Takes1
  <1>4. CASE ~Takes1(i) /\ Takes2(i)
    BY <1>1, <1>2, <1>4 DEF Takes2, AppendEnd2
  <1> QED
    BY <1>3, <1>4

LEMMA InitInv == Init => IInv
  <1> SUFFICES ASSUME Init PROVE IInv
    OBVIOUS
  <1> USE SortAssumption
  <1>1. Idle \in Task
    BY TaskRecord DEF Idle
  <1>2. Idle.state = "wait"
    BY DEF Idle
  <1>3. \A i \in Cells : task[i] = Idle
    BY DEF Init
  <1>4. PICK in \in Inputs, g \in Garbage :
          buf = [b \in {0, 1} |-> IF b = 0 THEN in ELSE [x \in Cells |-> g]]
    BY DEF Init
  <1>5. in \in [Cells -> Int] /\ [x \in Cells |-> g] \in [Cells -> Int]
    OBVIOUS
  <1>6. buf \in [{0, 1} -> [Cells -> Int]]
    BY <1>4, <1>5
  <1>7. Types
    BY <1>1, <1>6 DEF Init, Types
  <1>8. NeverThrows
    BY <1>2, <1>3 DEF NeverThrows
  <1>9. InBounds
    BY <1>2, <1>3 DEF InBounds, Starts
  <1> QED
    BY <1>7, <1>8, <1>9 DEF IInv

\* A step that changes one task only, and not the parts, disturbs nothing else.
LEMMA OneTask ==
  ASSUME IInv, NEW i \in Cells, NEW t \in Task,
         task' = [task EXCEPT ![i] = t],
         base' = base, cur' = cur, part' = part,
         buf' \in [{0, 1} -> [Cells -> Int]],
         t.state # "thrown",
         t.state \in {"merge", "done"} =>
           /\ t.i1 \in i .. End1(i)
           /\ t.i2 \in Begin2(i) .. End2(i)
           /\ t.r - i = (t.i1 - i) + (t.i2 - Begin2(i))
  PROVE  IInv'
  <1>1. Types'
    BY DEF IInv, Types
  <1>2. task'[i] = t /\ \A j \in Cells : j # i => task'[j] = task[j]
    BY DEF IInv, Types
  <1>3. NeverThrows'
    BY <1>2 DEF IInv, NeverThrows
  <1>4. \A j \in Cells : /\ Size1(j)' = Size1(j) /\ Size2(j)' = Size2(j)
                         /\ End1(j)' = End1(j) /\ End2(j)' = End2(j)
                         /\ Begin2(j)' = Begin2(j)
    BY DEF Size1, Size2, End1, End2, Begin2, Cut, Rest
  <1>5. Starts' = Starts /\ Starts \subseteq Cells
    BY DEF Starts
  <1>6. ASSUME NEW j \in Starts, task'[j].state \in {"merge", "done"}
        PROVE  InParts(j)'
    <2>1. CASE j = i
      <3>1. /\ i + Size1(i) + Size2(i) <= N
            /\ End1(i) <= N
            /\ Size2(i) > 0 => End2(i) <= N
        <4>1. i \in Nat /\ N \in Nat /\ part \in Nat
          BY SortAssumption DEF IInv, Types, Cells
        <4> QED
          BY <4>1, Sizes DEF IInv
      <3> QED
        BY <1>2, <1>4, <1>6, <2>1, <3>1 DEF InParts
    <2>2. CASE j # i
      <3>1. task'[j] = task[j]
        BY <1>2, <1>5, <2>2
      <3>2. InParts(j)
        BY <1>6, <3>1 DEF IInv, InBounds
      <3> QED
        BY <1>4, <1>5, <3>1, <3>2 DEF InParts
    <2> QED
      BY <2>1, <2>2
  <1> QED
    BY <1>1, <1>3, <1>5, <1>6 DEF IInv, InBounds

LEMMA NextInv == IInv /\ [Next]_vars => IInv'
  <1> SUFFICES ASSUME IInv, [Next]_vars PROVE IInv'
    OBVIOUS
  <1> USE SortAssumption
  <1>1. ASSUME NEW i \in Cells, MergeBegin(i) PROVE IInv'
    <2> DEFINE t == [state |-> "merge", i1 |-> i, i2 |-> Begin2(i), r |-> i]
    <2>1. ~Refused(i)
      BY <1>1, NotRefused DEF IInv, MergeBegin
    <2>2. task' = [task EXCEPT ![i] = t]
      BY <1>1, <2>1 DEF MergeBegin
    <2>3. i \in Nat /\ Begin2(i) \in Nat
      BY Sizes DEF IInv, Cells
    <2>4. t \in Task
      BY <2>3, TaskRecord
    <2>5. t.i1 = i /\ t.i2 = Begin2(i) /\ t.r = i /\ t.state = "merge"
      OBVIOUS
    <2>6. /\ i \in i .. End1(i)
          /\ Begin2(i) \in Begin2(i) .. End2(i)
          /\ i - i = (i - i) + (Begin2(i) - Begin2(i))
      BY <2>3, Sizes DEF IInv, Types
    <2>7. base' = base /\ cur' = cur /\ part' = part /\ buf' = buf
      BY <1>1 DEF MergeBegin
    <2> HIDE DEF t
    <2> QED
      BY <2>2, <2>4, <2>5, <2>6, <2>7, OneTask DEF IInv, Types
  <1>2. ASSUME NEW i \in Cells, Copy(i) PROVE IInv'
    <2> DEFINE k == task[i]
    <2>1. k \in Task /\ k.state = "merge" /\ i \in Starts
      BY <1>2 DEF Copy, IInv, Types
    <2>2. InParts(i)
      BY <2>1 DEF IInv, InBounds
    <2>3. /\ k.i1 \in i .. End1(i) /\ k.i2 \in Begin2(i) .. End2(i)
          /\ k.r - i = (k.i1 - i) + (k.i2 - Begin2(i))
          /\ k.i1 \in Nat /\ k.i2 \in Nat /\ k.r \in Nat
      BY <2>1, <2>2, TaskFields DEF InParts
    <2>4. /\ i \in Nat /\ i < N /\ End1(i) \in Nat /\ End2(i) \in Nat /\ Begin2(i) \in Nat
          /\ End1(i) <= N /\ End1(i) <= Begin2(i)
          /\ End2(i) <= N \/ End2(i) = Begin2(i)
      <3>1. i \in Nat /\ i < N /\ N \in Nat /\ part \in Nat
        BY DEF IInv, Types, Cells
      <3> QED
        BY <3>1, Sizes DEF IInv
    <2>5. \/ Takes1(i) /\ k.i1 < End1(i)
          \/ ~Takes1(i) /\ k.i2 < End2(i)
      BY <1>2, <2>2, Taking DEF Copy, IInv
    <2>6. base' = base /\ cur' = cur /\ part' = part
      BY <1>2 DEF Copy
    <2>7. ASSUME NEW x \in Cells,
                 buf' = [b \in {0, 1} |-> IF b = Target THEN [buf[b] EXCEPT ![k.r] = buf[cur][x]]
                                          ELSE buf[b]]
          PROVE  buf' \in [{0, 1} -> [Cells -> Int]]
      <3>1. buf[cur][x] \in Int
        BY DEF IInv, Types
      <3>2. \A b \in {0, 1} : [buf[b] EXCEPT ![k.r] = buf[cur][x]] \in [Cells -> Int]
        BY <3>1 DEF IInv, Types
      <3> QED
        BY <2>7, <3>2 DEF IInv, Types
    <2>8. CASE Takes1(i) /\ k.i1 < End1(i)
      <3> DEFINE t == [state |-> "merge", i1 |-> k.i1 + 1, i2 |-> k.i2 + 0, r |-> k.r + 1]
      <3>1. task' = [task EXCEPT ![i] = t]
        BY <1>2, <2>8 DEF Copy
      <3>2. t \in Task
        <4>1. k.i1 + 1 \in Nat /\ k.i2 + 0 \in Nat /\ k.r + 1 \in Nat
          BY <2>3
        <4> QED
          BY <4>1, TaskRecord
      <3>3. t.i1 = k.i1 + 1 /\ t.i2 = k.i2 + 0 /\ t.r = k.r + 1 /\ t.state = "merge"
        OBVIOUS
      <3>4. k.i1 \in Cells
        BY <2>3, <2>4, <2>8 DEF Cells
      <3>5. buf' \in [{0, 1} -> [Cells -> Int]]
        BY <1>2, <2>7, <2>8, <3>4 DEF Copy
      <3> HIDE DEF t
      <3>6. /\ t.i1 \in i .. End1(i)
            /\ t.i2 \in Begin2(i) .. End2(i)
            /\ t.r - i = (t.i1 - i) + (t.i2 - Begin2(i))
        <4>1. /\ t.i1 \in Nat /\ i <= t.i1 /\ t.i1 <= End1(i)
              /\ t.i2 \in Nat /\ Begin2(i) <= t.i2 /\ t.i2 <= End2(i)
              /\ t.r \in Nat
          BY <2>3, <2>4, <2>8, <3>3
        <4>2. t.r - i = (t.i1 - i) + (t.i2 - Begin2(i))
          BY <2>3, <2>4, <3>3
        <4> QED
          BY <2>4, <4>1, <4>2
      <3> QED
        BY <2>6, <3>1, <3>2, <3>3, <3>5, <3>6, OneTask
    <2>9. CASE ~Takes1(i) /\ k.i2 < End2(i)
      <3> DEFINE t == [state |-> "merge", i1 |-> k.i1 + 0, i2 |-> k.i2 + 1, r |-> k.r + 1]
      <3>1. task' = [task EXCEPT ![i] = t]
        BY <1>2, <2>9 DEF Copy
      <3>2. t \in Task
        <4>1. k.i1 + 0 \in Nat /\ k.i2 + 1 \in Nat /\ k.r + 1 \in Nat
          BY <2>3
        <4> QED
          BY <4>1, TaskRecord
      <3>3. t.i1 = k.i1 + 0 /\ t.i2 = k.i2 + 1 /\ t.r = k.r + 1 /\ t.state = "merge"
        OBVIOUS
      <3>4. k.i2 \in Cells
        BY <2>3, <2>4, <2>9 DEF Cells
      <3>5. buf' \in [{0, 1} -> [Cells -> Int]]
        BY <1>2, <2>7, <2>9, <3>4 DEF Copy
      <3> HIDE DEF t
      <3>6. /\ t.i1 \in i .. End1(i)
            /\ t.i2 \in Begin2(i) .. End2(i)
            /\ t.r - i = (t.i1 - i) + (t.i2 - Begin2(i))
        <4>1. /\ t.i1 \in Nat /\ i <= t.i1 /\ t.i1 <= End1(i)
              /\ t.i2 \in Nat /\ Begin2(i) <= t.i2 /\ t.i2 <= End2(i)
              /\ t.r \in Nat
          BY <2>3, <2>4, <2>9, <3>3
        <4>2. t.r - i = (t.i1 - i) + (t.i2 - Begin2(i))
          BY <2>3, <2>4, <3>3
        <4> QED
          BY <2>4, <4>1, <4>2
      <3> QED
        BY <2>6, <3>1, <3>2, <3>3, <3>5, <3>6, OneTask
    <2> QED
      BY <2>5, <2>8, <2>9
  <1>3. ASSUME NEW i \in Cells, MergeEnd(i) PROVE IInv'
    <2> DEFINE k == task[i]
               t == [state |-> "done", i1 |-> k.i1, i2 |-> k.i2, r |-> k.r]
    <2>1. k \in Task /\ k.state = "merge" /\ i \in Starts
      BY <1>3 DEF MergeEnd, IInv, Types
    <2>2. InParts(i)
      BY <2>1 DEF IInv, InBounds
    <2>3. task' = [task EXCEPT ![i] = t]
      BY <1>3 DEF MergeEnd
    <2>4. t \in Task
      BY <2>1, TaskFields, TaskRecord
    <2>5. t.i1 = k.i1 /\ t.i2 = k.i2 /\ t.r = k.r /\ t.state = "done"
      OBVIOUS
    <2>6. base' = base /\ cur' = cur /\ part' = part /\ buf' = buf
      BY <1>3 DEF MergeEnd
    <2> HIDE DEF t
    <2>7. /\ t.i1 \in i .. End1(i)
          /\ t.i2 \in Begin2(i) .. End2(i)
          /\ t.r - i = (t.i1 - i) + (t.i2 - Begin2(i))
      BY <2>2, <2>5 DEF InParts
    <2> QED
      BY <2>3, <2>4, <2>5, <2>6, <2>7, OneTask DEF IInv, Types
  <1>4. ASSUME NextRound PROVE IInv'
    <2>1. Idle \in Task /\ Idle.state = "wait"
      BY TaskRecord DEF Idle
    <2>2. \A i \in Cells : task'[i] = Idle
      BY <1>4 DEF NextRound
    <2>3. task' \in [Cells -> Task]
      BY <1>4, <2>1 DEF NextRound
    <2>4. cur' \in {0, 1} /\ part' \in Nat \ {0}
      BY <1>4 DEF NextRound, Target, Doubled, IInv, Types
    <2>5. Types'
      BY <1>4, <2>3, <2>4 DEF NextRound, IInv, Types
    <2>6. NeverThrows'
      BY <2>1, <2>2 DEF NeverThrows
    <2>7. InBounds'
      BY <2>1, <2>2 DEF InBounds, Starts
    <2> QED
      BY <2>5, <2>6, <2>7 DEF IInv
  <1>5. CASE UNCHANGED vars
    BY <1>5 DEF vars, IInv, Types, NeverThrows, InBounds, InParts, Starts, Size1, Size2,
                End1, End2, Begin2, Cut, Rest
  <1> QED
    BY <1>1, <1>2, <1>3, <1>4, <1>5 DEF Next

THEOREM Invariance == Spec => []IInv
  <1>1. QED
    BY InitInv, NextInv, PTL DEF Spec

\* merge never throws, for any number of elements and any place of the buffers.
THEOREM NoThrow == Spec => []NeverThrows
  <1>1. IInv => NeverThrows
    BY DEF IInv
  <1> QED
    BY Invariance, <1>1, PTL

\* No index of any merge leaves the array.
THEOREM Bounded == Spec => []InBounds
  <1>1. IInv => InBounds
    BY DEF IInv
  <1> QED
    BY Invariance, <1>1, PTL

\* Multiples of a step are at least the step apart.
LEMMA Multiples ==
  ASSUME NEW s \in Nat, NEW a \in Nat, NEW b \in Nat, a < b
  PROVE  a * s + s <= b * s
  <1>1. PICK d \in Nat : b = a + 1 + d
    <2>1. b - a - 1 \in Nat /\ b = a + 1 + (b - a - 1)
      OBVIOUS
    <2> QED
      BY <2>1
  <1>2. (a + 1 + d) * s = a * s + s + d * s
    OBVIOUS
  <1>3. d * s \in Nat /\ a * s \in Nat
    OBVIOUS
  <1> QED
    BY <1>1, <1>2, <1>3

\* The parts of merges that run together lie apart from each other.
LEMMA Disjoint ==
  ASSUME Types
  PROVE  NoRace
  <1> USE SortAssumption
  <1>1. Target # cur
    BY DEF Types, Target
  <1>2. ASSUME NEW i \in Starts, NEW j \in Starts, i < j
        PROVE  Output(i) \cap Output(j) = {}
    <2>1. PICK a \in 0 .. i : i = a * (2 * part)
      BY DEF Starts
    <2>2. PICK b \in 0 .. j : j = b * (2 * part)
      BY DEF Starts
    <2>3. /\ i \in Cells /\ j \in Cells /\ i \in Nat /\ j \in Nat
          /\ part \in Nat /\ 2 * part \in Nat
      BY DEF Starts, Cells, Types
    <2>4. a \in Nat /\ b \in Nat
      BY <2>3
    <2>5. a < b
      <3>1. CASE b < a
        <4>1. j + 2 * part <= i
          BY <2>1, <2>2, <2>3, <2>4, <3>1, Multiples
        <4> QED
          BY <1>2, <2>3, <4>1
      <3>2. CASE a = b
        BY <1>2, <2>1, <2>2, <2>3, <3>2
      <3> QED
        BY <2>4, <3>1, <3>2
    <2>6. i + 2 * part <= j
      BY <2>1, <2>2, <2>3, <2>4, <2>5, Multiples
    <2>7. Size1(i) \in 1 .. part /\ Size2(i) \in 0 .. part
          /\ Size1(j) \in 1 .. part /\ Size2(j) \in 0 .. part
      BY <2>3, Sizes
    <2> QED
      BY <2>3, <2>6, <2>7 DEF Output
  <1>3. \A i, j \in Starts : i # j => i < j \/ j < i
    BY DEF Starts, Cells
  <1> QED
    BY <1>1, <1>2, <1>3 DEF NoRace

\* The parallel merges of a round have outputs apart from each other.
THEOREM RaceFree == Spec => []NoRace
  <1>1. IInv => NoRace
    BY Disjoint DEF IInv
  <1> QED
    BY Invariance, <1>1, PTL

\* The rounds of main are sound, for any number of elements, contents and place of
\* the buffers: the two theorems before this one together.
THEOREM RoundsAlwaysSound == Spec => []RoundsSound
  <1>1. IInv /\ NoRace => RoundsSound
    BY DEF RoundsSound
  <1> QED
    BY Invariance, RaceFree, <1>1, PTL

-----------------------------------------------------------------------------
(* The numbers of main.                                                     *)

\* The sizes of the parts in full; only a part that is not cut has a second one.
LEMMA SizeValues ==
  ASSUME Types, NEW i \in Cells
  PROVE  /\ i \in Nat /\ i < N /\ N \in Nat /\ part \in Nat /\ part > 0
         /\ Size1(i) = IF N - i < part THEN N - i ELSE part
         /\ Size2(i) = IF N - i < part THEN 0
                       ELSE IF N - i - part < part THEN N - i - part ELSE part
         /\ Size1(i) + Size2(i) = IF N - i < 2 * part THEN N - i ELSE 2 * part
         /\ Size2(i) > 0 => Size1(i) = part
  <1>1. i \in Nat /\ i < N /\ N \in Nat /\ part \in Nat /\ part > 0
    BY SortAssumption DEF Types, Cells
  <1>2. Size1(i) = IF N - i < part THEN N - i ELSE part
    BY DEF Size1, Cut
  <1>3. Size2(i) = IF N - i < part THEN 0
                   ELSE IF N - i - part < part THEN N - i - part ELSE part
    BY <1>1 DEF Size2, Cut, Rest
  <1>4. Size2(i) > 0 => Size1(i) = part
    BY <1>1, <1>2, <1>3
  <1>5. Size1(i) + Size2(i) = IF N - i < 2 * part THEN N - i ELSE 2 * part
    BY <1>1, <1>2, <1>3
  <1> QED
    BY <1>1, <1>2, <1>3, <1>4, <1>5

\* While the size of the parts stays, the parts do.
LEMMA SameParts ==
  ASSUME part' = part
  PROVE  /\ Starts' = Starts
         /\ \A j \in Cells : /\ Size1(j)' = Size1(j) /\ Size2(j)' = Size2(j)
                             /\ End1(j)' = End1(j) /\ End2(j)' = End2(j)
                             /\ Begin2(j)' = Begin2(j)
BY DEF Starts, Size1, Size2, End1, End2, Begin2, Cut, Rest

\* What main fills the buffer with is in order in parts of one element.
LEMMA InitOrder ==
  ASSUME Inputs = {OwnInput}, Init
  PROVE  InOrder
  <1>1. Types /\ IInv
    BY InitInv DEF IInv
  <1>2. part = 1 /\ cur = 0 /\ buf[cur] = OwnInput
    BY DEF Init
  <1>3. \A x \in Cells : buf[cur][x] = N - x
    BY <1>2 DEF OwnInput
  <1>4. ASSUME NEW i \in Starts
        PROVE  /\ Row(buf[cur], i, Size1(i), Size1(i))
               /\ Row(buf[cur], Begin2(i), Size2(i), Size2(i))
    <2>1. i \in Cells
      BY DEF Starts
    <2>2. /\ i \in Nat /\ i < N /\ N \in Nat /\ Size1(i) = 1
          /\ Size2(i) = 0 \/ (Size2(i) = 1 /\ i + 1 < N)
      BY <1>1, <1>2, <2>1, SizeValues
    <2>3. Begin2(i) = i + 1
      BY <1>2 DEF Begin2
    <2>4. Row(buf[cur], i, Size1(i), Size1(i))
      BY <1>3, <2>1, <2>2 DEF Row
    <2>5. CASE Size2(i) = 0
      BY <2>2, <2>3, <2>4, <2>5 DEF Row
    <2>6. CASE Size2(i) = 1 /\ i + 1 < N
      <3>1. i + 1 \in Cells
        BY <2>2, <2>6 DEF Cells
      <3> QED
        BY <1>3, <2>2, <2>3, <2>4, <2>6, <3>1 DEF Row
    <2> QED
      BY <2>2, <2>5, <2>6
  <1>5. \A i \in Starts : task[i].state = "wait"
    BY DEF Init, Starts, Idle
  <1> QED
    BY <1>4, <1>5 DEF InOrder, PartsInOrder, MergesInOrder

\* A cell is written in the buffer of the round and nowhere else.
LEMMA Written ==
  ASSUME Types, NEW r \in Cells, NEW v \in Int,
         buf' = [b \in {0, 1} |-> IF b = Target THEN [buf[b] EXCEPT ![r] = v] ELSE buf[b]]
  PROVE  /\ buf'[cur] = buf[cur]
         /\ buf'[Target][r] = v
         /\ \A x \in Cells : x # r => buf'[Target][x] = buf[Target][x]
  <1>1. cur \in {0, 1} /\ Target \in {0, 1} /\ cur # Target
    BY DEF Types, Target
  <1>2. buf[Target] \in [Cells -> Int]
    BY <1>1 DEF Types
  <1>3. buf'[Target] = [buf[Target] EXCEPT ![r] = v] /\ buf'[cur] = buf[cur]
    BY <1>1
  <1> QED
    BY <1>2, <1>3

\* The element that a merge copies is the one that belongs into the cell: it takes
\* the second part first, and the first one after it.
LEMMA Taken ==
  ASSUME IInv, InOrder, NEW i \in Starts, task[i].state = "merge",
         Takes1(i) \/ Takes2(i)
  PROVE  LET k == task[i]
             size == Size1(i) + Size2(i)
             x == IF Takes1(i) THEN k.i1 ELSE k.i2
         IN /\ x \in Cells
            /\ k.r \in i .. i + size - 1
            /\ buf[cur][x] = k.r + (N - 2 * i - size) + 1
            /\ Takes1(i) => k.i2 = End2(i)
            /\ ~Takes1(i) => k.i1 = i
  <1> DEFINE k == task[i]
             s1 == Size1(i)
             s2 == Size2(i)
  <1>1. i \in Cells /\ Types /\ InParts(i) /\ k \in Task
    BY DEF Starts, IInv, InBounds, Types
  <1>2. /\ i \in Nat /\ i < N /\ N \in Nat /\ part \in Nat /\ part > 0
        /\ s1 \in Nat /\ s2 \in Nat /\ s1 > 0 /\ s1 <= part /\ s2 <= part
        /\ i + s1 + s2 <= N
        /\ s2 > 0 => s1 = part /\ i + part + s2 <= N
        /\ End1(i) = i + s1 /\ Begin2(i) = i + part /\ End2(i) = i + part + s2
    BY <1>1, Sizes, SizeValues
  <1>3. k.i1 \in Nat /\ k.i2 \in Nat /\ k.r \in Nat
    BY <1>1, TaskFields
  <1>4. /\ i <= k.i1 /\ k.i1 <= i + s1
        /\ i + part <= k.i2 /\ k.i2 <= i + part + s2
        /\ k.r - i = (k.i1 - i) + (k.i2 - (i + part))
    BY <1>1, <1>2, <1>3 DEF InParts
  <1>5. Row(buf[cur], i, s1, s1) /\ Row(buf[cur], i + part, s2, s2)
    BY <1>2 DEF InOrder, PartsInOrder
  <1>6. k.i1 > i => k.i2 = i + part + s2
    BY <1>2 DEF InOrder, MergesInOrder
  <1>7. (Takes1(i) /\ k.i1 < i + s1) \/ (~Takes1(i) /\ k.i2 < i + part + s2)
    BY <1>1, <1>2, Taking
  <1>8. k.i1 < i + s1 => k.i1 \in Cells /\ buf[cur][k.i1] = k.i1 + (N - 2 * i - s1) + 1
    <2>1. k.i1 < i + s1 => k.i1 \in Cells /\ k.i1 \in i .. i + s1 - 1
      BY <1>2, <1>3, <1>4 DEF Cells
    <2> QED
      BY <1>5, <2>1 DEF Row
  <1>9. k.i2 < i + part + s2 =>
          k.i2 \in Cells /\ buf[cur][k.i2] = k.i2 + (N - 2 * (i + part) - s2) + 1
    <2>1. k.i2 < i + part + s2 => k.i2 \in Cells /\ k.i2 \in i + part .. i + part + s2 - 1
      BY <1>2, <1>3, <1>4 DEF Cells
    <2> QED
      BY <1>5, <2>1 DEF Row
  <1>10. CASE Takes1(i) /\ k.i1 < i + s1
    <2>1. k.i2 = i + part + s2
      <3>1. SUFFICES ASSUME k.i2 < i + part + s2 PROVE FALSE
        BY <1>2, <1>3, <1>4
      <3>2. k.i1 = i /\ s2 > 0 /\ s1 = part
        BY <1>2, <1>3, <1>4, <1>6, <3>1
      <3>3. buf[cur][k.i1] <= buf[cur][k.i2]
        BY <1>2, <1>10, <3>1 DEF Takes1, Leads
      <3>4. buf[cur][k.i1] = N - i - part + 1
        BY <1>2, <1>8, <3>2
      <3>5. buf[cur][k.i2] <= N - i - part
        BY <1>2, <1>3, <1>9, <3>1
      <3> HIDE DEF k, s1, s2
      <3> QED
        BY <1>2, <1>3, <1>9, <3>1, <3>3, <3>4, <3>5
    <2>2. k.r = k.i1 + s2
      <3> HIDE DEF k, s1, s2
      <3>1. k.i2 - (i + part) = s2
        BY <1>2, <2>1
      <3>2. k.r - i = (k.i1 - i) + s2
        BY <1>4, <3>1
      <3> QED
        BY <1>2, <1>3, <3>2
    <2>3. k.r \in i .. i + (s1 + s2) - 1
      BY <1>2, <1>3, <1>4, <1>10, <2>2
    <2>4. buf[cur][k.i1] = k.r + (N - 2 * i - (s1 + s2)) + 1
      BY <1>2, <1>3, <1>8, <1>10, <2>2
    <2> QED
      BY <1>2, <1>8, <1>10, <2>1, <2>3, <2>4
  <1>11. CASE ~Takes1(i) /\ k.i2 < i + part + s2
    <2>1. k.i1 = i
      BY <1>2, <1>3, <1>4, <1>6, <1>11
    <2>2. s1 = part
      BY <1>2, <1>3, <1>4, <1>11
    <2>3. k.r = k.i2 - part
      BY <1>2, <1>3, <1>4, <2>1
    <2>4. k.r \in i .. i + (s1 + s2) - 1
      BY <1>2, <1>3, <1>4, <1>11, <2>2, <2>3
    <2>5. buf[cur][k.i2] = k.r + (N - 2 * i - (s1 + s2)) + 1
      BY <1>2, <1>3, <1>9, <1>11, <2>2, <2>3
    <2> QED
      BY <1>9, <1>11, <2>1, <2>4, <2>5
  <1> QED
    BY <1>7, <1>10, <1>11

\* A merge writes no more than its parts have.
LEMMA Filled ==
  ASSUME IInv, NEW i \in Starts, task[i].state \in {"merge", "done"}
  PROVE  task[i].r \in Nat /\ task[i].r - i <= Size1(i) + Size2(i)
  <1> DEFINE k == task[i]
             s1 == Size1(i)
             s2 == Size2(i)
  <1>1. i \in Cells /\ Types /\ InParts(i) /\ k \in Task
    BY DEF Starts, IInv, InBounds, Types
  <1>2. k.i1 \in Nat /\ k.i2 \in Nat /\ k.r \in Nat
    BY <1>1, TaskFields
  <1>3. /\ i \in Nat /\ s1 \in Nat /\ s2 \in Nat /\ part \in Nat
        /\ End1(i) = i + s1 /\ Begin2(i) = i + part /\ End2(i) = i + part + s2
    BY <1>1, Sizes, SizeValues
  <1>4. k.i1 <= i + s1 /\ k.i2 <= i + part + s2 /\ k.r - i = (k.i1 - i) + (k.i2 - (i + part))
    BY <1>1, <1>2, <1>3 DEF InParts
  <1> HIDE DEF k, s1, s2
  <1>5. k.r - i <= s1 + s2
    BY <1>2, <1>3, <1>4
  <1> QED
    BY <1>2, <1>5 DEF k, s1, s2

\* A copied element brings the row of its merge one cell further, in order.
LEMMA CopyOrder ==
  ASSUME IInv, InOrder, NEW i \in Cells, Copy(i)
  PROVE  InOrder'
  <1> DEFINE k == task[i]
             size == Size1(i) + Size2(i)
             x == IF Takes1(i) THEN k.i1 ELSE k.i2
             v == buf[cur][x]
  <1>1. /\ i \in Starts /\ k.state = "merge" /\ (Takes1(i) \/ Takes2(i))
        /\ base' = base /\ cur' = cur /\ part' = part
    BY DEF Copy
  <1>2. /\ x \in Cells /\ k.r \in i .. i + size - 1
        /\ v = k.r + (N - 2 * i - size) + 1
        /\ Takes1(i) => k.i2 = End2(i)
        /\ ~Takes1(i) => k.i1 = i
    BY <1>1, Taken
  <1>3. buf' = [b \in {0, 1} |-> IF b = Target THEN [buf[b] EXCEPT ![k.r] = v] ELSE buf[b]]
    BY DEF Copy
  <1>4. /\ i \in Nat /\ N \in Nat /\ size \in Nat /\ i + size <= N
        /\ k \in Task /\ k.r \in Nat /\ k.i1 \in Nat /\ k.i2 \in Nat
    <2>1. i \in Nat /\ N \in Nat /\ Size1(i) \in Nat /\ Size2(i) \in Nat
      BY Sizes, SizeValues DEF IInv
    <2>2. i + size <= N
      BY Sizes, <2>1 DEF IInv
    <2>3. k \in Task
      BY DEF IInv, Types
    <2> QED
      BY <2>1, <2>2, <2>3, TaskFields
  <1>5. k.r \in Cells /\ v \in Int
    <2>1. buf[cur] \in [Cells -> Int]
      BY DEF IInv, Types
    <2>2. k.r \in Cells
      BY <1>2, <1>4 DEF Cells
    <2> HIDE DEF x
    <2> QED
      BY <1>2, <2>1, <2>2
  <1>6. Target' = Target /\ buf'[cur] = buf[cur] /\ buf'[Target][k.r] = v
        /\ \A y \in Cells : y # k.r => buf'[Target][y] = buf[Target][y]
    <2>1. Types
      BY DEF IInv
    <2> HIDE DEF v, k
    <2> QED
      BY <1>1, <1>3, <1>5, <2>1, Written DEF Target
  <1>7. /\ Starts' = Starts /\ Starts \subseteq Cells
        /\ \A j \in Cells : /\ Size1(j)' = Size1(j) /\ Size2(j)' = Size2(j)
                            /\ End2(j)' = End2(j) /\ Begin2(j)' = Begin2(j)
    BY <1>1, SameParts DEF Starts
  <1>8. PartsInOrder'
    BY <1>1, <1>6, <1>7 DEF InOrder, PartsInOrder, Row
  <1>9. task'[i].state = "merge" /\ task'[i].r = k.r + 1
        /\ (Takes1(i) => task'[i].i2 = k.i2) /\ (~Takes1(i) => task'[i].i1 = k.i1)
        /\ \A j \in Cells : j # i => task'[j] = task[j]
    <2>1. task \in [Cells -> Task]
      BY DEF IInv, Types
    <2>2. CASE Takes1(i)
      <3>1. task' = [task EXCEPT ![i] = [state |-> "merge", i1 |-> k.i1 + 1,
                                         i2 |-> k.i2 + 0, r |-> k.r + 1]]
        BY <2>2 DEF Copy
      <3> QED
        BY <1>4, <2>1, <2>2, <3>1
    <2>3. CASE ~Takes1(i)
      <3>1. task' = [task EXCEPT ![i] = [state |-> "merge", i1 |-> k.i1 + 0,
                                         i2 |-> k.i2 + 1, r |-> k.r + 1]]
        BY <2>3 DEF Copy
      <3> QED
        BY <1>4, <2>1, <2>3, <3>1
    <2> QED
      BY <2>2, <2>3
  <1>10. Row(buf'[Target], i, size, task'[i].r - i)
    <2>1. Row(buf[Target], i, size, k.r - i)
      BY <1>1 DEF InOrder, MergesInOrder
    <2>2. ASSUME NEW y \in i .. i + (k.r + 1 - i) - 1
          PROVE  buf'[Target][y] = y + (N - 2 * i - size) + 1
      <3> HIDE DEF k, size, v
      <3>1. y \in Cells /\ (y = k.r \/ y \in i .. i + (k.r - i) - 1)
        BY <1>2, <1>4 DEF Cells
      <3>2. CASE y = k.r
        BY <1>2, <1>6, <3>2
      <3>3. CASE y # k.r
        BY <1>6, <2>1, <3>1, <3>3 DEF Row
      <3> QED
        BY <3>2, <3>3
    <2> HIDE DEF k, size, v, x
    <2>3. task'[i].r - i = k.r + 1 - i
      BY <1>4, <1>9
    <2> QED
      BY <2>2, <2>3 DEF Row
  <1>11. task'[i].i1 > i => task'[i].i2 = End2(i)
    <2>1. CASE Takes1(i)
      BY <1>2, <1>9, <2>1
    <2>2. CASE ~Takes1(i)
      BY <1>2, <1>4, <1>9, <2>2
    <2> QED
      BY <2>1, <2>2
  <1>12. ASSUME NEW j \in Starts, j # i, task[j].state \in {"merge", "done"}
         PROVE  Row(buf'[Target], j, Size1(j) + Size2(j), task[j].r - j)
    <2> DEFINE m == Size1(j) + Size2(j)
    <2>1. Row(buf[Target], j, m, task[j].r - j)
      BY <1>12 DEF InOrder, MergesInOrder
    <2>2. /\ j \in Cells /\ j \in Nat /\ m \in Nat /\ j + m <= N
          /\ Output(i) = i .. i + size - 1 /\ Output(j) = j .. j + m - 1
      <3>1. j \in Cells
        BY DEF Starts
      <3>2. j \in Nat /\ Size1(j) \in Nat /\ Size2(j) \in Nat
        BY <3>1, Sizes, SizeValues DEF IInv
      <3>3. j + Size1(j) + Size2(j) <= N
        BY <3>1, Sizes DEF IInv
      <3>4. Output(j) = j .. j + m - 1
        BY <3>2 DEF Output
      <3>5. Output(i) = i .. i + size - 1
        <4>1. Size1(i) \in Nat /\ Size2(i) \in Nat
          BY Sizes, SizeValues DEF IInv
        <4> QED
          BY <1>4, <4>1 DEF Output
      <3>6. m \in Nat /\ j + m <= N
        BY <1>4, <3>2, <3>3
      <3> QED
        BY <3>1, <3>2, <3>4, <3>5, <3>6
    <2>3. task[j].r \in Nat /\ task[j].r - j <= m
      BY <1>12, <2>2, Filled
    <2>4. Output(i) \cap Output(j) = {}
      BY <1>1, <1>12, Disjoint DEF IInv, NoRace
    <2>5. k.r \notin j .. j + m - 1
      BY <1>2, <2>2, <2>4
    <2>6. ASSUME NEW y \in j .. j + (task[j].r - j) - 1
          PROVE  y \in Cells /\ y # k.r
      <3>1. y \in j .. j + m - 1 /\ y \in 0 .. N - 1
        <4> HIDE DEF m
        <4>1. y \in Int /\ j <= y /\ y < j + (task[j].r - j)
          BY <2>2, <2>3, <2>6
        <4>2. y < j + m
          BY <2>2, <2>3, <4>1
        <4> QED
          BY <1>4, <2>2, <4>1, <4>2
      <3> QED
        BY <2>5, <3>1 DEF Cells
    <2> QED
      BY <1>6, <2>1, <2>6 DEF Row
  <1>13. MergesInOrder'
    <2>1. ASSUME NEW j \in Starts, task'[j].state \in {"merge", "done"}
          PROVE  /\ Row(buf'[Target], j, Size1(j) + Size2(j), task'[j].r - j)
                 /\ task'[j].i1 > j => task'[j].i2 = End2(j)
                 /\ task'[j].state = "done" => task'[j].r = j + Size1(j) + Size2(j)
      <3>1. CASE j = i
        BY <1>9, <1>10, <1>11, <3>1
      <3>2. CASE j # i
        <4>1. task'[j] = task[j]
          BY <1>7, <1>9, <3>2
        <4> QED
          BY <1>12, <2>1, <3>2, <4>1 DEF InOrder, MergesInOrder
      <3> QED
        BY <3>1, <3>2
    <2>2. \A j \in Starts : /\ Size1(j)' = Size1(j) /\ Size2(j)' = Size2(j)
                            /\ End2(j)' = End2(j)
      BY <1>7
    <2>3. \A j \in Starts :
            Row(buf'[Target], j, Size1(j) + Size2(j), task'[j].r - j)
              = Row(buf'[Target'], j, Size1(j)' + Size2(j)', task'[j].r - j)
      BY <1>6, <2>2
    <2> QED
      BY <1>7, <2>1, <2>2, <2>3 DEF MergesInOrder, Row
  <1> QED
    BY <1>8, <1>13 DEF InOrder

\* A multiple is no less than its factor.
LEMMA AtLeast ==
  ASSUME NEW a \in Nat, NEW d \in Nat, d > 0
  PROVE  a <= a * d
  <1>1. CASE a = 0
    BY <1>1
  <1>2. CASE a > 0
    <2>1. PICK e \in Nat : d = e + 1
      <3>1. d - 1 \in Nat /\ d = (d - 1) + 1
        OBVIOUS
      <3> QED
        BY <3>1
    <2>2. a * (e + 1) = a * e + a /\ a * e \in Nat
      OBVIOUS
    <2> QED
      BY <2>1, <2>2
  <1> QED
    BY <1>1, <1>2

\* After a round the parts of the next are the outputs of its merges, which are
\* complete and in order.
LEMMA RoundOrder ==
  ASSUME IInv, InOrder, NextRound
  PROVE  InOrder'
  <1>1. /\ cur' = Target /\ part' = 2 * part /\ buf' = buf
        /\ \A i \in Starts : task[i].state = "done"
        /\ \A i \in Cells : task'[i].state = "wait"
    BY DEF NextRound, Doubled, Idle
  <1>2. Types /\ part \in Nat /\ part > 0 /\ N \in Nat
    BY SortAssumption DEF IInv, Types
  <1>3. \A i \in Starts : Row(buf[Target], i, Size1(i) + Size2(i), Size1(i) + Size2(i))
    <2>1. ASSUME NEW i \in Starts
          PROVE  Row(buf[Target], i, Size1(i) + Size2(i), Size1(i) + Size2(i))
      <3>1. /\ Row(buf[Target], i, Size1(i) + Size2(i), task[i].r - i)
            /\ task[i].r = i + Size1(i) + Size2(i)
        BY <1>1 DEF InOrder, MergesInOrder
      <3>2. i \in Nat /\ Size1(i) \in Nat /\ Size2(i) \in Nat
        BY <1>2, Sizes, SizeValues DEF Starts
      <3>3. task[i].r - i = Size1(i) + Size2(i)
        BY <3>1, <3>2
      <3> QED
        BY <3>1, <3>3
    <2> QED
      BY <2>1
  <1>4. ASSUME NEW i \in Starts'
        PROVE  /\ Row(buf'[cur'], i, Size1(i)', Size1(i)')
               /\ Row(buf'[cur'], Begin2(i)', Size2(i)', Size2(i)')
    <2> DEFINE j == i + 2 * part
    <2>1. PICK k \in 0 .. i : i = k * (2 * (2 * part))
      BY <1>1 DEF Starts
    <2>2. i \in Cells /\ i \in Nat /\ i < N
      BY <1>2 DEF Starts, Cells
    <2>3. /\ k \in Nat /\ 2 * part \in Nat /\ 2 * part > 0
          /\ (2 * k) * (2 * part) = i /\ (2 * k + 1) * (2 * part) = j
      <3>1. k \in Nat
        BY <2>2
      <3> QED
        BY <1>2, <2>1, <3>1
    <2>4. 2 * k <= i /\ 2 * k + 1 <= j
      BY <1>2, <2>3, AtLeast
    <2>5. i \in Starts
      BY <2>2, <2>3, <2>4 DEF Starts
    <2>6. j \in Nat /\ (j < N => j \in Starts)
      <3>1. j \in Nat
        BY <1>2, <2>2
      <3>2. ASSUME j < N PROVE j \in Starts
        <4>1. j \in Cells /\ 2 * k + 1 \in 0 .. j
          BY <1>2, <2>3, <2>4, <3>1, <3>2 DEF Cells
        <4> QED
          BY <2>3, <4>1 DEF Starts
      <3> QED
        BY <3>1, <3>2
    <2>7. /\ Size1(i)' = IF N - i < 2 * part THEN N - i ELSE 2 * part
          /\ Size2(i)' = IF N - i < 2 * part THEN 0
                         ELSE IF N - j < 2 * part THEN N - j ELSE 2 * part
          /\ Begin2(i)' = j
      <3>1. Size1(i)' = IF N - i < 2 * part THEN N - i ELSE 2 * part
        BY <1>1 DEF Size1, Cut
      <3>2. Begin2(i)' = j
        BY <1>1 DEF Begin2
      <3>3. Rest(i)' = IF N - i < 2 * part THEN 0 ELSE N - j
        BY <1>1, <1>2, <2>2 DEF Rest
      <3>4. Size2(i)' = IF Rest(i)' < 2 * part THEN Rest(i)' ELSE 2 * part
        BY <1>1 DEF Size2, Cut
      <3> QED
        BY <1>2, <2>2, <2>6, <3>1, <3>2, <3>3, <3>4
    <2>8. Size1(i)' = Size1(i) + Size2(i)
      BY <1>2, <2>2, <2>7, SizeValues
    <2> HIDE DEF j
    <2>9. Row(buf'[cur'], i, Size1(i)', Size1(i)')
      BY <1>1, <1>3, <2>5, <2>8
    <2>10. CASE j < N
      <3>1. j \in Starts /\ j \in Cells
        BY <2>6, <2>10 DEF Starts
      <3>2. N - i >= 2 * part
        BY <1>2, <2>2, <2>10 DEF j
      <3>3. Size2(i)' = IF N - j < 2 * part THEN N - j ELSE 2 * part
        BY <1>2, <2>2, <2>7, <3>2
      <3>4. Size2(i)' = Size1(j) + Size2(j)
        BY <1>2, <3>1, <3>3, SizeValues
      <3>5. Row(buf[Target], j, Size2(i)', Size2(i)')
        BY <1>3, <3>1, <3>4
      <3> QED
        BY <1>1, <2>7, <2>9, <3>5
    <2>11. CASE ~(j < N)
      <3>1. Size2(i)' = 0
        <4>1. CASE N - i < 2 * part
          BY <2>7, <4>1
        <4>2. CASE ~(N - i < 2 * part)
          <5>1. N - j = 0
            BY <1>2, <2>2, <2>11, <4>2 DEF j
          <5> QED
            BY <1>2, <2>7, <4>2, <5>1
        <4> QED
          BY <4>1, <4>2
      <3>2. Row(buf'[cur'], j, 0, 0)
        BY <2>6 DEF Row
      <3> QED
        BY <2>7, <2>9, <3>1, <3>2
    <2> QED
      BY <2>10, <2>11
  <1>5. PartsInOrder'
    BY <1>4 DEF PartsInOrder, Row
  <1>6. MergesInOrder'
    BY <1>1 DEF MergesInOrder, Starts
  <1> QED
    BY <1>5, <1>6 DEF InOrder

\* The rows stay in order in every step of main's rounds.
LEMMA NextOrder == IInv /\ InOrder /\ [Next]_vars => InOrder'
  <1> SUFFICES ASSUME IInv, InOrder, [Next]_vars PROVE InOrder'
    OBVIOUS
  <1>1. ASSUME NEW i \in Cells, NEW t, task' = [task EXCEPT ![i] = t],
               buf' = buf, cur' = cur, part' = part,
               i \in Starts /\ t.state \in {"merge", "done"} =>
                 /\ Row(buf[Target], i, Size1(i) + Size2(i), t.r - i)
                 /\ t.i1 > i => t.i2 = End2(i)
                 /\ t.state = "done" => t.r = i + Size1(i) + Size2(i)
        PROVE  InOrder'
    <2>1. /\ Starts' = Starts /\ Target' = Target /\ Starts \subseteq Cells
          /\ \A j \in Cells : /\ Size1(j)' = Size1(j) /\ Size2(j)' = Size2(j)
                              /\ End2(j)' = End2(j) /\ Begin2(j)' = Begin2(j)
      BY <1>1, SameParts DEF Starts, Target
    <2>2. PartsInOrder'
      BY <1>1, <2>1 DEF InOrder, PartsInOrder, Row
    <2>3. task'[i] = t /\ \A j \in Cells : j # i => task'[j] = task[j]
      BY <1>1 DEF IInv, Types
    <2>4. ASSUME NEW j \in Starts, task'[j].state \in {"merge", "done"}
          PROVE  /\ Row(buf[Target], j, Size1(j) + Size2(j), task'[j].r - j)
                 /\ task'[j].i1 > j => task'[j].i2 = End2(j)
                 /\ task'[j].state = "done" => task'[j].r = j + Size1(j) + Size2(j)
      <3>1. CASE j = i
        BY <1>1, <2>3, <2>4, <3>1
      <3>2. CASE j # i
        <4>1. task'[j] = task[j]
          BY <2>1, <2>3, <3>2
        <4> QED
          BY <2>4, <4>1 DEF InOrder, MergesInOrder
      <3> QED
        BY <3>1, <3>2
    <2>5. \A j \in Starts : /\ Size1(j)' = Size1(j) /\ Size2(j)' = Size2(j)
                            /\ End2(j)' = End2(j)
      BY <2>1
    <2>6. \A j \in Starts :
            Row(buf[Target], j, Size1(j) + Size2(j), task'[j].r - j)
              = Row(buf'[Target'], j, Size1(j)' + Size2(j)', task'[j].r - j)
      BY <1>1, <2>1, <2>5
    <2>7. MergesInOrder'
      BY <2>1, <2>4, <2>5, <2>6 DEF MergesInOrder, Row
    <2> QED
      BY <2>2, <2>7 DEF InOrder
  <1>2. ASSUME NEW i \in Cells, MergeBegin(i) PROVE InOrder'
    <2> DEFINE t == [state |-> "merge", i1 |-> i, i2 |-> Begin2(i), r |-> i]
    <2>1. task' = [task EXCEPT ![i] = t] /\ buf' = buf /\ cur' = cur /\ part' = part
      BY <1>2, NotRefused DEF IInv, MergeBegin
    <2>2. i \in Nat
      BY SizeValues DEF IInv
    <2>3. Row(buf[Target], i, Size1(i) + Size2(i), t.r - i) /\ ~(t.i1 > i)
      BY <2>2 DEF Row
    <2>4. t.state = "merge"
      OBVIOUS
    <2> HIDE DEF t
    <2> QED
      BY <1>1, <2>1, <2>3, <2>4
  <1>3. ASSUME NEW i \in Cells, Copy(i) PROVE InOrder'
    BY <1>3, CopyOrder
  <1>4. ASSUME NEW i \in Cells, MergeEnd(i) PROVE InOrder'
    <2> DEFINE k == task[i]
               t == [state |-> "done", i1 |-> k.i1, i2 |-> k.i2, r |-> k.r]
    <2>1. task' = [task EXCEPT ![i] = t] /\ buf' = buf /\ cur' = cur /\ part' = part
      BY <1>4 DEF MergeEnd
    <2>2. i \in Starts /\ k.state = "merge" /\ ~Takes1(i) /\ ~Takes2(i)
      BY <1>4 DEF MergeEnd
    <2>3. /\ Row(buf[Target], i, Size1(i) + Size2(i), k.r - i)
          /\ k.i1 > i => k.i2 = End2(i)
      BY <2>2 DEF InOrder, MergesInOrder
    <2>4. k.r = i + Size1(i) + Size2(i)
      <3>1. Types /\ InParts(i) /\ k \in Task
        BY <2>2 DEF IInv, InBounds, Types
      <3>2. k.i1 \in Nat /\ k.i2 \in Nat /\ k.r \in Nat
        BY <3>1, TaskFields
      <3>3. /\ i \in Nat /\ part \in Nat /\ Size1(i) \in Nat /\ Size1(i) > 0 /\ Size2(i) \in Nat
            /\ End1(i) = i + Size1(i) /\ Begin2(i) = i + part /\ End2(i) = i + part + Size2(i)
        BY <3>1, Sizes, SizeValues
      <3>4. ~(k.i1 < End1(i))
        BY <2>2 DEF Takes1, Takes2
      <3>5. k.i1 = i + Size1(i) /\ k.r - i = (k.i1 - i) + (k.i2 - (i + part))
        BY <3>1, <3>2, <3>3, <3>4 DEF InParts
      <3> HIDE DEF k
      <3>6. k.i2 = i + part + Size2(i)
        BY <2>3, <3>2, <3>3, <3>5
      <3> QED
        BY <3>2, <3>3, <3>5, <3>6
    <2>5. t.state = "done" /\ t.i1 = k.i1 /\ t.i2 = k.i2 /\ t.r = k.r
      OBVIOUS
    <2> HIDE DEF t, k
    <2> QED
      BY <1>1, <2>1, <2>3, <2>4, <2>5
  <1>5. CASE NextRound
    BY <1>5, RoundOrder
  <1>6. CASE UNCHANGED vars
    BY <1>6 DEF vars, InOrder, PartsInOrder, MergesInOrder, Row, Starts, Target,
                Size1, Size2, End2, Begin2, Cut, Rest
  <1> QED
    BY <1>2, <1>3, <1>4, <1>5, <1>6 DEF Next

\* In every state of the sort the parts and the outputs are in order, so that a merge
\* never has anything left of its second part: for every number of elements.
THEOREM AlwaysInOrder ==
  ASSUME Inputs = {OwnInput}
  PROVE  Spec => []InOrder
  <1>1. Init => InOrder
    BY InitOrder
  <1> QED
    BY <1>1, InitInv, NextInv, NextOrder, PTL DEF Spec

\* The sort of main is right for every number of elements: where its loop ends, each
\* number is in its place, and main prints "Right".
THEOREM MainIsRight ==
  ASSUME Inputs = {OwnInput}
  PROVE  Spec => []RightAtTheEnd
  <1>1. IInv /\ InOrder => RightAtTheEnd
    <2> SUFFICES ASSUME IInv, InOrder, ~Running, NEW x \in Cells PROVE buf[cur][x] = x + 1
      BY DEF RightAtTheEnd
    <2>1. N \in Nat /\ N > 0 /\ 0 \in Cells /\ part \in Nat /\ ~(part < N)
      BY SortAssumption DEF IInv, Types, Running, Cells
    <2>2. 0 \in Starts
      BY <2>1 DEF Starts
    <2>3. Row(buf[cur], 0, Size1(0), Size1(0))
      BY <2>2 DEF InOrder, PartsInOrder
    <2>4. Size1(0) = N
      BY <2>1, SizeValues DEF IInv
    <2>5. x \in 0 .. 0 + N - 1 /\ x \in Nat
      BY <2>1 DEF Cells
    <2>6. buf[cur][x] = x + (N - 2 * 0 - N) + 1
      BY <2>3, <2>4, <2>5 DEF Row
    <2> QED
      BY <2>1, <2>5, <2>6
  <1> QED
    BY <1>1, Invariance, AlwaysInOrder, PTL

\* The numbers of main get into order round by round and are when its loop ends, for
\* every number of elements.
THEOREM MainSorts ==
  ASSUME Inputs = {OwnInput}
  PROVE  Spec => []NumbersSorted
  <1>1. InOrder /\ RightAtTheEnd => NumbersSorted
    BY DEF NumbersSorted
  <1> QED
    BY AlwaysInOrder, MainIsRight, <1>1, PTL

-----------------------------------------------------------------------------
(* Arithmetic.                                                              *)

\* Division with remainder.
LEMMA DivMod ==
  ASSUME NEW a \in Nat, NEW d \in Positive
  PROVE  /\ a \div d \in Nat /\ a % d \in 0 .. d - 1
         /\ a = (a \div d) * d + (a % d)
BY DEF Positive

\* The order of products is the order of their factors.
LEMMA Factors ==
  ASSUME NEW x \in Int, NEW y \in Int, NEW d \in Positive, x * d < y * d
  PROVE  x < y
BY DEF Positive

LEMMA Products ==
  ASSUME NEW x \in Int, NEW y \in Int, NEW d \in Nat, x <= y
  PROVE  x * d <= y * d
OBVIOUS

\* A number has one quotient and one remainder.
LEMMA OneOwner ==
  ASSUME NEW d \in Positive, NEW q \in Nat, NEW p \in Nat,
         NEW r \in 0 .. d - 1, NEW s \in 0 .. d - 1, q * d + r = p * d + s
  PROVE  q = p /\ r = s
<1>1. ASSUME NEW x \in Nat, NEW y \in Nat, NEW a \in 0 .. d - 1, NEW b \in 0 .. d - 1,
             x * d + a = y * d + b
      PROVE  ~(x < y)
  <2>1. SUFFICES ASSUME x < y PROVE FALSE
    OBVIOUS
  <2>2. (x + 1) * d <= y * d
    BY <2>1, Products DEF Positive
  <2>3. (x + 1) * d = x * d + d
    BY DEF Positive
  <2> QED
    BY <1>1, <2>2, <2>3 DEF Positive
<1>2. ~(q < p) /\ ~(p < q)
  BY <1>1
<1>3. q = p
  BY <1>2
<1>4. q * d \in Nat /\ r \in Int /\ s \in Int
  BY DEF Positive
<1> QED
  BY <1>3, <1>4

-----------------------------------------------------------------------------
(* Shares: each index and each term has one owner.                          *)

\* Every term of the sum is computed by one rank in one of its turns, and a rank has
\* no other terms: main of mpi_exp.cpp, for every number of ranks and turns.
THEOREM TermsOnce ==
  ASSUME NEW s \in Positive, NEW n \in Positive
  PROVE  /\ \A k \in 0 .. s - 1, i \in 0 .. n - 1 : Multiplier(s, k, i) \in 0 .. n * s - 1
         /\ \A m \in 0 .. n * s - 1 : \E k \in 0 .. s - 1, i \in 0 .. n - 1 :
              /\ Multiplier(s, k, i) = m
              /\ \A l \in 0 .. s - 1, j \in 0 .. n - 1 :
                   Multiplier(s, l, j) = m => l = k /\ j = i
<1>1. ASSUME NEW k \in 0 .. s - 1, NEW i \in 0 .. n - 1
      PROVE  Multiplier(s, k, i) \in 0 .. n * s - 1
  <2>1. (i + 1) * s <= n * s
    BY Products DEF Positive
  <2>2. (i + 1) * s = i * s + s /\ i * s \in Nat /\ n * s \in Nat
    BY DEF Positive
  <2> QED
    BY <2>1, <2>2 DEF Positive, Multiplier
<1>2. ASSUME NEW m \in 0 .. n * s - 1
      PROVE  \E k \in 0 .. s - 1, i \in 0 .. n - 1 :
               /\ Multiplier(s, k, i) = m
               /\ \A l \in 0 .. s - 1, j \in 0 .. n - 1 :
                    Multiplier(s, l, j) = m => l = k /\ j = i
  <2> DEFINE k == m % s
             i == m \div s
  <2>1. n * s \in Nat /\ m \in Nat
    BY DEF Positive
  <2>2. i \in Nat /\ k \in 0 .. s - 1 /\ m = i * s + k
    BY <2>1, DivMod
  <2> HIDE DEF k, i
  <2>3. i * s \in Nat /\ i * s < n * s
    BY <2>1, <2>2 DEF Positive
  <2>4. i \in 0 .. n - 1
    BY <2>2, <2>3, Factors DEF Positive
  <2>5. ASSUME NEW l \in 0 .. s - 1, NEW j \in 0 .. n - 1, Multiplier(s, l, j) = m
        PROVE  l = k /\ j = i
    <3>1. j * s + l = i * s + k
      BY <2>2, <2>3, <2>5 DEF Multiplier, Positive
    <3> QED
      BY <3>1, <2>2, OneOwner
  <2>6. Multiplier(s, k, i) = m
    BY <2>2, <2>3 DEF Multiplier, Positive
  <2> QED
    BY <2>2, <2>4, <2>5, <2>6
<1> QED
  BY <1>1, <1>2

\* The blocks have room for all the elements, and for less than a block more.
LEMMA Room ==
  ASSUME NEW R \in Positive, NEW T \in Positive, NEW E \in Positive
  PROVE  /\ Blocks(R, T, E) \in Positive /\ E * T \in Positive
         /\ R <= Blocks(R, T, E) * (E * T)
         /\ Blocks(R, T, E) * (E * T) < R + E * T
<1> DEFINE D == E * T
           q == R \div D
           r == R % D
<1>1. D \in Positive
  BY DEF Positive
<1> HIDE DEF D
<1>2. q \in Nat /\ r \in 0 .. D - 1 /\ R = q * D + r
  BY <1>1, DivMod DEF Positive
<1>3. Blocks(R, T, E) = q + (IF r > 0 THEN 1 ELSE 0)
  BY DEF Blocks, D
<1> HIDE DEF q, r
<1>4. q * D \in Nat /\ (q + 1) * D = q * D + D
  BY <1>1, <1>2 DEF Positive
<1>5. CASE r > 0
  BY <1>1, <1>2, <1>3, <1>4, <1>5 DEF Positive, D
<1>6. CASE r = 0
  <2>1. q # 0
    BY <1>1, <1>2, <1>6 DEF Positive
  <2> QED
    BY <1>1, <1>2, <1>3, <1>4, <1>6, <2>1 DEF Positive, D
<1> QED
  BY <1>1, <1>2, <1>5, <1>6

\* Every value of the table is computed by one thread of one block, and no thread
\* writes outside of the table: device_sin with the blocks that main gives it, for
\* every number of elements, of threads in a block and of elements for a thread.
THEOREM IndicesOnce ==
  ASSUME NEW R \in Positive, NEW T \in Positive, NEW E \in Positive
  PROVE  /\ \A b \in Nat, t \in Nat : Part(R, T, E, b, t) \subseteq 0 .. R - 1
         /\ \A i \in 0 .. R - 1 : \E b \in 0 .. Blocks(R, T, E) - 1, t \in 0 .. T - 1 :
              /\ i \in Part(R, T, E, b, t)
              /\ \A c \in 0 .. Blocks(R, T, E) - 1, u \in 0 .. T - 1 :
                   i \in Part(R, T, E, c, u) => c = b /\ u = t
<1>1. ASSUME NEW b \in Nat, NEW t \in Nat, NEW i \in Part(R, T, E, b, t)
      PROVE  /\ i \in 0 .. R - 1
             /\ (b * T + t) * E <= i /\ i < (b * T + t) * E + E
             /\ b * T + t \in Nat
  <2>1. b * T \in Nat
    BY DEF Positive
  <2>2. (b * T + t) * E \in Nat
    BY <2>1 DEF Positive
  <2> QED
    BY <1>1, <2>1, <2>2 DEF Positive, Part, Start, End
<1>2. ASSUME NEW i \in 0 .. R - 1
      PROVE  \E b \in 0 .. Blocks(R, T, E) - 1, t \in 0 .. T - 1 :
               /\ i \in Part(R, T, E, b, t)
               /\ \A c \in 0 .. Blocks(R, T, E) - 1, u \in 0 .. T - 1 :
                    i \in Part(R, T, E, c, u) => c = b /\ u = t
  <2> DEFINE g == i \div E
             r == i % E
             b == g \div T
             t == g % T
             B == Blocks(R, T, E)
             D == E * T
  <2>1. g \in Nat /\ r \in 0 .. E - 1 /\ i = g * E + r
    <3>1. i \in Nat
      BY DEF Positive
    <3> QED
      BY <3>1, DivMod
  <2>2. b \in Nat /\ t \in 0 .. T - 1 /\ g = b * T + t
    BY <2>1, DivMod
  <2>3. B \in Positive /\ D \in Positive /\ R <= B * D
    BY Room
  <2>4. Start(T, E, b, t) = g * E
    BY <2>2 DEF Start
  <2> HIDE DEF g, r, b, t, B
  <2>5. g * E \in Nat /\ b * T \in Nat
    BY <2>1, <2>2 DEF Positive
  <2>6. i \in Part(R, T, E, b, t)
    BY <2>1, <2>4, <2>5 DEF Positive, Part, End
  <2>7. b * D <= i
    <3>1. (b * T) * E <= g * E
      BY <2>2, <2>5, Products DEF Positive
    <3>2. b * D = (b * T) * E
      BY <2>2 DEF Positive
    <3> QED
      BY <3>1, <3>2, <2>1, <2>5 DEF Positive
  <2>8. b * D \in Nat /\ B * D \in Nat
    BY <2>2, <2>3 DEF Positive
  <2> HIDE DEF D
  <2>9. b \in 0 .. B - 1
    <3>1. b * D < B * D
      BY <2>3, <2>7, <2>8 DEF Positive
    <3> QED
      BY <3>1, <2>2, <2>3, Factors DEF Positive
  <2>10. ASSUME NEW c \in 0 .. B - 1, NEW u \in 0 .. T - 1, i \in Part(R, T, E, c, u)
         PROVE  c = b /\ u = t
    <3> DEFINE h == c * T + u
    <3>1. c \in Nat /\ u \in Nat
      BY <2>3 DEF Positive
    <3>2. h \in Nat /\ h * E <= i /\ i < h * E + E
      BY <3>1, <2>10, <1>1
    <3> HIDE DEF h
    <3>3. h * E \in Nat
      BY <3>2 DEF Positive
    <3>4. i - h * E \in 0 .. E - 1 /\ h * E + (i - h * E) = g * E + r
      BY <3>2, <3>3, <2>1, <2>5 DEF Positive
    <3>5. h = g
      BY <3>2, <3>4, <2>1, OneOwner
    <3>6. c * T + u = b * T + t
      BY <3>5, <2>2 DEF h
    <3> QED
      BY <3>1, <3>6, <2>2, OneOwner
  <2> QED
    BY <2>2, <2>6, <2>9, <2>10 DEF B
<1> QED
  BY <1>1, <1>2

\* No index is too large for an unsigned int, not even before it is cut: for the E
\* that the loop of main stops at, when twice the number of elements and the threads
\* in a block are numbers of that type (w of them) and the device has at least two
\* blocks.
THEOREM NoIndexWraps ==
  ASSUME NEW R \in Positive, NEW T \in Positive, NEW E \in Positive,
         NEW w \in Nat, NEW most \in Nat,
         2 * R <= w, T < w, 2 <= most, Chosen(R, T, E, most)
  PROVE  \A b \in 0 .. Blocks(R, T, E) - 1, t \in 0 .. T - 1 : Start(T, E, b, t) + E < w
<1> DEFINE B == Blocks(R, T, E)
           D == E * T
<1>1. B \in Positive /\ D \in Positive /\ B * D < R + D
  BY Room
<1>2. B * D < w
  <2>1. CASE E = 1
    <3>1. D = T
      BY <2>1 DEF Positive
    <3>2. CASE T <= R
      BY <1>1, <3>1, <3>2 DEF Positive
    <3>3. CASE T > R
      <4>1. B * D < 2 * D
        BY <1>1, <3>1, <3>3 DEF Positive
      <4>2. B < 2
        BY <4>1, <1>1, Factors DEF Positive
      <4>3. B = 1
        BY <4>2, <1>1 DEF Positive
      <4> QED
        BY <4>3, <3>1, <1>1 DEF Positive
    <3> QED
      BY <3>2, <3>3 DEF Positive
  <2>2. CASE E > 1
    <3> DEFINE C == Blocks(R, T, E - 1)
               F == (E - 1) * T
    <3>1. E - 1 \in Positive
      BY <2>2 DEF Positive
    <3>2. C \in Positive /\ F \in Positive /\ C * F < R + F
      BY <3>1, Room
    <3>3. C >= 3
      BY <3>2, <2>2 DEF Chosen, Positive
    <3>4. D <= 2 * F
      <4>1. E * T <= (2 * (E - 1)) * T
        BY <2>2, Products DEF Positive
      <4>2. (2 * (E - 1)) * T = 2 * ((E - 1) * T)
        BY DEF Positive
      <4> QED
        BY <4>1, <4>2
    <3> HIDE DEF C, F
    <3>5. 3 * F <= C * F
      BY <3>2, <3>3, Products DEF Positive
    <3>6. D < R
      BY <3>2, <3>4, <3>5, <1>1 DEF Positive
    <3> QED
      BY <3>6, <1>1 DEF Positive
  <2> QED
    BY <2>1, <2>2 DEF Positive
<1>3. ASSUME NEW b \in 0 .. B - 1, NEW t \in 0 .. T - 1
      PROVE  Start(T, E, b, t) + E < w
  <2>1. (b * T + t + 1) * E <= (B * T) * E
    <3>1. (b + 1) * T <= B * T
      BY <1>1, Products DEF Positive
    <3>2. (b + 1) * T = b * T + T /\ b * T \in Nat /\ B * T \in Nat
      BY <1>1 DEF Positive
    <3>3. b * T + t + 1 <= B * T
      BY <3>1, <3>2 DEF Positive
    <3> QED
      BY <3>2, <3>3, Products DEF Positive
  <2>2. (B * T) * E = B * D
    BY <1>1 DEF Positive
  <2>3. (b * T + t + 1) * E = Start(T, E, b, t) + E
    BY <1>1 DEF Positive, Start
  <2>4. B * D \in Nat /\ Start(T, E, b, t) + E <= B * D
    BY <2>1, <2>2, <2>3, <1>1 DEF Positive
  <2>5. Start(T, E, b, t) \in Int
    BY <1>1 DEF Start, Positive
  <2> HIDE DEF B, D
  <2> QED
    BY <2>4, <2>5, <1>2 DEF Positive
<1> QED
  BY <1>3

-----------------------------------------------------------------------------
(* The lexer of the shell: folds over a row of numbers.                     *)

\* The greatest member of a set of numbers.
Top(s) == CHOOSE x \in s : \A y \in s : x >= y

\* g folds the parts of 1 .. n in order: the empty one gives z, another one f of what
\* comes before its last member, and of that.
FoldsUp(g, f, z, n) ==
  g = [s \in SUBSET (1 .. n) |-> IF s = {} THEN z ELSE f[<<g[s \ {Top(s)}], Top(s)>>]]

\* The library's order of the naturals, written out.
LEMMA LessIsWellFounded == IsWellFoundedOn({p \in Nat \X Nat : p[1] < p[2]}, Nat)
BY NatLessThanWellFounded DEF OpToRel

\* A property of numbers that does not always hold has a least counterexample.
LEMMA LeastNumber ==
  ASSUME NEW S \in SUBSET Nat, S # {}
  PROVE  \E x \in S : \A y \in S : x <= y
  <1> DEFINE R == {p \in Nat \X Nat : p[1] < p[2]}
  <1>1. PICK x \in S : \A y \in S : ~ (<<y, x>> \in R)
    BY LessIsWellFounded, WFMin
  <1>2. ASSUME NEW y \in S
        PROVE  ~(y < x)
    BY <1>1
  <1> QED
    BY <1>2

\* A part of 1 .. n has a last member, and the rest ends before it.
LEMMA TopIs ==
  ASSUME NEW n \in Nat, NEW s \in SUBSET (1 .. n), s # {}
  PROVE  /\ Top(s) \in s
         /\ \A y \in s : y <= Top(s)
         /\ n > 0 /\ s \ {Top(s)} \in SUBSET (1 .. n - 1)
  <1> DEFINE Bounds == {k \in Nat : \A y \in s : y <= k}
  <1>1. \A y \in s : y \in Nat /\ 1 <= y /\ y <= n
    OBVIOUS
  <1>2. n \in Bounds
    BY <1>1
  <1>3. PICK k \in Bounds : \A m \in Bounds : k <= m
    BY <1>2, LeastNumber
  <1>4. k \in s
    <2>1. SUFFICES ASSUME k \notin s PROVE FALSE
      OBVIOUS
    <2>2. \A y \in s : y < k
      BY <1>1, <1>3, <2>1
    <2>3. k - 1 \in Nat
      <3>1. PICK y \in s : TRUE
        OBVIOUS
      <3> QED
        BY <1>1, <2>2, <3>1
    <2>4. \A y \in s : y <= k - 1
      BY <1>1, <2>2
    <2>5. k - 1 \in Bounds
      BY <2>3, <2>4
    <2> QED
      BY <1>3, <2>5
  <1>5. Top(s) \in s /\ \A y \in s : y <= Top(s)
    BY <1>3, <1>4 DEF Top
  <1>6. Top(s) \in Nat /\ 1 <= Top(s) /\ Top(s) <= n
    BY <1>1, <1>5
  <1>7. ASSUME NEW y \in s, y # Top(s)
        PROVE  y \in 1 .. n - 1
    <2>1. y \in Nat /\ 1 <= y /\ y <= Top(s)
      BY <1>1, <1>5
    <2> QED
      BY <1>6, <1>7, <2>1
  <1>8. s \ {Top(s)} \in SUBSET (1 .. n - 1)
    BY <1>7
  <1>9. n > 0
    BY <1>6
  <1> QED
    BY <1>5, <1>8, <1>9

\* There is such a fold: for one number more, the fold over less is extended.
LEMMA FoldUpExists ==
  ASSUME NEW n \in Nat, NEW X, NEW z \in X, NEW f \in [X \X (1 .. n) -> X]
  PROVE  \E g \in [SUBSET (1 .. n) -> X] : FoldsUp(g, f, z, n)
  <1> DEFINE Bad == {m \in 0 .. n : ~ \E g \in [SUBSET (1 .. m) -> X] : FoldsUp(g, f, z, m)}
  <1>1. /\ Bad \in SUBSET Nat /\ Bad \subseteq 0 .. n
        /\ \A m \in 0 .. n :
             m \in Bad <=> ~ \E g \in [SUBSET (1 .. m) -> X] : FoldsUp(g, f, z, m)
    <2>1. Bad \subseteq 0 .. n
      OBVIOUS
    <2>2. 0 .. n \subseteq Nat
      OBVIOUS
    <2> QED
      BY <2>1, <2>2, Zenon
  <1> HIDE DEF Bad
  <1>2. ASSUME Bad # {}
        PROVE  FALSE
    <2>1. PICK m \in Bad : \A k \in Bad : m <= k
      BY <1>1, <1>2, LeastNumber
    <2>2. CASE m = 0
      <3> DEFINE g == [s \in SUBSET (1 .. m) |-> z]
      <3>1. \A s \in SUBSET (1 .. m) : s = {}
        BY <2>2
      <3>2. g \in [SUBSET (1 .. m) -> X] /\ FoldsUp(g, f, z, m)
        BY <3>1 DEF FoldsUp
      <3> QED
        BY <1>1, <2>1, <3>2
    <2>3. CASE m # 0
      <3> DEFINE C == SUBSET (1 .. m - 1)
                 D == SUBSET (1 .. m)
      <3>1. m - 1 \in 0 .. n /\ m - 1 \notin Bad /\ m \in Nat
        <4>1. m \in Nat /\ m - 1 \in 0 .. n
          BY <1>1, <2>3
        <4> QED
          BY <2>1, <4>1
      <3>2. PICK h \in [C -> X] : FoldsUp(h, f, z, m - 1)
        BY <1>1, <3>1
      <3> DEFINE g == [s \in D |-> IF s = {} THEN z ELSE f[<<h[s \ {Top(s)}], Top(s)>>]]
      <3>3. C \subseteq D
        BY <3>1
      <3>4. ASSUME NEW s \in D, s # {}
            PROVE  Top(s) \in 1 .. n /\ s \ {Top(s)} \in C
        <4>1. Top(s) \in s /\ s \ {Top(s)} \in SUBSET (1 .. m - 1)
          BY <3>1, <3>4, TopIs
        <4>2. m \in 0 .. n
          BY <1>1
        <4>3. Top(s) \in 1 .. m
          BY <4>1 DEF D
        <4> QED
          BY <3>1, <4>1, <4>2, <4>3
      <3> HIDE DEF C, D
      <3>5. ASSUME NEW s \in C
            PROVE  g[s] = h[s]
        BY <3>2, <3>3 DEF FoldsUp, C
      <3>6. g = [s \in D |-> IF s = {} THEN z ELSE f[<<g[s \ {Top(s)}], Top(s)>>]]
        <4>1. ASSUME NEW s \in D, s # {}
              PROVE  g[s \ {Top(s)}] = h[s \ {Top(s)}]
          BY <3>4, <3>5, <4>1
        <4> QED
          BY <4>1
      <3>7. g \in [D -> X]
        <4>1. ASSUME NEW s \in D, s # {}
              PROVE  f[<<h[s \ {Top(s)}], Top(s)>>] \in X
          BY <3>2, <3>4, <4>1
        <4> QED
          BY <4>1
      <3> HIDE DEF g
      <3> QED
        BY <1>1, <2>1, <3>6, <3>7 DEF FoldsUp, D
    <2> QED
      BY <2>2, <2>3
  <1>3. n \in 0 .. n
    OBVIOUS
  <1> QED
    BY <1>1, <1>2, <1>3

\* What a fold keeps from each part to the part with one member more, holds of all.
LEMMA FoldKeeps ==
  ASSUME NEW n \in Nat, NEW h, NEW X, h[{}] \in X,
         \A s \in (SUBSET (1 .. n)) \ {{}} : h[s \ {Top(s)}] \in X => h[s] \in X
  PROVE  \A s \in SUBSET (1 .. n) : h[s] \in X
  <1> DEFINE Bad == {m \in 0 .. n : \E s \in SUBSET (1 .. m) : h[s] \notin X}
  <1>1. /\ Bad \in SUBSET Nat /\ Bad \subseteq 0 .. n
        /\ \A m \in 0 .. n : m \in Bad <=> \E s \in SUBSET (1 .. m) : h[s] \notin X
    OBVIOUS
  <1> HIDE DEF Bad
  <1>2. ASSUME Bad # {}
        PROVE  FALSE
    <2>1. PICK m \in Bad : \A k \in Bad : m <= k
      BY <1>1, <1>2, LeastNumber
    <2>2. PICK s \in SUBSET (1 .. m) : h[s] \notin X
      BY <1>1
    <2>3. m \in Nat /\ m <= n
      BY <1>1
    <2>4. s # {} /\ s \in SUBSET (1 .. n)
      <3>1. 1 .. m \subseteq 1 .. n
        BY <2>3
      <3> QED
        BY <2>2, <3>1
    <2>5. m > 0 /\ s \ {Top(s)} \in SUBSET (1 .. m - 1)
      BY <2>3, <2>4, TopIs
    <2>6. m - 1 \in 0 .. n
      BY <2>3, <2>5
    <2>7. m - 1 \notin Bad
      BY <2>1, <2>3, <2>6
    <2> QED
      BY <1>1, <2>2, <2>4, <2>5, <2>6, <2>7
  <1>3. n \in 0 .. n
    OBVIOUS
  <1> QED
    BY <1>1, <1>2, <1>3

\* What holds of 0, and of a number when it holds of the one before, holds up to n.
LEMMA StepByStep ==
  ASSUME NEW n \in Nat, NEW S, 0 \in S, \A m \in 1 .. n : m - 1 \in S => m \in S
  PROVE  0 .. n \subseteq S
  <1> DEFINE Bad == (0 .. n) \ S
  <1>1. Bad \in SUBSET Nat
    OBVIOUS
  <1>2. ASSUME Bad # {}
        PROVE  FALSE
    <2>1. PICK m \in Bad : \A k \in Bad : m <= k
      BY <1>1, <1>2, LeastNumber
    <2>2. m \in 1 .. n /\ m - 1 \in 0 .. n /\ m \in Nat
      OBVIOUS
    <2>3. m - 1 \in S
      BY <2>1, <2>2
    <2> QED
      BY <2>2, <2>3
  <1> QED
    BY <1>2

\* T goes from z to e by f, through n members.
RunsTo(T, f, z, n, e) ==
  /\ T[0] = z
  /\ \A m \in 1 .. n : T[m] = f[<<T[m - 1], m>>]
  /\ T[n] = e

\* A fold is a run: it goes from one member of the row to the next.
LEMMA FoldRuns ==
  ASSUME NEW n \in Nat, NEW X, NEW z \in X, NEW f \in [X \X (1 .. n) -> X], NEW h,
         h[{}] = z,
         \A s \in (SUBSET (1 .. n)) \ {{}} : h[s] = f[<<h[s \ {Top(s)}], Top(s)>>]
  PROVE  \E T \in [0 .. n -> X] : RunsTo(T, f, z, n, h[1 .. n])
  <1>1. ASSUME NEW s \in (SUBSET (1 .. n)) \ {{}}, h[s \ {Top(s)}] \in X
        PROVE  h[s] \in X
    <2>1. Top(s) \in 1 .. n
      BY TopIs
    <2> QED
      BY <1>1, <2>1
  <1>2. \A s \in SUBSET (1 .. n) : h[s] \in X
    BY <1>1, FoldKeeps
  <1> DEFINE T == [m \in 0 .. n |-> h[1 .. m]]
  <1>3. T \in [0 .. n -> X]
    <2>1. \A m \in 0 .. n : 1 .. m \in SUBSET (1 .. n)
      OBVIOUS
    <2> QED
      BY <1>2, <2>1
  <1>4. T[0] = z
    <2>1. 1 .. 0 = {} /\ 0 \in 0 .. n
      OBVIOUS
    <2> QED
      BY <2>1
  <1>5. ASSUME NEW m \in 1 .. n
        PROVE  T[m] = f[<<T[m - 1], m>>]
    <2> DEFINE s == 1 .. m
    <2>1. s \in (SUBSET (1 .. n)) \ {{}} /\ m \in s /\ \A y \in s : y <= m
      OBVIOUS
    <2>2. Top(s) = m
      <3>1. Top(s) \in s /\ \A y \in s : y <= Top(s)
        BY <2>1, TopIs
      <3>2. Top(s) <= m /\ m <= Top(s) /\ Top(s) \in Nat
        BY <2>1, <3>1
      <3> QED
        BY <3>2
    <2>3. s \ {m} = 1 .. m - 1
      OBVIOUS
    <2>4. h[s] = f[<<h[1 .. m - 1], m>>]
      BY <2>1, <2>2, <2>3
    <2>5. m \in 0 .. n /\ m - 1 \in 0 .. n
      OBVIOUS
    <2> QED
      BY <2>4, <2>5
  <1>6. T[n] = h[1 .. n]
    OBVIOUS
  <1> HIDE DEF T
  <1> QED
    BY <1>3, <1>4, <1>5, <1>6 DEF RunsTo

-----------------------------------------------------------------------------
(* The lexer of the shell: the words and the command of a part of the line. *)

Word == WordType
SplitState == [words : Seq(Word \ {{}}), word : Word, quoted : BOOLEAN]
CommandState == [name : Word, args : Seq(Word \ {{}}), input : Word, output : Word,
                 inOperand : Nat, outOperand : Nat, bad : BOOLEAN]

LEMMA EndWordTyped ==
  ASSUME NEW s \in SplitState
  PROVE  EndWord(s) \in SplitState
  <1>1. CASE s.word = {}
    BY <1>1 DEF EndWord
  <1>2. CASE s.word # {}
    <2>1. s.word \in Word \ {{}} /\ s.words \in Seq(Word \ {{}})
      BY <1>2 DEF SplitState
    <2>2. Append(s.words, s.word) \in Seq(Word \ {{}})
      BY <2>1
    <2>3. {} \in Word
      BY DEF Word, WordType
    <2> QED
      BY <1>2, <2>2, <2>3 DEF EndWord, SplitState
  <1> QED
    BY <1>1, <1>2

LEMMA SplitTyped ==
  ASSUME NEW s \in SplitState, NEW i \in 1 .. MaxLength
  PROVE  SplitTurn(s, i) \in SplitState
  <1> DEFINE quote    == Has(i, Quotes)
             redirect == Has(i, Redirects) /\ ~s.quoted
             blank    == Has(i, Blanks) /\ ~s.quoted
             e        == EndWord(s)
  <1>1. e \in SplitState
    BY EndWordTyped
  <1>2. {i} \in Word \ {{}} /\ s.word \cup {i} \in Word
    BY DEF Word, WordType, SplitState
  <1>3. [s EXCEPT !.quoted = ~@] \in SplitState
    BY DEF SplitState
  <1>4. [e EXCEPT !.words = Append(@, {i})] \in SplitState
    <2> HIDE DEF e
    <2>1. Append(e.words, {i}) \in Seq(Word \ {{}})
      BY <1>1, <1>2 DEF SplitState
    <2> QED
      BY <1>1, <2>1 DEF SplitState
  <1>5. [s EXCEPT !.word = @ \cup {i}] \in SplitState
    BY <1>2 DEF SplitState
  <1>6. ~(quote /\ redirect) /\ ~(quote /\ blank) /\ ~(redirect /\ blank)
    BY DEF Has, Quotes, Redirects, Blanks
  <1>7. SplitTurn(s, i) = CASE quote -> [s EXCEPT !.quoted = ~@]
                                  [] redirect -> [e EXCEPT !.words = Append(@, {i})]
                                  [] blank -> e
                                  [] OTHER -> [s EXCEPT !.word = @ \cup {i}]
    BY DEF SplitTurn
  <1> HIDE DEF quote, redirect, blank, e
  <1> QED
    BY <1>1, <1>3, <1>4, <1>5, <1>6, <1>7

\* The loop that cuts a command into words, place by place.
LEMMA WordsRun ==
  ASSUME MaxLength \in Nat, NEW from \in Nat, NEW to \in Nat,
         1 <= from, from <= to + 1, to <= MaxLength
  PROVE  \E T \in [0 .. to - from + 1 -> SplitState] :
            /\ T[0] = [words |-> <<>>, word |-> {}, quoted |-> FALSE]
            /\ \A m \in 1 .. to - from + 1 : T[m] = SplitTurn(T[m - 1], from + m - 1)
            /\ Words(from, to) = EndWord(T[to - from + 1]).words
  <1> DEFINE seq == Places(from, to)
             n == to - from + 1
             z == [words |-> <<>>, word |-> {}, quoted |-> FALSE]
             f == [p \in SplitState \X (1 .. n) |-> SplitTurn(p[1], seq[p[2]])]
             It(g) == g = [s \in SUBSET (DOMAIN seq) |->
                             IF s = {} THEN z
                             ELSE SplitTurn(g[s \ {Top(s)}], seq[Top(s)])]
             h == CHOOSE g : It(g)
  <1>1. Words(from, to) = EndWord(h[DOMAIN seq]).words
    BY DEF Words, FoldLeft, MapThenFoldSet, Max, Top
  <1>2. n \in Nat /\ DOMAIN seq = 1 .. n
    BY DEF Places
  <1>3. \A k \in 1 .. n : seq[k] = from + k - 1 /\ seq[k] \in 1 .. MaxLength
    <2>1. \A k \in 1 .. n : seq[k] = from + k - 1
      BY DEF Places
    <2> HIDE DEF seq
    <2> QED
      BY <1>2, <2>1
  <1>4. z \in SplitState
    BY DEF SplitState, Word, WordType
  <1> HIDE DEF seq, n, z
  <1>5. /\ f \in [SplitState \X (1 .. n) -> SplitState]
        /\ \A t \in SplitState, k \in 1 .. n : f[<<t, k>>] = SplitTurn(t, seq[k])
    BY <1>3, SplitTyped
  <1> HIDE DEF f
  <1>6. PICK g \in [SUBSET (1 .. n) -> SplitState] : FoldsUp(g, f, z, n)
    BY <1>2, <1>4, <1>5, FoldUpExists
  <1>7. It(g)
    <2>1. ASSUME NEW s \in SUBSET (1 .. n), s # {}
          PROVE  f[<<g[s \ {Top(s)}], Top(s)>>] = SplitTurn(g[s \ {Top(s)}], seq[Top(s)])
      <3>1. Top(s) \in 1 .. n
        BY <1>2, <2>1, TopIs
      <3> QED
        BY <1>5, <1>6, <3>1
    <2> QED
      BY <1>2, <1>6, <2>1 DEF FoldsUp
  <1>8. It(h)
    <2> HIDE DEF It
    <2> QED
      BY <1>7
  <1> HIDE DEF h
  <1>9. h[{}] = z
    BY <1>8
  <1>10. ASSUME NEW s \in (SUBSET (1 .. n)) \ {{}}, h[s \ {Top(s)}] \in SplitState
         PROVE  h[s] \in SplitState /\ h[s] = f[<<h[s \ {Top(s)}], Top(s)>>]
    <2>1. h[s] = SplitTurn(h[s \ {Top(s)}], seq[Top(s)])
      BY <1>2, <1>8
    <2>2. Top(s) \in 1 .. n
      BY <1>2, TopIs
    <2> QED
      BY <1>3, <1>5, <1>10, <2>1, <2>2, SplitTyped
  <1>11. \A s \in SUBSET (1 .. n) : h[s] \in SplitState
    <2>1. h[{}] \in SplitState
      BY <1>4, <1>9
    <2>2. ASSUME NEW s \in (SUBSET (1 .. n)) \ {{}}, h[s \ {Top(s)}] \in SplitState
          PROVE  h[s] \in SplitState
      BY <1>10, <2>2
    <2> QED
      BY <1>2, <2>1, <2>2, FoldKeeps
  <1>12. ASSUME NEW s \in (SUBSET (1 .. n)) \ {{}}
         PROVE  h[s] = f[<<h[s \ {Top(s)}], Top(s)>>]
    <2>1. s \ {Top(s)} \in SUBSET (1 .. n)
      OBVIOUS
    <2> QED
      BY <1>10, <1>11, <2>1
  <1>13. PICK T \in [0 .. n -> SplitState] : RunsTo(T, f, z, n, h[1 .. n])
    <2>1. f \in [SplitState \X (1 .. n) -> SplitState]
      BY <1>5
    <2>2. \A s \in (SUBSET (1 .. n)) \ {{}} : h[s] = f[<<h[s \ {Top(s)}], Top(s)>>]
      BY <1>12
    <2> QED
      BY <1>2, <1>4, <1>9, <2>1, <2>2, FoldRuns, Zenon
  <1>14. ASSUME NEW m \in 1 .. n
         PROVE  T[m] = SplitTurn(T[m - 1], from + m - 1)
    <2>1. m - 1 \in 0 .. n
      BY <1>2
    <2>2. T[m - 1] \in SplitState
      BY <1>13, <2>1
    <2>3. T[m] = f[<<T[m - 1], m>>] /\ seq[m] = from + m - 1
      BY <1>3, <1>13 DEF RunsTo
    <2> QED
      BY <1>5, <2>2, <2>3
  <1> QED
    BY <1>1, <1>2, <1>13, <1>14 DEF n, z, RunsTo

LEMMA WordsTyped ==
  ASSUME MaxLength \in Nat, NEW from \in Nat, NEW to \in Nat,
         1 <= from, from <= to + 1, to <= MaxLength
  PROVE  Words(from, to) \in Seq(Word \ {{}})
  <1> DEFINE n == to - from + 1
  <1>1. PICK T \in [0 .. n -> SplitState] : Words(from, to) = EndWord(T[n]).words
    BY WordsRun
  <1>2. n \in 0 .. n
    OBVIOUS
  <1>3. EndWord(T[n]) \in SplitState
    BY <1>2, EndWordTyped
  <1> QED
    BY <1>1, <1>3 DEF SplitState

\* What a turn over the words of a command makes of the command.
LEMMA PlainTyped ==
  ASSUME NEW words \in Seq(Word \ {{}}), NEW s \in CommandState, NEW i \in 1 .. Len(words)
  PROVE  PlainTurn(words, s, i) \in CommandState
  <1>1. words[i] \in Word \ {{}} /\ 0 \in Nat
    OBVIOUS
  <1>2. [s EXCEPT !.name = words[i]] \in CommandState
    BY <1>1 DEF CommandState
  <1>3. [s EXCEPT !.bad = TRUE] \in CommandState
    BY DEF CommandState
  <1>4. [s EXCEPT !.input = words[i], !.inOperand = None] \in CommandState
    BY <1>1 DEF CommandState, None
  <1>5. [s EXCEPT !.output = words[i], !.outOperand = None] \in CommandState
    BY <1>1 DEF CommandState, None
  <1>6. [s EXCEPT !.args = Append(@, words[i])] \in CommandState
    <2>1. Append(s.args, words[i]) \in Seq(Word \ {{}})
      BY <1>1 DEF CommandState
    <2> QED
      BY <2>1 DEF CommandState
  <1>7. CASE i = 1
    BY <1>2, <1>7 DEF PlainTurn
  <1>8. CASE i # 1 /\ s.inOperand # None
    BY <1>3, <1>4, <1>8 DEF PlainTurn
  <1>9. CASE i # 1 /\ s.inOperand = None /\ s.outOperand # None
    BY <1>3, <1>5, <1>9 DEF PlainTurn
  <1>10. CASE i # 1 /\ s.inOperand = None /\ s.outOperand = None
    BY <1>6, <1>10 DEF PlainTurn
  <1> QED
    BY <1>7, <1>8, <1>9, <1>10

LEMMA TurnTyped ==
  ASSUME NEW words \in Seq(Word \ {{}}), NEW s \in CommandState, NEW i \in 1 .. Len(words)
  PROVE  WordTurn(words, s, i) \in CommandState
  <1>1. PlainTurn(words, s, i) \in CommandState
    BY PlainTyped
  <1>2. [s EXCEPT !.bad = TRUE] \in CommandState
    BY DEF CommandState
  <1>3. i \in Nat
    OBVIOUS
  <1>4. [s EXCEPT !.inOperand = i] \in CommandState
    BY <1>3 DEF CommandState
  <1>5. [s EXCEPT !.outOperand = i] \in CommandState
    BY <1>3 DEF CommandState
  <1>6. RedirectTurn(words, s, i) \in CommandState
    BY <1>2, <1>4, <1>5 DEF RedirectTurn
  <1>7. CASE s.bad
    BY <1>7 DEF WordTurn
  <1>8. CASE ~s.bad /\ Plain(words[i])
    BY <1>1, <1>8 DEF WordTurn
  <1>9. CASE ~s.bad /\ ~Plain(words[i])
    BY <1>6, <1>9 DEF WordTurn
  <1> QED
    BY <1>7, <1>8, <1>9

\* The loop over the words of a command, word by word.
LEMMA CommandRun ==
  ASSUME NEW words \in Seq(Word \ {{}})
  PROVE  \E T \in [0 .. Len(words) -> CommandState] :
            /\ T[0] = NoCommand
            /\ \A m \in 1 .. Len(words) : T[m] = WordTurn(words, T[m - 1], m)
            /\ CommandOf(words) = T[Len(words)]
  <1> DEFINE seq == Places(1, Len(words))
             n == Len(words)
             z == NoCommand
             f == [p \in CommandState \X (1 .. n) |-> WordTurn(words, p[1], seq[p[2]])]
             It(g) == g = [s \in SUBSET (DOMAIN seq) |->
                             IF s = {} THEN z
                             ELSE WordTurn(words, g[s \ {Top(s)}], seq[Top(s)])]
             h == CHOOSE g : It(g)
  <1>1. CommandOf(words) = h[DOMAIN seq]
    BY DEF CommandOf, FoldLeft, MapThenFoldSet, Max, Top
  <1>2. n \in Nat /\ DOMAIN seq = 1 .. n
    BY DEF Places
  <1>3. \A k \in 1 .. n : seq[k] = k /\ seq[k] \in 1 .. Len(words)
    <2>1. \A k \in 1 .. n : seq[k] = 1 + k - 1
      BY DEF Places
    <2> HIDE DEF seq
    <2> QED
      BY <1>2, <2>1
  <1>4. z \in CommandState
    BY DEF CommandState, Word, WordType, NoCommand, None
  <1> HIDE DEF seq, n, z
  <1>5. /\ f \in [CommandState \X (1 .. n) -> CommandState]
        /\ \A t \in CommandState, k \in 1 .. n : f[<<t, k>>] = WordTurn(words, t, seq[k])
    BY <1>3, TurnTyped
  <1> HIDE DEF f
  <1>6. PICK g \in [SUBSET (1 .. n) -> CommandState] : FoldsUp(g, f, z, n)
    BY <1>2, <1>4, <1>5, FoldUpExists
  <1>7. It(g)
    <2>1. ASSUME NEW s \in SUBSET (1 .. n), s # {}
          PROVE  f[<<g[s \ {Top(s)}], Top(s)>>]
                   = WordTurn(words, g[s \ {Top(s)}], seq[Top(s)])
      <3>1. Top(s) \in 1 .. n
        BY <1>2, <2>1, TopIs
      <3> QED
        BY <1>5, <1>6, <3>1
    <2> QED
      BY <1>2, <1>6, <2>1 DEF FoldsUp
  <1>8. It(h)
    <2> HIDE DEF It
    <2> QED
      BY <1>7
  <1> HIDE DEF h
  <1>9. h[{}] = z
    BY <1>8
  <1>10. ASSUME NEW s \in (SUBSET (1 .. n)) \ {{}}, h[s \ {Top(s)}] \in CommandState
         PROVE  h[s] \in CommandState /\ h[s] = f[<<h[s \ {Top(s)}], Top(s)>>]
    <2>1. h[s] = WordTurn(words, h[s \ {Top(s)}], seq[Top(s)])
      BY <1>2, <1>8
    <2>2. Top(s) \in 1 .. n
      BY <1>2, TopIs
    <2>3. seq[Top(s)] \in 1 .. Len(words)
      BY <1>3, <2>2
    <2> QED
      BY <1>5, <1>10, <2>1, <2>2, <2>3, TurnTyped
  <1>11. \A s \in SUBSET (1 .. n) : h[s] \in CommandState
    <2>1. h[{}] \in CommandState
      BY <1>4, <1>9
    <2>2. ASSUME NEW s \in (SUBSET (1 .. n)) \ {{}}, h[s \ {Top(s)}] \in CommandState
          PROVE  h[s] \in CommandState
      BY <1>10, <2>2
    <2> QED
      BY <1>2, <2>1, <2>2, FoldKeeps
  <1>12. ASSUME NEW s \in (SUBSET (1 .. n)) \ {{}}
         PROVE  h[s] = f[<<h[s \ {Top(s)}], Top(s)>>]
    <2>1. s \ {Top(s)} \in SUBSET (1 .. n)
      OBVIOUS
    <2> QED
      BY <1>10, <1>11, <2>1
  <1>13. PICK T \in [0 .. n -> CommandState] : RunsTo(T, f, z, n, h[1 .. n])
    <2>1. f \in [CommandState \X (1 .. n) -> CommandState]
      BY <1>5
    <2>2. \A s \in (SUBSET (1 .. n)) \ {{}} : h[s] = f[<<h[s \ {Top(s)}], Top(s)>>]
      BY <1>12
    <2> QED
      BY <1>2, <1>4, <1>9, <2>1, <2>2, FoldRuns, Zenon
  <1>14. ASSUME NEW m \in 1 .. n
         PROVE  T[m] = WordTurn(words, T[m - 1], m)
    <2>1. m - 1 \in 0 .. n
      BY <1>2
    <2>2. T[m - 1] \in CommandState
      BY <1>13, <2>1
    <2>3. T[m] = f[<<T[m - 1], m>>] /\ seq[m] = m
      BY <1>3, <1>13 DEF RunsTo
    <2> QED
      BY <1>5, <2>2, <2>3
  <1> QED
    BY <1>1, <1>2, <1>13, <1>14 DEF n, z, RunsTo

LEMMA CommandTyped ==
  ASSUME NEW words \in Seq(Word \ {{}})
  PROVE  CommandOf(words) \in CommandState
  <1>1. PICK T \in [0 .. Len(words) -> CommandState] : CommandOf(words) = T[Len(words)]
    BY CommandRun
  <1>2. Len(words) \in 0 .. Len(words)
    OBVIOUS
  <1> QED
    BY <1>1, <1>2

\* Removing the empty commands, token by token.
LEMMA KeptRun ==
  ASSUME NEW T, NEW row \in Seq(T)
  PROVE  \E K \in [0 .. Len(row) -> Seq(T)] :
            /\ K[0] = <<>>
            /\ \A m \in 1 .. Len(row) : K[m] = KeepTurn(K[m - 1], row[m])
            /\ FoldLeft(KeepTurn, <<>>, row) = K[Len(row)]
  <1> DEFINE n == Len(row)
             f == [p \in Seq(T) \X (1 .. n) |-> KeepTurn(p[1], row[p[2]])]
             It(g) == g = [s \in SUBSET (DOMAIN row) |->
                             IF s = {} THEN <<>>
                             ELSE KeepTurn(g[s \ {Top(s)}], row[Top(s)])]
             h == CHOOSE g : It(g)
  <1>1. FoldLeft(KeepTurn, <<>>, row) = h[DOMAIN row]
    BY DEF FoldLeft, MapThenFoldSet, Max, Top
  <1>2. n \in Nat /\ DOMAIN row = 1 .. n
    OBVIOUS
  <1>3. \A k \in 1 .. n : row[k] \in T
    OBVIOUS
  <1>4. <<>> \in Seq(T)
    OBVIOUS
  <1> HIDE DEF n
  <1>5. \A t \in Seq(T), k \in 1 .. n : KeepTurn(t, row[k]) \in Seq(T)
    BY <1>3 DEF KeepTurn
  <1>6. /\ f \in [Seq(T) \X (1 .. n) -> Seq(T)]
        /\ \A t \in Seq(T), k \in 1 .. n : f[<<t, k>>] = KeepTurn(t, row[k])
    BY <1>5
  <1> HIDE DEF f
  <1>7. PICK g \in [SUBSET (1 .. n) -> Seq(T)] : FoldsUp(g, f, <<>>, n)
    BY <1>2, <1>4, <1>6, FoldUpExists
  <1>8. It(g)
    <2>1. ASSUME NEW s \in SUBSET (1 .. n), s # {}
          PROVE  f[<<g[s \ {Top(s)}], Top(s)>>] = KeepTurn(g[s \ {Top(s)}], row[Top(s)])
      <3>1. Top(s) \in 1 .. n
        BY <1>2, <2>1, TopIs
      <3> QED
        BY <1>6, <1>7, <3>1
    <2> QED
      BY <1>2, <1>7, <2>1 DEF FoldsUp
  <1>9. It(h)
    <2> HIDE DEF It
    <2> QED
      BY <1>8
  <1> HIDE DEF h
  <1>10. h[{}] = <<>>
    BY <1>9
  <1>11. ASSUME NEW s \in (SUBSET (1 .. n)) \ {{}}, h[s \ {Top(s)}] \in Seq(T)
         PROVE  h[s] \in Seq(T) /\ h[s] = f[<<h[s \ {Top(s)}], Top(s)>>]
    <2>1. h[s] = KeepTurn(h[s \ {Top(s)}], row[Top(s)])
      BY <1>2, <1>9
    <2>2. Top(s) \in 1 .. n
      BY <1>2, TopIs
    <2> QED
      BY <1>5, <1>6, <1>11, <2>1, <2>2
  <1>12. \A s \in SUBSET (1 .. n) : h[s] \in Seq(T)
    <2>1. h[{}] \in Seq(T)
      BY <1>4, <1>10
    <2>2. ASSUME NEW s \in (SUBSET (1 .. n)) \ {{}}, h[s \ {Top(s)}] \in Seq(T)
          PROVE  h[s] \in Seq(T)
      BY <1>11, <2>2
    <2> QED
      BY <1>2, <2>1, <2>2, FoldKeeps
  <1>13. ASSUME NEW s \in (SUBSET (1 .. n)) \ {{}}
         PROVE  h[s] = f[<<h[s \ {Top(s)}], Top(s)>>]
    <2>1. s \ {Top(s)} \in SUBSET (1 .. n)
      OBVIOUS
    <2> QED
      BY <1>11, <1>12, <2>1
  <1>14. PICK K \in [0 .. n -> Seq(T)] : RunsTo(K, f, <<>>, n, h[1 .. n])
    <2>1. f \in [Seq(T) \X (1 .. n) -> Seq(T)]
      BY <1>6
    <2>2. \A s \in (SUBSET (1 .. n)) \ {{}} : h[s] = f[<<h[s \ {Top(s)}], Top(s)>>]
      BY <1>13
    <2> QED
      BY <1>2, <1>4, <1>10, <2>1, <2>2, FoldRuns, Zenon
  <1>15. ASSUME NEW m \in 1 .. n
         PROVE  K[m] = KeepTurn(K[m - 1], row[m])
    <2>1. m - 1 \in 0 .. n
      BY <1>2
    <2>2. K[m - 1] \in Seq(T)
      BY <1>14, <2>1
    <2>3. K[m] = f[<<K[m - 1], m>>]
      BY <1>14 DEF RunsTo
    <2> QED
      BY <1>6, <2>2, <2>3
  <1> QED
    BY <1>1, <1>2, <1>14, <1>15 DEF n, RunsTo

-----------------------------------------------------------------------------
(* The command of a row of words is the one that the reference reads off.   *)

\* What is left of the tokens is some of the tokens.
LEMMA KeptTyped ==
  ASSUME NEW T, NEW row \in Seq(T)
  PROVE  FoldLeft(KeepTurn, <<>>, row) \in Seq(T)
  <1>1. PICK K \in [0 .. Len(row) -> Seq(T)] :
            FoldLeft(KeepTurn, <<>>, row) = K[Len(row)]
    BY KeptRun
  <1>2. Len(row) \in 0 .. Len(row)
    OBVIOUS
  <1> QED
    BY <1>1, <1>2

-----------------------------------------------------------------------------
(* The lexer of the shell: its scan.                                        *)

Marks == Signs \cup Quotes

\* The search stops at the next sign or quotation mark, if there is one.
LEMMA NextIs ==
  ASSUME line \in Seq(Alphabet), NEW from \in Nat, from > 0
  PROVE  \/ /\ NextSpecial(from) = None
            /\ \A j \in from .. Len(line) : ~Has(j, Marks)
         \/ /\ NextSpecial(from) \in from .. Len(line)
            /\ Has(NextSpecial(from), Marks)
            /\ \A j \in from .. NextSpecial(from) - 1 : ~Has(j, Marks)
  <1> DEFINE found == {i \in from .. Len(line) : Has(i, Marks)}
  <1>1. NextSpecial(from) = IF found = {} THEN None
                                  ELSE CHOOSE i \in found : \A j \in found : i <= j
    BY DEF NextSpecial, Marks
  <1>2. Len(line) \in Nat
    OBVIOUS
  <1>3. CASE found = {}
    BY <1>1, <1>3
  <1>4. CASE found # {}
    <2> DEFINE n == CHOOSE i \in found : \A j \in found : i <= j
    <2>1. found \in SUBSET Nat
      OBVIOUS
    <2> HIDE DEF found
    <2>2. \E i \in found : \A j \in found : i <= j
      BY <1>4, <2>1, LeastNumber
    <2>3. n \in found /\ \A j \in found : n <= j
      BY <2>2
    <2> HIDE DEF n
    <2>4. n \in from .. Len(line) /\ Has(n, Marks)
      BY <2>3 DEF found
    <2>5. ASSUME NEW j \in from .. n - 1
          PROVE  ~Has(j, Marks)
      <3>1. j \in from .. Len(line) /\ j < n
        BY <1>2, <2>4
      <3>2. j \notin found
        BY <2>1, <2>3, <2>4, <3>1
      <3> QED
        BY <3>1, <3>2 DEF found
    <2>6. NextSpecial(from) = n
      BY <1>1, <1>4 DEF n
    <2> QED
      BY <2>4, <2>5, <2>6
  <1> QED
    BY <1>3, <1>4

\* Where no quotation mark stands, nothing opens and nothing closes.
LEMMA InsideStays ==
  ASSUME NEW a \in Nat, NEW b \in Nat, a > 0, a <= b,
         \A j \in a .. b - 1 : ~Has(j, Quotes)
  PROVE  Inside(b) <=> Inside(a)
  <1> DEFINE Q(n) == {j \in 1 .. n - 1 : Has(j, Quotes)}
  <1>1. Q(a) = Q(b)
    OBVIOUS
  <1> QED
    BY <1>1 DEF Inside

\* Each quotation mark opens or closes.
LEMMA InsideTurns ==
  ASSUME NEW a \in Nat, a > 0, Has(a, Quotes)
  PROVE  Inside(a + 1) <=> ~Inside(a)
  <1> DEFINE S == {j \in 1 .. a - 1 : Has(j, Quotes)}
             T == {j \in 1 .. (a + 1) - 1 : Has(j, Quotes)}
  <1>1. T = S \cup {a} /\ a \notin S
    OBVIOUS
  <1>2. IsFiniteSet(S)
    <2>1. IsFiniteSet(1 .. a - 1)
      BY FS_Interval
    <2> QED
      BY <2>1, FS_Subset
  <1>3. /\ Inside(a) <=> Cardinality(S) % 2 = 1
        /\ Inside(a + 1) <=> Cardinality(T) % 2 = 1
    BY DEF Inside
  <1> HIDE DEF S, T
  <1>4. Cardinality(S) \in Nat /\ Cardinality(T) = Cardinality(S) + 1
    BY <1>1, <1>2, FS_CardinalityType, FS_AddElement
  <1>5. \A c \in Nat : (c + 1) % 2 = 1 <=> ~(c % 2 = 1)
    OBVIOUS
  <1> QED
    BY <1>3, <1>4, <1>5

\* The scan goes on from a place that it knows to be quoted or not, with no operator
\* between the beginning of the command and that place.
LEMMA Scans ==
  ASSUME line \in Seq(Alphabet), line' = line,
         NEW from \in 1 .. Len(line) + 1,
         quoted' \in BOOLEAN, quoted' <=> Inside(from),
         at' = NextSpecial(from),
         first' \in 1 .. from,
         \A i \in first' .. from - 1 : i \notin Outside(Signs)
  PROVE  /\ at' \in {None} \cup DOMAIN line
         /\ ScanSound'
  <1> DEFINE n == NextSpecial(from)
  <1>1. Len(line) \in Nat /\ DOMAIN line = 1 .. Len(line) /\ from \in Nat /\ from > 0
    OBVIOUS
  <1>2. \/ /\ n = None
           /\ \A j \in from .. Len(line) : ~Has(j, Marks)
        \/ /\ n \in from .. Len(line)
           /\ \A j \in from .. n - 1 : ~Has(j, Marks)
    BY <1>1, NextIs
  <1>3. \A j : ~Has(j, Marks) =>
                 ~Has(j, Quotes) /\ j \notin Outside(Signs)
    BY DEF Has, Marks, Outside
  <1>4. None = 0
    BY DEF None
  <1>5. Outside(Signs)' = Outside(Signs)
        /\ \A i : Inside(i)' = Inside(i)
    BY DEF Outside, Inside, Has
  <1>6. Outside(Signs) \subseteq 1 .. Len(line)
    BY <1>1 DEF Outside
  <1> HIDE DEF n
  <1>7. CASE n = None
    <2>1. \A j \in from .. Len(line) : ~Has(j, Marks)
      BY <1>1, <1>2, <1>4, <1>7
    <2>2. Inside(Len(line) + 1) <=> Inside(from)
      <3>1. \A j \in from .. (Len(line) + 1) - 1 : ~Has(j, Quotes)
        BY <1>1, <1>3, <2>1
      <3> QED
        BY <1>1, <3>1, InsideStays
    <2>3. \A i \in Outside(Signs) : ~(first' <= i)
      BY <1>1, <1>3, <1>6, <2>1
    <2>4. at' = None
      BY <1>7 DEF n
    <2> QED
      BY <1>5, <2>2, <2>3, <2>4
      DEF ScanSound, Inside, Outside, Has
  <1>8. CASE n \in from .. Len(line)
    <2>1. n # 0 /\ n \in Nat /\ from <= n /\ n <= Len(line)
      BY <1>1, <1>8
    <2>2. \A j \in from .. n - 1 : ~Has(j, Marks)
      BY <1>2, <1>4, <2>1
    <2>3. Inside(n) <=> Inside(from)
      BY <1>1, <1>3, <2>1, <2>2, InsideStays
    <2>4. \A i \in Outside(Signs) : ~(first' <= i /\ i < n)
      BY <1>1, <1>3, <1>6, <2>1, <2>2
    <2>5. at' = n
      BY DEF n
    <2> QED
      BY <1>1, <1>4, <1>5, <2>1, <2>3, <2>4, <2>5
      DEF ScanSound, Inside, Outside, Has
  <1> QED
    BY <1>2, <1>7, <1>8

-----------------------------------------------------------------------------
(* The lexer of the shell: the invariant.                                   *)

\* A command of the line is a token.
LEMMA CommandToken ==
  ASSUME NEW c \in CommandState
  PROVE  Command(c) \in Token
  BY DEF CommandState, Word, Command, Token

\* The command that is cut out of the line.
LEMMA CutTyped ==
  ASSUME MaxLength \in Nat, NEW from \in Nat, NEW to \in Nat,
         1 <= from, from <= to + 1, to <= MaxLength
  PROVE  Command(CommandOf(Words(from, to))) \in Token
  <1>1. Words(from, to) \in Seq(Word \ {{}})
    BY WordsTyped
  <1>2. CommandOf(Words(from, to)) \in CommandState
    BY <1>1, CommandTyped
  <1> QED
    BY <1>2, CommandToken

LEMMA LexInitSound ==
  ASSUME LexInit
  PROVE  LexerSound
  <1>1. PICK n \in 0 .. MaxLength : line \in [1 .. n -> Alphabet]
    BY DEF LexInit, Lines
  <1>2. line \in Seq(Alphabet) /\ Len(line) = n /\ n \in Nat /\ n <= MaxLength
    BY <1>1, ShellAssumption
  <1>3. phase = "lex" /\ quoted = FALSE /\ first = 1 /\ at = NextSpecial(1) /\ tokens = <<>>
    BY DEF LexInit
  <1>4. ~Inside(1)
    <2>1. {j \in 1 .. 1 - 1 : Has(j, Quotes)} = {}
      OBVIOUS
    <2>2. Cardinality({}) = 0
      BY FS_EmptySet
    <2> QED
      BY <2>1, <2>2 DEF Inside
  <1> USE <1>2, <1>3
  <1>5. at \in {None} \cup DOMAIN line
    <2>1. Len(line) \in Nat /\ DOMAIN line = 1 .. Len(line)
      OBVIOUS
    <2> QED
      BY <2>1, NextIs
  <1>6. at = None => ~Inside(Len(line) + 1)
    <2>1. ASSUME at = None
          PROVE  \A j \in 1 .. (Len(line) + 1) - 1 : ~Has(j, Quotes)
      BY <2>1, NextIs DEF None, Has, Marks
    <2> QED
      BY <1>4, <2>1, InsideStays
  <1>7. at # None =>
          1 <= at /\ ~Inside(at) /\ \A j \in 1 .. at - 1 : ~Has(j, Marks)
    <2>1. ASSUME at # None
          PROVE  at \in 1 .. Len(line) /\ \A j \in 1 .. at - 1 : ~Has(j, Marks)
      BY <2>1, NextIs
    <2>2. ASSUME at # None
          PROVE  \A j \in 1 .. at - 1 : ~Has(j, Quotes)
      BY <2>1, <2>2 DEF Has, Marks
    <2> QED
      BY <1>4, <2>1, <2>2, InsideStays
  <1>8. at = None => \A j \in 1 .. Len(line) : ~Has(j, Marks)
    BY NextIs DEF None
  <1>9. ScanSound
    <2>1. Len(line) \in Nat /\ DOMAIN line = 1 .. Len(line)
      OBVIOUS
    <2>2. \A i \in Outside(Signs) : i \in 1 .. Len(line) /\ Has(i, Marks)
      BY <2>1 DEF Outside, Has, Marks
    <2>3. CASE at = None
      BY <1>6, <1>8, <2>2, <2>3 DEF ScanSound, Inside
    <2>4. CASE at # None
      <3>1. at \in 1 .. Len(line)
        BY <1>5, <2>1, <2>4
      <3>2. \A i \in Outside(Signs) : ~(i < at)
        BY <1>7, <2>1, <2>2, <2>4, <3>1
      <3> QED
        BY <1>7, <2>4, <3>2 DEF ScanSound, Inside
    <2> QED
      BY <2>3, <2>4
  <1>10. TypeOK
    <2>1. first \in 1 .. Len(line) + 1 /\ tokens \in Seq(Token) /\ Len(line) <= MaxLength
      OBVIOUS
    <2> QED
      BY <1>5, <2>1 DEF TypeOK
  <1> QED
    BY <1>9, <1>10 DEF LexerSound

\* The parser stands at a sign or a quotation mark, and knows what it has seen.
LEMMA Standing ==
  ASSUME LexerSound, Turn
  PROVE  /\ line \in Seq(Alphabet) /\ Len(line) \in Nat /\ Len(line) <= MaxLength
         /\ at \in 1 .. Len(line) /\ first \in 1 .. at
         /\ quoted \in BOOLEAN /\ (quoted <=> Inside(at))
         /\ \A i \in first .. at - 1 : i \notin Outside(Signs)
         /\ tokens \in Seq(Token)
  <1>1. /\ line \in Seq(Alphabet) /\ Len(line) \in Nat /\ Len(line) <= MaxLength
        /\ at # None /\ at \in DOMAIN line /\ first \in 1 .. Len(line) + 1
        /\ quoted \in BOOLEAN /\ phase = "lex" /\ tokens \in Seq(Token)
    BY DEF LexerSound, TypeOK, Turn
  <1>2. at \in 1 .. Len(line)
    BY <1>1
  <1>3. /\ first <= at /\ quoted = Inside(at)
        /\ Outside(Signs) \cap {i \in DOMAIN line : first <= i /\ i < at} = {}
    BY <1>1 DEF LexerSound, ScanSound
  <1>4. ASSUME NEW i \in first .. at - 1
        PROVE  i \notin Outside(Signs)
    BY <1>1, <1>2, <1>3
  <1>5. first \in 1 .. at
    BY <1>1, <1>2, <1>3
  <1> QED
    BY <1>1, <1>2, <1>3, <1>4, <1>5

LEMMA LexNextSound ==
  ASSUME LexerSound, [LexNext]_lexVars
  PROVE  LexerSound'
  <1>1. MaxLength \in Nat
    BY ShellAssumption
  <1>2. /\ line \in Seq(Alphabet) /\ Len(line) \in Nat /\ Len(line) <= MaxLength
        /\ phase \in {"lex", "clean", "check", "ok", "bad"} /\ quoted \in BOOLEAN
        /\ first \in 1 .. Len(line) + 1 /\ at \in {None} \cup DOMAIN line
        /\ DOMAIN line = 1 .. Len(line)
        /\ tokens \in Seq(Token)
    BY DEF LexerSound, TypeOK
  <1>3. ASSUME line' = line, phase' = phase, NEW from \in 1 .. Len(line) + 1,
               quoted' \in BOOLEAN, quoted' <=> Inside(from),
               at' = NextSpecial(from), first' \in 1 .. from,
               \A i \in first' .. from - 1 : i \notin Outside(Signs),
               tokens' \in Seq(Token)
        PROVE  LexerSound'
    <2>1. at' \in {None} \cup DOMAIN line /\ ScanSound'
      BY <1>2, <1>3, Scans
    <2>2. first' \in 1 .. Len(line) + 1
      BY <1>2, <1>3
    <2>3. TypeOK'
      BY <1>2, <1>3, <2>1, <2>2 DEF TypeOK, Token, WordType, None,
           Alphabet, Quotes, Blanks, Redirects, Signs
    <2> QED
      BY <2>1, <2>3 DEF LexerSound
  <1>4. ASSUME line' = line, phase' \in {"clean", "check", "ok", "bad"}, quoted' = quoted,
               first' = first, at' = at, tokens' \in Seq(Token)
        PROVE  LexerSound'
    <2>1. ScanSound'
      BY <1>4 DEF ScanSound
    <2>2. TypeOK'
      BY <1>2, <1>4 DEF TypeOK, Token, WordType, None,
           Alphabet, Quotes, Blanks, Redirects, Signs
    <2> QED
      BY <2>1, <2>2 DEF LexerSound
  <1>5. ASSUME Quote PROVE LexerSound'
    <2>1. /\ Turn /\ Has(at, Quotes) /\ quoted' = ~quoted
          /\ at' = NextSpecial(at + 1) /\ line' = line /\ phase' = phase
          /\ first' = first /\ tokens' = tokens
      BY <1>5 DEF Quote, AfterQuote, Behind
    <2>2. /\ at \in 1 .. Len(line) /\ first \in 1 .. at /\ (quoted <=> Inside(at))
          /\ \A i \in first .. at - 1 : i \notin Outside(Signs)
      BY <2>1, Standing
    <2>3. at \in Nat /\ at > 0 /\ at + 1 \in 1 .. Len(line) + 1 /\ first \in 1 .. at + 1
      BY <1>2, <2>2
    <2>4. quoted' <=> Inside(at + 1)
      BY <2>1, <2>2, <2>3, InsideTurns
    <2>5. at \notin Outside(Signs)
      BY <2>1 DEF Outside, Has, Quotes, Signs
    <2>6. \A i \in first .. (at + 1) - 1 : i \notin Outside(Signs)
      BY <2>2, <2>3, <2>5
    <2> QED
      BY <1>2, <1>3, <2>1, <2>3, <2>4, <2>6
  <1>6. ASSUME QuotedSign PROVE LexerSound'
    <2>1. /\ Turn /\ Has(at, Signs) /\ quoted /\ quoted' = quoted
          /\ at' = NextSpecial(at + 1) /\ line' = line /\ phase' = phase
          /\ first' = first /\ tokens' = tokens
      BY <1>6 DEF QuotedSign, Behind
    <2>2. /\ at \in 1 .. Len(line) /\ first \in 1 .. at /\ (quoted <=> Inside(at))
          /\ \A i \in first .. at - 1 : i \notin Outside(Signs)
      BY <2>1, Standing
    <2>3. at \in Nat /\ at > 0 /\ at + 1 \in 1 .. Len(line) + 1 /\ first \in 1 .. at + 1
      BY <1>2, <2>2
    <2>4. ~Has(at, Quotes)
      BY <2>1 DEF Has, Quotes, Signs
    <2>5. quoted' <=> Inside(at + 1)
      <3>1. \A j \in at .. (at + 1) - 1 : ~Has(j, Quotes)
        BY <2>3, <2>4
      <3>2. Inside(at + 1) <=> Inside(at)
        BY <2>3, <3>1, InsideStays
      <3> QED
        BY <2>1, <2>2, <3>2
    <2>6. at \notin Outside(Signs)
      BY <2>1, <2>2 DEF Outside
    <2>7. \A i \in first .. (at + 1) - 1 : i \notin Outside(Signs)
      BY <2>2, <2>3, <2>6
    <2> QED
      BY <1>2, <1>3, <2>1, <2>3, <2>5, <2>7
  <1>7. ASSUME Sign PROVE LexerSound'
    <2> DEFINE from == at + Width(at)
               c == CommandOf(Words(first, at - 1))
               o == Operator(TypeOf(at))
    <2>1. /\ Turn /\ Has(at, Signs) /\ ~quoted /\ quoted' = quoted
          /\ Single(at) \/ DoubledSign(at)
          /\ tokens' = tokens \o <<Command(c), o>>
          /\ first' = from /\ at' = NextSpecial(from)
          /\ line' = line /\ phase' = phase
      BY <1>7 DEF Sign
    <2>2. at \in 1 .. Len(line) /\ first \in 1 .. at /\ (quoted <=> Inside(at))
      BY <2>1, Standing
    <2>3. \/ from = at + 1
          \/ from = at + 2 /\ at + 1 \in DOMAIN line /\ Has(at + 1, Signs)
      <3>1. CASE Single(at)
        BY <3>1 DEF Width
      <3>2. CASE ~Single(at)
        BY <3>2 DEF Width, Single, Has
      <3> QED
        BY <3>1, <3>2
    <2>4. ~Has(at, Quotes)
          /\ (Has(at + 1, Signs) => ~Has(at + 1, Quotes))
      BY <2>1 DEF Has, Quotes, Signs
    <2>5. Command(c) \in Token
      <3>1. first \in Nat /\ at - 1 \in Nat /\ 1 <= first /\ first <= (at - 1) + 1
            /\ at - 1 <= MaxLength
        BY <1>1, <1>2, <2>2
      <3> QED
        BY <1>1, <3>1, CutTyped
    <2>6. o \in Token
      <3>1. line[at] \in {"&", "|", ";"}
        BY <2>1 DEF Has, Signs
      <3>2. TypeOf(at) \in {"AND", "OR", "CONVEYOR", "BACKGROUND", "SEPARATOR"}
        BY <3>1 DEF TypeOf
      <3> QED
        BY <3>2 DEF Operator, Token
    <2> HIDE DEF from, c, o
    <2>7. tokens' \in Seq(Token)
      BY <1>2, <2>1, <2>5, <2>6
    <2>8. at \in Nat /\ at > 0 /\ from \in 1 .. Len(line) + 1 /\ at <= from
      BY <1>2, <2>2, <2>3
    <2>9. quoted' <=> Inside(from)
      <3>1. \A j \in at .. from - 1 : ~Has(j, Quotes)
        BY <2>3, <2>4, <2>8
      <3>2. Inside(from) <=> Inside(at)
        BY <2>8, <3>1, InsideStays
      <3> QED
        BY <2>1, <2>2, <3>2
    <2>10. first' \in 1 .. from /\ \A i \in first' .. from - 1 : FALSE
      BY <2>1, <2>8
    <2> QED
      BY <1>2, <1>3, <2>1, <2>7, <2>8, <2>9, <2>10
  <1>8. ASSUME BadSign PROVE LexerSound'
    BY <1>2, <1>4, <1>8 DEF BadSign
  <1>9. ASSUME RestOfLine PROVE LexerSound'
    <2> DEFINE c == CommandOf(Words(first, Len(line)))
    <2>1. /\ line' = line /\ quoted' = quoted /\ first' = first /\ at' = at
          /\ phase' \in {"clean", "bad"}
          /\ tokens' \in {tokens, Append(tokens, Command(c))}
      BY <1>9 DEF RestOfLine
    <2>2. Command(c) \in Token
      <3>1. first \in Nat /\ 1 <= first /\ first <= Len(line) + 1
        BY <1>2
      <3> QED
        BY <1>1, <1>2, <3>1, CutTyped
    <2> HIDE DEF c
    <2>3. tokens' \in Seq(Token)
      BY <1>2, <2>1, <2>2
    <2> QED
      BY <1>4, <2>1, <2>3
  <1>10. ASSUME Clean PROVE LexerSound'
    <2>1. tokens' \in Seq(Token)
      BY <1>2, <1>10, KeptTyped DEF Clean
    <2> QED
      BY <1>4, <1>10, <2>1 DEF Clean
  <1>11. ASSUME Check PROVE LexerSound'
    BY <1>2, <1>4, <1>11 DEF Check
  <1>12. ASSUME UNCHANGED lexVars PROVE LexerSound'
    <2>1. /\ line' = line /\ phase' = phase /\ quoted' = quoted /\ first' = first
          /\ at' = at /\ tokens' = tokens
      BY <1>12 DEF lexVars
    <2>2. ScanSound'
      <3>1. ScanSound
        BY DEF LexerSound
      <3> QED
        BY <2>1, <3>1 DEF ScanSound, Inside, Outside, Has
    <2>3. TypeOK'
      BY <1>2, <2>1 DEF TypeOK, Token, WordType, None,
           Alphabet, Quotes, Blanks, Redirects, Signs
    <2> QED
      BY <2>2, <2>3 DEF LexerSound
  <1> QED
    BY <1>5, <1>6, <1>7, <1>8, <1>9, <1>10, <1>11, <1>12 DEF LexNext, Terminated

\* The scan of the shell's lexer is sound for lines of every length: the length of a
\* command is never negative, the parser knows whether it stands in quotation marks,
\* and no operator is left in what becomes a command (shell_line_lexical_parser).
THEOREM LineScanned == LexSpec => []LexerSound
  <1>1. LexInit => LexerSound
    BY LexInitSound
  <1>2. LexerSound /\ [LexNext]_lexVars => LexerSound'
    BY LexNextSound
  <1> QED
    BY <1>1, <1>2, PTL DEF LexSpec

-----------------------------------------------------------------------------
(* The lexer of the shell: a command and what the reference makes of it.    *)

\* The places of "<" (A), ">" (B) and other words (P) among the first m words.  What
\* GoodWords says of them, and which redirection stands open.
GoodTo(A, B, P, m) ==
  \A k, j \in 1 .. m :
    k < j /\ k \notin P /\ k + 1 \notin P =>
      IF k \in A THEN j \in B ELSE j \in A \/ (j \in P /\ j - 1 \in A)
IsOpen(R, P, m, k) == k \in R /\ k <= m /\ ~(k < m /\ k + 1 \in P)
OpenIs(R, P, m, o) ==
  IF o = None THEN \A k \in R : ~IsOpen(R, P, m, k)
  ELSE IsOpen(R, P, m, o) /\ \A k \in R : IsOpen(R, P, m, k) => k = o

\* Each of n words is of one kind.
OneKind(A, B, P, n) ==
  /\ A \in SUBSET (1 .. n) /\ B \in SUBSET (1 .. n) /\ P \in SUBSET (1 .. n)
  /\ A \cap B = {} /\ A \cap P = {} /\ B \cap P = {}
  /\ A \cup B \cup P = 1 .. n

LEMMA GoodTurns ==
  ASSUME NEW n \in Nat, NEW m \in 1 .. n, NEW A, NEW B, NEW P, OneKind(A, B, P, n),
         NEW a \in Nat, NEW b \in Nat,
         GoodTo(A, B, P, m - 1), OpenIs(A, P, m - 1, a), OpenIs(B, P, m - 1, b)
  PROVE  GoodTo(A, B, P, m) <=>
           \/ m \in A /\ a = None
           \/ m \in B /\ b = None
           \/ m \in P /\ a # None /\ a + 1 = m
           \/ m \in P /\ a = None /\ b # None /\ b + 1 = m
           \/ m \in P /\ a = None /\ b = None
  <1> USE DEF OneKind
  <1> DEFINE Bad(k) == k < m /\ k \notin P /\ k + 1 \notin P
             Lets(k) == IF k \in A THEN m \in B ELSE m \in A \/ (m \in P /\ m - 1 \in A)
  <1>1. GoodTo(A, B, P, m) <=> \A k \in 1 .. m : Bad(k) => Lets(k)
    BY DEF GoodTo
  <1>2. m \in Nat /\ m > 0 /\ A \subseteq Nat /\ B \subseteq Nat /\ None = 0
    BY DEF None
  <1>3. \A k \in 1 .. m : k < m /\ k \notin P => k \in A \/ k \in B
    OBVIOUS
  <1>4. a # None => /\ a \in A /\ a < m /\ a \in 1 .. m /\ a \notin P
                    /\ ~(a + 1 < m /\ a + 1 \in P)
    BY <1>2 DEF OpenIs, IsOpen
  <1>5. b # None => /\ b \in B /\ b < m /\ b \in 1 .. m /\ b \notin P /\ b \notin A
                    /\ ~(b + 1 < m /\ b + 1 \in P)
    BY <1>2 DEF OpenIs, IsOpen
  <1>6. \A k \in A : k < m /\ ~(k + 1 < m /\ k + 1 \in P) => k = a /\ a # None
    BY <1>2 DEF OpenIs, IsOpen
  <1>7. \A k \in B : k < m /\ ~(k + 1 < m /\ k + 1 \in P) => k = b /\ b # None
    BY <1>2 DEF OpenIs, IsOpen
  <1>8. CASE m \in A
    <2>1. m \notin B /\ m \notin P
      BY <1>8
    <2>2. a # None => Bad(a) /\ ~Lets(a)
      BY <1>2, <1>4, <1>8, <2>1
    <2>3. a = None => \A k \in 1 .. m : Bad(k) => Lets(k)
      BY <1>2, <1>3, <1>6, <1>8
    <2> QED
      BY <1>1, <1>4, <2>1, <2>2, <2>3
  <1>9. CASE m \in B
    <2>1. m \notin A /\ m \notin P
      BY <1>9
    <2>2. b # None => Bad(b) /\ ~Lets(b)
      BY <1>2, <1>5, <1>9, <2>1
    <2>3. b = None => \A k \in 1 .. m : Bad(k) => Lets(k)
      BY <1>2, <1>3, <1>7, <1>9
    <2> QED
      BY <1>1, <1>5, <2>1, <2>2, <2>3
  <1>10. CASE m \in P
    <2>1. m \notin A /\ m \notin B
      BY <1>10
    <2>2. CASE a # None /\ a + 1 # m
      <3>1. Bad(a) /\ ~Lets(a)
        BY <1>2, <1>4, <2>1, <2>2
      <3> QED
        BY <1>1, <1>4, <2>1, <2>2, <3>1
    <2>3. CASE a # None /\ a + 1 = m
      <3>1. \A k \in 1 .. m : Bad(k) => k \notin A
        BY <1>2, <1>6, <1>10, <2>3
      <3>2. m - 1 \in A
        BY <1>2, <1>4, <2>3
      <3> QED
        BY <1>1, <1>10, <2>3, <3>1, <3>2
    <2>4. CASE a = None /\ b # None /\ b + 1 # m
      <3>1. m - 1 \notin A
        BY <1>2, <1>6, <2>4
      <3>2. Bad(b) /\ ~Lets(b)
        BY <1>2, <1>5, <2>1, <2>4, <3>1
      <3> QED
        BY <1>1, <1>5, <2>1, <2>4, <3>2
    <2>5. CASE a = None /\ (b = None \/ b + 1 = m)
      <3>1. \A k \in 1 .. m : Bad(k) => k \notin A /\ k \notin B
        BY <1>2, <1>6, <1>7, <1>10, <2>5
      <3>2. \A k \in 1 .. m : ~Bad(k)
        BY <1>3, <3>1
      <3> QED
        BY <1>1, <1>10, <2>5, <3>2
    <2> QED
      BY <2>2, <2>3, <2>4, <2>5
  <1> QED
    BY <1>8, <1>9, <1>10

\* What stands open after a turn: a redirection until its operand comes.
LEMMA OpenTurns ==
  ASSUME NEW n \in Nat, NEW m \in 1 .. n,
         NEW R \in SUBSET (1 .. n), NEW P \in SUBSET (1 .. n), R \cap P = {},
         NEW o \in Nat, OpenIs(R, P, m - 1, o)
  PROVE  /\ m \in R /\ o = None => OpenIs(R, P, m, m)
         /\ m \in P /\ o # None /\ o + 1 = m => OpenIs(R, P, m, None)
         /\ m \notin R /\ ~(m \in P /\ o # None /\ o + 1 = m) => OpenIs(R, P, m, o)
  <1>1. m \in Nat /\ m > 0 /\ R \subseteq Nat /\ None = 0 /\ \A k \in R : k > 0
    BY DEF None
  <1>2. o # None => o \in R /\ o < m /\ ~(o + 1 < m /\ o + 1 \in P)
    BY <1>1 DEF OpenIs, IsOpen
  <1>3. \A k \in R : k < m /\ ~(k + 1 < m /\ k + 1 \in P) => k = o /\ o # None
    BY <1>1 DEF OpenIs, IsOpen
  <1>4. \A k \in R : IsOpen(R, P, m, k) <=> k <= m /\ ~(k < m /\ k + 1 \in P)
    BY DEF IsOpen
  <1>5. ASSUME m \in R, o = None
        PROVE  OpenIs(R, P, m, m)
    <2>1. IsOpen(R, P, m, m) /\ m # None
      BY <1>1, <1>5 DEF IsOpen
    <2>2. \A k \in R : IsOpen(R, P, m, k) => k = m
      BY <1>1, <1>3, <1>4, <1>5
    <2> QED
      BY <2>1, <2>2 DEF OpenIs
  <1>6. ASSUME m \in P, o # None, o + 1 = m
        PROVE  OpenIs(R, P, m, None)
    <2>1. \A k \in R : ~IsOpen(R, P, m, k)
      BY <1>1, <1>3, <1>4, <1>6
    <2> QED
      BY <2>1 DEF OpenIs
  <1>7. ASSUME m \notin R, ~(m \in P /\ o # None /\ o + 1 = m)
        PROVE  OpenIs(R, P, m, o)
    <2>1. \A k \in R : IsOpen(R, P, m, k) => k = o /\ o # None
      BY <1>1, <1>3, <1>4, <1>7
    <2>2. o # None => IsOpen(R, P, m, o)
      BY <1>1, <1>2, <1>7 DEF IsOpen
    <2> QED
      BY <2>1, <2>2 DEF OpenIs
  <1> QED
    BY <1>5, <1>6, <1>7

\* The operand of the last of the redirections R, and the arguments: the words K.
OperandAt(R, P, k) == k > 1 /\ k \in P /\ k - 1 \in R
OperandIs(w, R, P, m, v) ==
  IF \E k \in 1 .. m : OperandAt(R, P, k)
    THEN \E k \in 1 .. m : /\ OperandAt(R, P, k) /\ v = w[k]
                           /\ \A j \in 1 .. m : OperandAt(R, P, j) => j <= k
    ELSE v = {}
Rank(K, k) == Cardinality({j \in K : j <= k})
ArgsAre(w, K, args) ==
  /\ Len(args) = Cardinality(K)
  /\ \A k \in K : args[Rank(K, k)] = w[k]
  /\ \A x \in 1 .. Len(args) : \E k \in K : Rank(K, k) = x

LEMMA OperandTurns ==
  ASSUME NEW w, NEW R, NEW P, NEW m \in Nat, m > 0, NEW v, OperandIs(w, R, P, m - 1, v)
  PROVE  /\ OperandAt(R, P, m) => OperandIs(w, R, P, m, w[m])
         /\ ~OperandAt(R, P, m) => OperandIs(w, R, P, m, v)
  <1> DEFINE At(k) == OperandAt(R, P, k)
  <1>1. IF \E k \in 1 .. m - 1 : At(k)
          THEN \E k \in 1 .. m - 1 : At(k) /\ v = w[k] /\ \A j \in 1 .. m - 1 : At(j) => j <= k
          ELSE v = {}
    BY DEF OperandIs
  <1>2. \A x : OperandIs(w, R, P, m, x) <=>
          IF \E k \in 1 .. m : At(k)
            THEN \E k \in 1 .. m : At(k) /\ x = w[k] /\ \A j \in 1 .. m : At(j) => j <= k
            ELSE x = {}
    BY DEF OperandIs
  <1> HIDE DEF At
  <1>3. m \in 1 .. m /\ \A j \in 1 .. m : j <= m /\ (j = m \/ j \in 1 .. m - 1)
    OBVIOUS
  <1>4. ASSUME At(m)
        PROVE  OperandIs(w, R, P, m, w[m])
    BY <1>2, <1>3, <1>4
  <1>5. ASSUME ~At(m)
        PROVE  OperandIs(w, R, P, m, v)
    <2>1. \A k \in 1 .. m - 1 : k \in 1 .. m
      OBVIOUS
    <2>2. CASE \E k \in 1 .. m - 1 : At(k)
      <3>1. PICK k \in 1 .. m - 1 : At(k) /\ v = w[k] /\ \A j \in 1 .. m - 1 : At(j) => j <= k
        BY <1>1, <2>2
      <3>2. \A j \in 1 .. m : At(j) => j <= k
        BY <1>3, <1>5, <3>1
      <3> QED
        BY <1>2, <2>1, <3>1, <3>2
    <2>3. CASE ~ \E k \in 1 .. m - 1 : At(k)
      <3>1. v = {} /\ ~ \E k \in 1 .. m : At(k)
        BY <1>1, <1>3, <1>5, <2>3
      <3> QED
        BY <1>2, <3>1
    <2> QED
      BY <2>2, <2>3
  <1> QED
    BY <1>4, <1>5 DEF At

LEMMA ArgsTurn ==
  ASSUME NEW m \in Nat, m > 0, NEW K \in SUBSET (1 .. m - 1), NEW S, NEW w, w[m] \in S,
         NEW args \in Seq(S), ArgsAre(w, K, args)
  PROVE  ArgsAre(w, K \cup {m}, Append(args, w[m]))
  <1> DEFINE M == K \cup {m}
             c == Cardinality(K)
             more == Append(args, w[m])
  <1>1. IsFiniteSet(K) /\ m \notin K
    <2>1. IsFiniteSet(1 .. m - 1)
      BY FS_Interval
    <2>2. IsFiniteSet(K)
      BY <2>1, FS_Subset
    <2> QED
      BY <2>2
  <1>2. c \in Nat /\ Cardinality(M) = c + 1
    BY <1>1, FS_CardinalityType, FS_AddElement
  <1>3. ASSUME NEW k \in K
        PROVE  Rank(M, k) = Rank(K, k) /\ Rank(K, k) \in 1 .. c
    <2> DEFINE L == {j \in K : j <= k}
    <2>1. {j \in M : j <= k} = L
      OBVIOUS
    <2>2. k \in L /\ L \in SUBSET K
      OBVIOUS
    <2> HIDE DEF L
    <2>3. IsFiniteSet(L) /\ Cardinality(L) <= c /\ L # {}
      BY <1>1, <2>2, FS_Subset
    <2>4. Cardinality(L) \in Nat /\ Cardinality(L) # 0
      BY <2>3, FS_CardinalityType, FS_EmptySet
    <2>5. Rank(M, k) = Cardinality(L) /\ Rank(K, k) = Cardinality(L)
      BY <2>1 DEF Rank, L
    <2> HIDE DEF c
    <2> QED
      BY <1>2, <2>3, <2>4, <2>5
  <1>4. Rank(M, m) = c + 1
    <2>1. {j \in M : j <= m} = M
      <3>1. \A j \in M : j <= m
        OBVIOUS
      <3> HIDE DEF M
      <3> QED
        BY <3>1
    <2> QED
      BY <1>2, <2>1 DEF Rank
  <1>5. /\ Len(args) = c
        /\ \A k \in K : args[Rank(K, k)] = w[k]
        /\ \A x \in 1 .. Len(args) : \E k \in K : Rank(K, k) = x
    BY DEF ArgsAre
  <1>6. Len(more) = c + 1 /\ more[c + 1] = w[m] /\ \A x \in 1 .. c : more[x] = args[x]
    BY <1>5
  <1> HIDE DEF M, c, more
  <1>7. \A k \in M : more[Rank(M, k)] = w[k]
    <2>1. m \in M /\ \A k \in M : k = m \/ k \in K
      BY DEF M
    <2> QED
      BY <1>3, <1>4, <1>5, <1>6, <2>1
  <1>8. ASSUME NEW x \in 1 .. c + 1
        PROVE  \E k \in M : Rank(M, k) = x
    <2>1. m \in M /\ \A k \in K : k \in M
      BY DEF M
    <2>2. CASE x = c + 1
      BY <1>4, <2>1, <2>2
    <2>3. CASE x # c + 1
      <3>1. x \in 1 .. Len(args)
        BY <1>2, <1>5, <2>3
      <3>2. PICK k \in K : Rank(K, k) = x
        BY <1>5, <3>1
      <3> QED
        BY <1>3, <2>1, <3>2
    <2> QED
      BY <2>2, <2>3
  <1>9. Len(more) = Cardinality(M)
    BY <1>2, <1>6
  <1>10. ArgsAre(w, M, more)
    BY <1>6, <1>7, <1>8, <1>9 DEF ArgsAre
  <1> QED
    BY <1>10 DEF M, more

\* The three kinds of words, and what the loop knows behind the first m of them.
Ins(w)    == {k \in 1 .. Len(w) : Is(w[k], "<")}
Outs(w)   == {k \in 1 .. Len(w) : Is(w[k], ">")}
Plains(w) == {k \in 1 .. Len(w) : Plain(w[k])}
Arguments(P, m) == {k \in 1 .. m : k > 1 /\ k \in P /\ k - 1 \in P}

CommandIs(w, m, s) ==
  /\ s.bad <=> ~GoodTo(Ins(w), Outs(w), Plains(w), m)
  /\ ~s.bad =>
       /\ OpenIs(Ins(w), Plains(w), m, s.inOperand)
       /\ OpenIs(Outs(w), Plains(w), m, s.outOperand)
       /\ s.name = IF m > 0 /\ 1 \in Plains(w) THEN w[1] ELSE {}
       /\ OperandIs(w, Ins(w), Plains(w), m, s.input)
       /\ OperandIs(w, Outs(w), Plains(w), m, s.output)
       /\ ArgsAre(w, Arguments(Plains(w), m), s.args)

LEMMA Kinds ==
  ASSUME NEW w \in Seq(Word \ {{}})
  PROVE  OneKind(Ins(w), Outs(w), Plains(w), Len(w))
  <1>1. \A k : ~(Is(w[k], "<") /\ Is(w[k], ">"))
    BY DEF Is
  <1>2. \A k : Plain(w[k]) <=> ~Is(w[k], "<") /\ ~Is(w[k], ">")
    BY DEF Plain
  <1> QED
    BY <1>1, <1>2 DEF Ins, Outs, Plains, OneKind

\* The turn over a word keeps it.
LEMMA CommandTurn ==
  ASSUME NEW w \in Seq(Word \ {{}}), NEW m \in 1 .. Len(w), NEW s \in CommandState,
         CommandIs(w, m - 1, s)
  PROVE  CommandIs(w, m, WordTurn(w, s, m))
  <1> DEFINE A == Ins(w)
             B == Outs(w)
             P == Plains(w)
             a == s.inOperand
             b == s.outOperand
             t == WordTurn(w, s, m)
             n == Len(w)
  <1>1. OneKind(A, B, P, n)
    BY Kinds
  <1>2. /\ A \in SUBSET (1 .. n) /\ B \in SUBSET (1 .. n) /\ P \in SUBSET (1 .. n)
        /\ A \cap B = {} /\ A \cap P = {} /\ B \cap P = {} /\ A \cup B \cup P = 1 .. n
    BY <1>1 DEF OneKind
  <1>3. /\ m \in A <=> Is(w[m], "<")
        /\ m \in B <=> Is(w[m], ">")
        /\ m \in P <=> Plain(w[m])
    BY DEF Ins, Outs, Plains
  <1>4. /\ n \in Nat /\ m \in 1 .. n /\ m \in Nat /\ m > 0 /\ None = 0 /\ a \in Nat /\ b \in Nat
        /\ s.bad \in BOOLEAN /\ s.args \in Seq(Word \ {{}}) /\ w[m] \in Word \ {{}}
    BY DEF None, CommandState
  <1>5. /\ s.bad <=> ~GoodTo(A, B, P, m - 1)
        /\ ~s.bad =>
             /\ OpenIs(A, P, m - 1, a)
             /\ OpenIs(B, P, m - 1, b)
             /\ s.name = IF m - 1 > 0 /\ 1 \in P THEN w[1] ELSE {}
             /\ OperandIs(w, A, P, m - 1, s.input)
             /\ OperandIs(w, B, P, m - 1, s.output)
             /\ ArgsAre(w, Arguments(P, m - 1), s.args)
    BY DEF CommandIs
  <1> HIDE DEF A, B, P, n
  <1>6. SUFFICES /\ t.bad <=> ~GoodTo(A, B, P, m)
                 /\ ~t.bad =>
                      /\ OpenIs(A, P, m, t.inOperand)
                      /\ OpenIs(B, P, m, t.outOperand)
                      /\ t.name = IF m > 0 /\ 1 \in P THEN w[1] ELSE {}
                      /\ OperandIs(w, A, P, m, t.input)
                      /\ OperandIs(w, B, P, m, t.output)
                      /\ ArgsAre(w, Arguments(P, m), t.args)
    BY DEF CommandIs, A, B, P
  <1>7. CASE s.bad
    <2>1. t = s
      BY <1>7 DEF WordTurn
    <2>2. 1 .. m - 1 \subseteq 1 .. m
      OBVIOUS
    <2>3. ~GoodTo(A, B, P, m)
      BY <1>5, <1>7, <2>2 DEF GoodTo
    <2> QED
      BY <1>7, <2>1, <2>3
  <1>8. CASE ~s.bad
    <2>1. /\ OpenIs(A, P, m - 1, a) /\ OpenIs(B, P, m - 1, b)
          /\ OperandIs(w, A, P, m - 1, s.input) /\ OperandIs(w, B, P, m - 1, s.output)
          /\ ArgsAre(w, Arguments(P, m - 1), s.args) /\ GoodTo(A, B, P, m - 1)
      BY <1>5, <1>8
    <2>2. GoodTo(A, B, P, m) <=>
           \/ m \in A /\ a = None
           \/ m \in B /\ b = None
           \/ m \in P /\ a # None /\ a + 1 = m
           \/ m \in P /\ a = None /\ b # None /\ b + 1 = m
           \/ m \in P /\ a = None /\ b = None
      <3>1. n \in Nat /\ m \in 1 .. n /\ a \in Nat /\ b \in Nat
        BY <1>4
      <3>2. GoodTo(A, B, P, m - 1) /\ OpenIs(A, P, m - 1, a) /\ OpenIs(B, P, m - 1, b)
        BY <2>1
      <3> HIDE DEF a, b
      <3> QED
        BY <1>1, <3>1, <3>2, GoodTurns
    <2>3. /\ m \in A /\ a = None => OpenIs(A, P, m, m)
          /\ m \in P /\ a # None /\ a + 1 = m => OpenIs(A, P, m, None)
          /\ m \notin A /\ ~(m \in P /\ a # None /\ a + 1 = m) => OpenIs(A, P, m, a)
      BY <1>2, <1>4, <2>1, OpenTurns
    <2>4. /\ m \in B /\ b = None => OpenIs(B, P, m, m)
          /\ m \in P /\ b # None /\ b + 1 = m => OpenIs(B, P, m, None)
          /\ m \notin B /\ ~(m \in P /\ b # None /\ b + 1 = m) => OpenIs(B, P, m, b)
      BY <1>2, <1>4, <2>1, OpenTurns
    <2>5. /\ a # None => a \in A /\ a < m
          /\ b # None => b \in B /\ b < m
          /\ \A k \in A : k = m - 1 => a = k /\ a # None
          /\ \A k \in B : k = m - 1 => b = k /\ b # None
      BY <1>2, <1>4, <2>1 DEF OpenIs, IsOpen
    <2>6. /\ OperandAt(A, P, m) <=> m \in P /\ a # None /\ a + 1 = m
          /\ OperandAt(B, P, m) <=> m \in P /\ b # None /\ b + 1 = m
      BY <1>2, <1>4, <2>5 DEF OperandAt
    <2>7. /\ OperandAt(A, P, m) => OperandIs(w, A, P, m, w[m])
          /\ ~OperandAt(A, P, m) => OperandIs(w, A, P, m, s.input)
          /\ OperandAt(B, P, m) => OperandIs(w, B, P, m, w[m])
          /\ ~OperandAt(B, P, m) => OperandIs(w, B, P, m, s.output)
      BY <1>4, <2>1, OperandTurns
    <2>8. m \notin P \/ m = 1 \/ OperandAt(A, P, m) \/ OperandAt(B, P, m)
            => Arguments(P, m) = Arguments(P, m - 1)
      <3>1. \A k \in 1 .. m : k = m \/ k \in 1 .. m - 1
        OBVIOUS
      <3>2. 1 .. m - 1 \subseteq 1 .. m
        OBVIOUS
      <3> QED
        BY <1>2, <3>1, <3>2 DEF Arguments, OperandAt
    <2>9. ASSUME m \in P, m # 1, a = None, b = None
          PROVE  ArgsAre(w, Arguments(P, m), Append(s.args, w[m]))
      <3>1. m - 1 \in P
        <4>1. m - 1 \in 1 .. n
          BY <1>2, <1>4, <2>9
        <4> QED
          BY <1>2, <2>5, <2>9, <4>1
      <3>2. Arguments(P, m) = Arguments(P, m - 1) \cup {m}
        BY <1>4, <2>9, <3>1 DEF Arguments
      <3>3. Arguments(P, m - 1) \in SUBSET (1 .. m - 1)
        BY DEF Arguments
      <3> QED
        <4>1. ArgsAre(w, Arguments(P, m - 1), s.args)
          BY <2>1
        <4>2. m \in Nat /\ m > 0 /\ w[m] \in Word \ {{}} /\ s.args \in Seq(Word \ {{}})
          BY <1>4
        <4>3. ArgsAre(w, Arguments(P, m - 1) \cup {m}, Append(s.args, w[m]))
          BY <3>3, <4>1, <4>2, ArgsTurn
        <4> QED
          BY <3>2, <4>3
    <2>10. CASE m \notin P
      <3>1. t = RedirectTurn(w, s, m)
        BY <1>3, <1>8, <2>10 DEF WordTurn
      <3>2. m \in A \/ m \in B
        BY <1>2, <2>10 DEF n
      <3>3. ~OperandAt(A, P, m) /\ ~OperandAt(B, P, m)
        BY <2>6, <2>10
      <3>4. m = 1 => 1 \notin P
        BY <2>10
      <3>5. CASE m \in A /\ a # None
        <4>1. t.bad /\ ~GoodTo(A, B, P, m)
          BY <1>2, <1>3, <2>2, <2>10, <3>1, <3>5 DEF RedirectTurn, CommandState
        <4> QED
          BY <4>1
      <3>6. CASE m \in A /\ a = None
        <4>1. t = [s EXCEPT !.inOperand = m]
          BY <1>3, <3>1, <3>6 DEF RedirectTurn
        <4>2. /\ t.bad = s.bad /\ t.inOperand = m /\ t.outOperand = b /\ t.name = s.name
              /\ t.input = s.input /\ t.output = s.output /\ t.args = s.args
          BY <4>1 DEF CommandState
        <4>3. m \notin B
          BY <1>2, <3>6
        <4> HIDE DEF t
        <4> QED
          BY <1>4, <1>5, <1>8, <2>1, <2>2, <2>3, <2>4, <2>7, <2>8, <2>10, <3>3, <3>4,
             <3>6, <4>2, <4>3
      <3>7. CASE m \in B /\ b # None
        <4>1. t.bad /\ ~GoodTo(A, B, P, m)
          BY <1>2, <1>3, <2>2, <2>10, <3>1, <3>7 DEF RedirectTurn, CommandState
        <4> QED
          BY <4>1
      <3>8. CASE m \in B /\ b = None
        <4>1. m \notin A
          BY <1>2, <3>8
        <4>2. t = [s EXCEPT !.outOperand = m]
          BY <1>3, <3>1, <3>8, <4>1 DEF RedirectTurn
        <4>3. /\ t.bad = s.bad /\ t.inOperand = a /\ t.outOperand = m /\ t.name = s.name
              /\ t.input = s.input /\ t.output = s.output /\ t.args = s.args
          BY <4>2 DEF CommandState
        <4> HIDE DEF t
        <4> QED
          BY <1>4, <1>5, <1>8, <2>1, <2>2, <2>3, <2>4, <2>7, <2>8, <2>10, <3>3, <3>4,
             <3>8, <4>1, <4>3
      <3> QED
        BY <3>2, <3>5, <3>6, <3>7, <3>8
    <2>11. CASE m \in P
      <3>1. t = PlainTurn(w, s, m)
        BY <1>3, <1>8, <2>11 DEF WordTurn
      <3>2. m \notin A /\ m \notin B
        BY <1>2, <2>11
      <3>3. CASE m = 1
        <4>1. t = [s EXCEPT !.name = w[m]]
          BY <3>1, <3>3 DEF PlainTurn
        <4>2. /\ t.bad = s.bad /\ t.inOperand = a /\ t.outOperand = b /\ t.name = w[m]
              /\ t.input = s.input /\ t.output = s.output /\ t.args = s.args
          BY <4>1 DEF CommandState
        <4>3. a = None /\ b = None
          BY <1>2, <1>4, <2>5, <3>3
        <4> HIDE DEF t
        <4> QED
          BY <1>4, <1>5, <1>8, <2>1, <2>2, <2>3, <2>4, <2>6, <2>7, <2>8, <2>11, <3>2,
             <3>3, <4>2, <4>3
      <3>4. CASE m # 1 /\ a # None /\ a + 1 # m
        <4>1. t = [s EXCEPT !.bad = TRUE]
          BY <3>1, <3>4 DEF PlainTurn
        <4>2. t.bad /\ ~GoodTo(A, B, P, m)
          BY <2>2, <3>2, <3>4, <4>1 DEF CommandState
        <4> QED
          BY <4>2
      <3>5. CASE m # 1 /\ a # None /\ a + 1 = m
        <4>1. t = [s EXCEPT !.input = w[m], !.inOperand = None]
          BY <3>1, <3>5 DEF PlainTurn
        <4>2. /\ t.bad = s.bad /\ t.inOperand = None /\ t.outOperand = b /\ t.name = s.name
              /\ t.input = w[m] /\ t.output = s.output /\ t.args = s.args
          BY <4>1 DEF CommandState
        <4>3. ~(b # None /\ b + 1 = m)
          BY <1>2, <1>4, <2>5, <3>5
        <4>4. m > 0 /\ m - 1 > 0
          BY <1>4, <3>5
        <4> HIDE DEF t
        <4> QED
          BY <1>5, <1>8, <2>1, <2>2, <2>3, <2>4, <2>6, <2>7, <2>8, <2>11, <3>2, <3>5,
             <4>2, <4>3, <4>4
      <3>6. CASE m # 1 /\ a = None /\ b # None /\ b + 1 # m
        <4>1. t = [s EXCEPT !.bad = TRUE]
          BY <3>1, <3>6 DEF PlainTurn
        <4>2. t.bad /\ ~GoodTo(A, B, P, m)
          BY <2>2, <3>2, <3>6, <4>1 DEF CommandState
        <4> QED
          BY <4>2
      <3>7. CASE m # 1 /\ a = None /\ b # None /\ b + 1 = m
        <4>1. t = [s EXCEPT !.output = w[m], !.outOperand = None]
          BY <3>1, <3>7 DEF PlainTurn
        <4>2. /\ t.bad = s.bad /\ t.inOperand = a /\ t.outOperand = None /\ t.name = s.name
              /\ t.input = s.input /\ t.output = w[m] /\ t.args = s.args
          BY <4>1 DEF CommandState
        <4>3. m > 0 /\ m - 1 > 0
          BY <1>4, <3>7
        <4> HIDE DEF t
        <4> QED
          BY <1>5, <1>8, <2>1, <2>2, <2>3, <2>4, <2>6, <2>7, <2>8, <2>11, <3>2, <3>7,
             <4>2, <4>3
      <3>8. CASE m # 1 /\ a = None /\ b = None
        <4>1. t = [s EXCEPT !.args = Append(@, w[m])]
          BY <3>1, <3>8 DEF PlainTurn
        <4>2. /\ t.bad = s.bad /\ t.inOperand = a /\ t.outOperand = b /\ t.name = s.name
              /\ t.input = s.input /\ t.output = s.output /\ t.args = Append(s.args, w[m])
          BY <4>1 DEF CommandState
        <4>3. m > 0 /\ m - 1 > 0
          BY <1>4, <3>8
        <4> HIDE DEF t
        <4> QED
          BY <1>5, <1>8, <2>1, <2>2, <2>3, <2>4, <2>6, <2>7, <2>9, <2>11, <3>2, <3>8,
             <4>2, <4>3
      <3> QED
        BY <3>3, <3>4, <3>5, <3>6, <3>7, <3>8
    <2> QED
      BY <2>10, <2>11
  <1> QED
    BY <1>4, <1>7, <1>8

\* The reference, in terms of the kinds of words.
LEMMA GoodWordsIs ==
  ASSUME NEW w \in Seq(Word \ {{}})
  PROVE  GoodWords(w) <=> GoodTo(Ins(w), Outs(w), Plains(w), Len(w))
  <1> DEFINE n == Len(w)
  <1>1. n \in Nat /\ DOMAIN w = 1 .. n
    OBVIOUS
  <1>2. \A k \in 1 .. n : /\ k \in Ins(w) <=> Is(w[k], "<")
                          /\ k \in Outs(w) <=> Is(w[k], ">")
                          /\ k \in Plains(w) <=> Plain(w[k])
    BY DEF Ins, Outs, Plains
  <1>3. /\ \A k : PlainAt(w, k) <=> k \in Plains(w)
        /\ \A k : IsAt(w, k, "<") <=> k \in Ins(w)
    BY <1>1 DEF PlainAt, IsAt, Plains, Ins
  <1>4. GoodWords(w) <=>
          \A k \in 1 .. n, j \in 1 .. n :
            k < j /\ k \notin Plains(w) /\ k + 1 \notin Plains(w) =>
              IF k \in Ins(w) THEN j \in Outs(w)
              ELSE j \in Ins(w) \/ (j \in Plains(w) /\ j - 1 \in Ins(w))
    BY <1>1, <1>2, <1>3 DEF GoodWords
  <1> QED
    BY <1>4 DEF GoodTo

LEMMA OperandIsLast ==
  ASSUME NEW w \in Seq(Word \ {{}}), NEW char, NEW v,
         NEW R, R = {k \in 1 .. Len(w) : Is(w[k], char)},
         OperandIs(w, R, Plains(w), Len(w), v)
  PROVE  v = Operand(w, char)
  <1> DEFINE n == Len(w)
             At(k) == OperandAt(R, Plains(w), k)
             places == {k \in DOMAIN w : k > 1 /\ Plain(w[k]) /\ IsAt(w, k - 1, char)}
             last == CHOOSE k \in places : \A j \in places : j <= k
  <1>1. n \in Nat /\ DOMAIN w = 1 .. n
    OBVIOUS
  <1>2. \A k : k \in places <=> k \in 1 .. n /\ At(k)
    BY <1>1 DEF OperandAt, IsAt, Plains
  <1>3. Operand(w, char) = IF places = {} THEN {} ELSE w[last]
    BY DEF Operand
  <1>4. IF \E k \in 1 .. n : At(k)
          THEN \E k \in 1 .. n : At(k) /\ v = w[k] /\ \A j \in 1 .. n : At(j) => j <= k
          ELSE v = {}
    BY DEF OperandIs
  <1> HIDE DEF At, places
  <1>5. CASE \E k \in 1 .. n : At(k)
    <2>1. PICK k \in 1 .. n : At(k) /\ v = w[k] /\ \A j \in 1 .. n : At(j) => j <= k
      BY <1>4, <1>5
    <2>2. k \in places /\ \A j \in places : j <= k
      BY <1>2, <2>1
    <2>3. last \in places /\ \A j \in places : j <= last
      BY <2>2
    <2>4. last = k
      <3>1. last <= k /\ k <= last /\ last \in Nat /\ k \in Nat
        BY <1>1, <1>2, <2>2, <2>3
      <3> QED
        BY <3>1
    <2> QED
      BY <1>3, <2>1, <2>2, <2>4
  <1>6. CASE ~ \E k \in 1 .. n : At(k)
    BY <1>2, <1>3, <1>4, <1>6
  <1> QED
    BY <1>5, <1>6

\* A command is rejected or made as the reference says, whatever its words.
THEOREM CommandsExact ==
  ASSUME NEW w \in Seq(Word \ {{}})
  PROVE  /\ CommandOf(w) \in CommandState
         /\ CommandOf(w).bad <=> ~GoodWords(w)
         /\ ~CommandOf(w).bad => Command(CommandOf(w)) = RefCommand(w)
  <1> DEFINE n == Len(w)
             c == CommandOf(w)
  <1>1. n \in Nat /\ DOMAIN w = 1 .. n
    OBVIOUS
  <1>2. PICK T \in [0 .. n -> CommandState] :
            /\ T[0] = NoCommand
            /\ \A m \in 1 .. n : T[m] = WordTurn(w, T[m - 1], m)
            /\ c = T[n]
    BY CommandRun
  <1>3. CommandIs(w, 0, NoCommand)
    <2>1. \A A, B, P : GoodTo(A, B, P, 0)
      BY DEF GoodTo
    <2>2. Ins(w) \subseteq 1 .. n /\ Outs(w) \subseteq 1 .. n
      BY DEF Ins, Outs
    <2>3. \A P : OpenIs(Ins(w), P, 0, None) /\ OpenIs(Outs(w), P, 0, None)
      BY <1>1, <2>2 DEF OpenIs, IsOpen
    <2>4. \A R, P : OperandIs(w, R, P, 0, {})
      BY DEF OperandIs
    <2>5. \A P : ArgsAre(w, Arguments(P, 0), <<>>)
      <3>1. \A P : Arguments(P, 0) = {}
        BY DEF Arguments
      <3>2. Cardinality({}) = 0
        BY FS_EmptySet
      <3> QED
        BY <3>1, <3>2 DEF ArgsAre
    <2> QED
      BY <2>1, <2>3, <2>4, <2>5 DEF CommandIs, NoCommand
  <1>4. CommandIs(w, n, c)
    <2> DEFINE S == {m \in 0 .. n : CommandIs(w, m, T[m])}
    <2>1. 0 \in S
      BY <1>1, <1>2, <1>3
    <2>2. ASSUME NEW m \in 1 .. n, m - 1 \in S
          PROVE  m \in S
      <3>1. T[m - 1] \in CommandState /\ CommandIs(w, m - 1, T[m - 1])
        BY <1>1, <1>2, <2>2
      <3>2. CommandIs(w, m, WordTurn(w, T[m - 1], m))
        BY <3>1, CommandTurn
      <3> QED
        BY <1>1, <1>2, <3>2
    <2> HIDE DEF S
    <2>3. n \in S
      <3>1. 0 .. n \subseteq S
        BY <1>1, <2>1, <2>2, StepByStep
      <3> QED
        BY <1>1, <3>1
    <2> QED
      BY <1>2, <2>3 DEF S
  <1>5. c \in CommandState
    BY <1>1, <1>2
  <1>6. c.bad <=> ~GoodWords(w)
    BY <1>4, GoodWordsIs DEF CommandIs
  <1>7. ASSUME ~c.bad
        PROVE  Command(c) = RefCommand(w)
    <2> DEFINE kept == {k \in DOMAIN w : k > 1 /\ Plain(w[k]) /\ Plain(w[k - 1])}
               args == [x \in 1 .. Cardinality(kept) |->
                          w[CHOOSE k \in kept : Cardinality({j \in kept : j <= k}) = x]]
    <2>1. /\ c.name = IF n > 0 /\ 1 \in Plains(w) THEN w[1] ELSE {}
          /\ OperandIs(w, Ins(w), Plains(w), n, c.input)
          /\ OperandIs(w, Outs(w), Plains(w), n, c.output)
          /\ ArgsAre(w, Arguments(Plains(w), n), c.args)
      BY <1>4, <1>7 DEF CommandIs
    <2>2. c.name = IF PlainAt(w, 1) THEN w[1] ELSE {}
      BY <1>1, <2>1 DEF PlainAt, Plains
    <2>3. c.input = Operand(w, "<") /\ c.output = Operand(w, ">")
      BY <2>1, OperandIsLast DEF Ins, Outs
    <2>4. Arguments(Plains(w), n) = kept
      BY <1>1 DEF Arguments, Plains
    <2>5. c.args \in Seq(Word \ {{}})
      BY <1>5 DEF CommandState
    <2>6. c.args = args
      <3>1. /\ Len(c.args) = Cardinality(kept)
            /\ \A k \in kept : c.args[Rank(kept, k)] = w[k]
            /\ \A x \in 1 .. Len(c.args) : \E k \in kept : Rank(kept, k) = x
        BY <2>1, <2>4 DEF ArgsAre
      <3>2. args = [x \in 1 .. Len(c.args) |-> w[CHOOSE k \in kept : Rank(kept, k) = x]]
        BY <3>1 DEF Rank
      <3> HIDE DEF args, kept
      <3>3. ASSUME NEW x \in 1 .. Len(c.args)
            PROVE  c.args[x] = w[CHOOSE k \in kept : Rank(kept, k) = x]
        BY <3>1
      <3>4. c.args = [x \in 1 .. Len(c.args) |-> c.args[x]]
        BY <2>5
      <3> QED
        BY <3>2, <3>3, <3>4
    <2> QED
      BY <2>2, <2>3, <2>6 DEF Command, RefCommand
  <1> QED
    BY <1>5, <1>6, <1>7

-----------------------------------------------------------------------------
(* The lexer of the shell: the words of a part of the line, by the reference. *)

\* The words ws of the places from .. to, where C are the places of words, S those of
\* separators, and R those of redirections, which are separators and words.
Apart3(C, R, S, from, to) ==
  /\ from \in Nat /\ to \in Nat
  /\ C \in SUBSET (from .. to) /\ S \in SUBSET (from .. to) /\ R \in SUBSET S
  /\ C \cap S = {}

\* Each word is a redirection, or a set of places that no separator separates; the
\* words are in order, and separators stand between.
Parted(C, R, S, ws) ==
  /\ \A n \in 1 .. Len(ws) :
       /\ ws[n] # {}
       /\ (\E r \in R : ws[n] = {r})
            \/ (ws[n] \subseteq C /\ \A i, j \in ws[n], k \in S : ~(i < k /\ k < j))
  /\ \A n, x \in 1 .. Len(ws) : n < x =>
       \A i \in ws[n], j \in ws[x] : i < j /\ \E k \in S : i <= k /\ k <= j

Covered(C, R, ws, word, p) ==
  /\ \A i \in C : i < p => i \in word \/ \E n \in 1 .. Len(ws) : i \in ws[n]
  /\ \A i \in R : i < p => \E n \in 1 .. Len(ws) : ws[n] = {i}

\* The words that end before p, and the one that does not.
CutAt(C, R, S, ws, word, p) ==
  /\ Parted(C, R, S, ws) /\ Covered(C, R, ws, word, p)
  /\ word \subseteq C
  /\ \A i \in word : i < p /\ \A k \in S : k < p => k < i
  /\ \A n \in 1 .. Len(ws) : \A i \in ws[n] : i < p /\ \E k \in S : i <= k /\ k < p

Closed(ws, word) == IF word = {} THEN ws ELSE Append(ws, word)

\* One more word at the end.
LEMMA MoreParted ==
  ASSUME NEW C, NEW R, NEW S, NEW from, NEW to, Apart3(C, R, S, from, to),
         NEW T, NEW ws \in Seq(T), Parted(C, R, S, ws), NEW w \in T, w # {},
         \/ \E r \in R : w = {r}
         \/ w \subseteq C /\ \A i, j \in w, k \in S : ~(i < k /\ k < j),
         \A n \in 1 .. Len(ws) : \A i \in ws[n], j \in w : i < j /\ \E k \in S : i <= k /\ k <= j
  PROVE  Parted(C, R, S, Append(ws, w))
  <1> DEFINE more == Append(ws, w)
             l == Len(ws)
  <1>1. /\ Len(more) = l + 1 /\ more[l + 1] = w /\ l \in Nat
        /\ \A n \in 1 .. l : more[n] = ws[n]
    OBVIOUS
  <1>2. \A n \in 1 .. l + 1 : n = l + 1 \/ n \in 1 .. l
    BY <1>1
  <1> HIDE DEF more, l
  <1>3. ASSUME NEW n \in 1 .. l + 1
        PROVE  /\ more[n] # {}
               /\ (\E r \in R : more[n] = {r})
                    \/ (more[n] \subseteq C /\ \A i, j \in more[n], k \in S : ~(i < k /\ k < j))
    <2>1. CASE n = l + 1
      BY <1>1, <2>1
    <2>2. CASE n \in 1 .. l
      <3>1. /\ ws[n] # {}
            /\ (\E r \in R : ws[n] = {r})
                 \/ (ws[n] \subseteq C /\ \A i, j \in ws[n], k \in S : ~(i < k /\ k < j))
        BY <2>2 DEF Parted, l
      <3> QED
        BY <1>1, <2>2, <3>1
    <2> QED
      BY <1>2, <2>1, <2>2
  <1>4. ASSUME NEW n \in 1 .. l + 1, NEW x \in 1 .. l + 1, n < x,
               NEW i \in more[n], NEW j \in more[x]
        PROVE  i < j /\ \E k \in S : i <= k /\ k <= j
    <2>1. n \in 1 .. l /\ i \in ws[n]
      BY <1>1, <1>2, <1>4
    <2>2. CASE x = l + 1
      <3>1. j \in w
        BY <1>1, <1>4, <2>2
      <3> QED
        BY <2>1, <3>1 DEF l
    <2>3. CASE x \in 1 .. l
      <3>1. j \in ws[x]
        BY <1>1, <1>4, <2>3
      <3> QED
        BY <1>4, <2>1, <2>3, <3>1 DEF Parted, l
    <2> QED
      BY <1>2, <2>2, <2>3
  <1>5. Parted(C, R, S, more)
    BY <1>1, <1>3, <1>4 DEF Parted
  <1> QED
    BY <1>5 DEF more

LEMMA Closing ==
  ASSUME NEW C, NEW R, NEW S, NEW from, NEW to, Apart3(C, R, S, from, to), NEW p \in Nat,
         NEW T, NEW ws \in Seq(T), NEW word \in T, CutAt(C, R, S, ws, word, p)
  PROVE  /\ Closed(ws, word) \in Seq(T)
         /\ Parted(C, R, S, Closed(ws, word))
         /\ Covered(C, R, Closed(ws, word), {}, p)
         /\ \A n \in 1 .. Len(Closed(ws, word)) : \A i \in Closed(ws, word)[n] : i < p
  <1>1. CASE word = {}
    BY <1>1 DEF Closed, CutAt
  <1>2. CASE word # {}
    <2> DEFINE more == Append(ws, word)
               l == Len(ws)
    <2>1. Closed(ws, word) = more
      BY <1>2 DEF Closed
    <2>2. /\ Len(more) = l + 1 /\ more[l + 1] = word /\ l \in Nat /\ more \in Seq(T)
          /\ \A n \in 1 .. l : more[n] = ws[n]
      OBVIOUS
    <2>3. \A n \in 1 .. l + 1 : n = l + 1 \/ n \in 1 .. l
      BY <2>2
    <2>4. /\ Parted(C, R, S, ws) /\ Covered(C, R, ws, word, p)
          /\ word \subseteq C
          /\ \A i \in word : i < p /\ \A k \in S : k < p => k < i
          /\ \A n \in 1 .. l : \A i \in ws[n] : i < p /\ \E k \in S : i <= k /\ k < p
      BY DEF CutAt
    <2>5. S \subseteq Nat /\ C \subseteq Nat /\ R \subseteq Nat
      BY DEF Apart3
    <2>6. \A i, j \in word, k \in S : ~(i < k /\ k < j)
      BY <2>4, <2>5
    <2>7. ASSUME NEW n \in 1 .. l, NEW i \in ws[n], NEW j \in word
          PROVE  i < j /\ \E k \in S : i <= k /\ k <= j
      <3>1. PICK k \in S : i <= k /\ k < p
        BY <2>4
      <3>2. k < j
        BY <2>4, <3>1
      <3>3. i \in Nat
        <4>1. ws[n] \subseteq C \/ \E r \in R : ws[n] = {r}
          BY <2>4 DEF Parted
        <4> QED
          BY <2>5, <4>1
      <3> QED
        BY <2>4, <2>5, <3>1, <3>2, <3>3
    <2>8. Parted(C, R, S, more)
      BY <1>2, <2>4, <2>6, <2>7, MoreParted
    <2> HIDE DEF more, l
    <2>9. Covered(C, R, more, {}, p)
      <3>1. ASSUME NEW i \in C, i < p
            PROVE  \E n \in 1 .. l + 1 : i \in more[n]
        <4>1. CASE i \in word
          BY <2>2, <4>1
        <4>2. CASE \E n \in 1 .. l : i \in ws[n]
          <5>1. PICK n \in 1 .. l : i \in ws[n]
            BY <4>2
          <5>2. n \in 1 .. l + 1
            BY <2>2
          <5> QED
            BY <2>2, <5>1, <5>2
        <4> QED
          BY <2>4, <3>1, <4>1, <4>2 DEF Covered, l
      <3>2. ASSUME NEW i \in R, i < p
            PROVE  \E n \in 1 .. l + 1 : more[n] = {i}
        <4>1. PICK n \in 1 .. l : ws[n] = {i}
          BY <2>4, <3>2 DEF Covered, l
        <4>2. n \in 1 .. l + 1
          BY <2>2
        <4> QED
          BY <2>2, <4>1, <4>2
      <3> QED
        BY <2>2, <3>1, <3>2 DEF Covered
    <2>10. \A n \in 1 .. Len(more) : \A i \in more[n] : i < p
      BY <2>2, <2>3, <2>4
    <2> QED
      BY <2>1, <2>2, <2>8, <2>9, <2>10
  <1> QED
    BY <1>1, <1>2

\* What the next place makes of the words before it.
LEMMA CutTurns ==
  ASSUME NEW C, NEW R, NEW S, NEW from, NEW to, Apart3(C, R, S, from, to), NEW p \in Nat,
         NEW T, NEW ws \in Seq(T), NEW word \in T, CutAt(C, R, S, ws, word, p), {} \in T
  PROVE  /\ p \in R /\ {p} \in T => CutAt(C, R, S, Append(Closed(ws, word), {p}), {}, p + 1)
         /\ p \in S /\ p \notin R => CutAt(C, R, S, Closed(ws, word), {}, p + 1)
         /\ p \in C => CutAt(C, R, S, ws, word \cup {p}, p + 1)
         /\ p \notin C /\ p \notin S => CutAt(C, R, S, ws, word, p + 1)
  <1> DEFINE cl == Closed(ws, word)
             l == Len(cl)
  <1>1. /\ cl \in Seq(T) /\ l \in Nat
        /\ Parted(C, R, S, cl)
        /\ Covered(C, R, cl, {}, p)
        /\ \A n \in 1 .. l : \A i \in cl[n] : i < p
    <2>1. /\ cl \in Seq(T)
          /\ Parted(C, R, S, cl)
          /\ Covered(C, R, cl, {}, p)
          /\ \A n \in 1 .. Len(cl) : \A i \in cl[n] : i < p
      BY Closing
    <2> HIDE DEF cl
    <2> QED
      BY <2>1
  <1>2. /\ S \subseteq Nat /\ C \subseteq Nat /\ R \subseteq S /\ R \subseteq Nat
        /\ \A i \in C : i \notin S
    BY DEF Apart3
  <1>3. /\ Parted(C, R, S, ws) /\ Covered(C, R, ws, word, p)
        /\ word \subseteq C
        /\ \A i \in word : i < p /\ \A k \in S : k < p => k < i
        /\ \A n \in 1 .. Len(ws) : \A i \in ws[n] : i < p /\ \E k \in S : i <= k /\ k < p
    BY DEF CutAt
  <1>4. \A i \in Nat : i < p + 1 <=> i < p \/ i = p
    OBVIOUS
  <1>5. /\ \A n \in 1 .. Len(ws) : \A i \in ws[n] : i \in Nat
        /\ \A n \in 1 .. l : \A i \in cl[n] : i \in Nat
    <2>1. /\ \A n \in 1 .. Len(ws) : ws[n] \subseteq C \/ \E r \in R : ws[n] = {r}
          /\ \A n \in 1 .. l : cl[n] \subseteq C \/ \E r \in R : cl[n] = {r}
      BY <1>1, <1>3 DEF Parted
    <2>2. ASSUME NEW w, w \subseteq C \/ \E r \in R : w = {r}
          PROVE  \A i \in w : i \in Nat
      BY <1>2, <2>2
    <2> HIDE DEF cl, l
    <2> QED
      BY <2>1, <2>2
  <1> HIDE DEF cl, l
  <1>6. ASSUME p \in R, {p} \in T
        PROVE  CutAt(C, R, S, Append(cl, {p}), {}, p + 1)
    <2> DEFINE more == Append(cl, {p})
    <2>1. /\ Len(more) = l + 1 /\ more[l + 1] = {p}
          /\ \A n \in 1 .. l : more[n] = cl[n] /\ n \in 1 .. l + 1
          /\ \A n \in 1 .. l + 1 : n = l + 1 \/ n \in 1 .. l
      BY <1>1, <1>6 DEF l
    <2>2. \A n \in 1 .. Len(cl) : \A i \in cl[n], j \in {p} :
             i < j /\ \E k \in S : i <= k /\ k <= j
      BY <1>1, <1>2, <1>5, <1>6 DEF l
    <2>3. Parted(C, R, S, more)
      BY <1>1, <1>6, <2>2, MoreParted
    <2> HIDE DEF more
    <2>4. Covered(C, R, more, {}, p + 1)
      <3>1. ASSUME NEW i \in C, i < p + 1
            PROVE  \E n \in 1 .. l + 1 : i \in more[n]
        <4>1. i < p
          BY <1>2, <1>4, <1>6, <3>1
        <4>2. PICK n \in 1 .. l : i \in cl[n]
          BY <1>1, <4>1 DEF Covered, l
        <4> QED
          BY <2>1, <4>2
      <3>2. ASSUME NEW i \in R, i < p + 1
            PROVE  \E n \in 1 .. l + 1 : more[n] = {i}
        <4>1. CASE i = p
          BY <1>1, <2>1, <4>1
        <4>2. CASE i < p
          <5>1. PICK n \in 1 .. l : cl[n] = {i}
            BY <1>1, <4>2 DEF Covered, l
          <5> QED
            BY <2>1, <5>1
        <4> QED
          BY <1>2, <1>4, <3>2, <4>1, <4>2
      <3> QED
        BY <2>1, <3>1, <3>2 DEF Covered
    <2>5. ASSUME NEW n \in 1 .. l + 1, NEW i \in more[n]
          PROVE  i < p + 1 /\ i <= p
      <3>1. n = l + 1 \/ n \in 1 .. l
        BY <2>1, <2>5
      <3>2. CASE n = l + 1
        BY <2>1, <2>5, <3>2
      <3>3. CASE n \in 1 .. l
        <4>1. i \in cl[n]
          BY <2>1, <2>5, <3>3
        <4>2. i < p /\ i \in Nat
          BY <1>1, <1>5, <3>3, <4>1
        <4> QED
          BY <4>2
      <3> QED
        BY <3>1, <3>2, <3>3
    <2>6. p \in S /\ p < p + 1
      BY <1>2, <1>6
    <2> QED
      BY <2>1, <2>3, <2>4, <2>5, <2>6 DEF CutAt, more
  <1>7. ASSUME p \in S, p \notin R
        PROVE  CutAt(C, R, S, cl, {}, p + 1)
    <2>1. Covered(C, R, cl, {}, p + 1)
      BY <1>1, <1>2, <1>4, <1>7 DEF Covered
    <2>2. \A n \in 1 .. l : \A i \in cl[n] : i < p + 1 /\ i <= p
      BY <1>1, <1>5
    <2>3. p < p + 1
      OBVIOUS
    <2> QED
      BY <1>1, <1>7, <2>1, <2>2, <2>3 DEF CutAt, l
  <1>8. ASSUME p \in C
        PROVE  CutAt(C, R, S, ws, word \cup {p}, p + 1)
    <2>1. Covered(C, R, ws, word \cup {p}, p + 1)
      BY <1>2, <1>3, <1>4, <1>8 DEF Covered
    <2>2. \A i \in word \cup {p} : i < p + 1 /\ \A k \in S : k < p + 1 => k < i
      BY <1>2, <1>3, <1>4, <1>8
    <2>3. \A n \in 1 .. Len(ws) : \A i \in ws[n] : i < p + 1 /\ \E k \in S : i <= k /\ k < p + 1
      BY <1>2, <1>3, <1>4, <1>5
    <2> QED
      BY <1>3, <1>8, <2>1, <2>2, <2>3 DEF CutAt
  <1>9. ASSUME p \notin C, p \notin S
        PROVE  CutAt(C, R, S, ws, word, p + 1)
    <2>1. Covered(C, R, ws, word, p + 1)
      BY <1>2, <1>3, <1>4, <1>9 DEF Covered
    <2>2. \A i \in word : i < p + 1 /\ \A k \in S : k < p + 1 => k < i
      BY <1>2, <1>3, <1>4, <1>9
    <2>3. \A n \in 1 .. Len(ws) : \A i \in ws[n] : i < p + 1 /\ \E k \in S : i <= k /\ k < p + 1
      BY <1>2, <1>3, <1>4, <1>5
    <2> QED
      BY <1>3, <2>1, <2>2, <2>3 DEF CutAt
  <1> QED
    BY <1>6, <1>7, <1>8, <1>9 DEF cl

\* A row of sets of numbers, one behind the other.
Ordered(ws) ==
  /\ \A n \in 1 .. Len(ws) : ws[n] # {} /\ ws[n] \subseteq Nat
  /\ \A n, x \in 1 .. Len(ws) : n < x => \A i \in ws[n], j \in ws[x] : i < j

\* The reference numbers sets of places from left to right.
LEMMA Numbered ==
  ASSUME NEW T, NEW ws \in Seq(T), Ordered(ws),
         NEW S, S = {ws[n] : n \in 1 .. Len(ws)}
  PROVE  LeftToRight(S) = ws /\ Cardinality(S) = Len(ws)
  <1> DEFINE l == Len(ws)
             Up(m) == {ws[n] : n \in 1 .. m}
             Left(w) == {v \in S : \E i \in v : \A j \in w : i <= j}
  <1>1. l \in Nat /\ ws = [n \in 1 .. l |-> ws[n]]
    OBVIOUS
  <1>2. /\ \A n \in 1 .. l : ws[n] # {} /\ ws[n] \subseteq Nat
        /\ \A n, x \in 1 .. l : n < x => \A i \in ws[n], j \in ws[x] : i < j
    BY DEF Ordered
  <1>3. ASSUME NEW n \in 1 .. l, NEW x \in 1 .. l, ws[n] = ws[x]
        PROVE  n = x
    <2>1. PICK i \in ws[n] : i \in Nat
      BY <1>2
    <2>2. ~(n < x) /\ ~(x < n)
      BY <1>2, <1>3, <2>1
    <2> QED
      BY <2>2
  <1>4. \A m \in 0 .. l : IsFiniteSet(Up(m)) /\ Cardinality(Up(m)) = m
    <2> DEFINE G == {m \in 0 .. l : IsFiniteSet(Up(m)) /\ Cardinality(Up(m)) = m}
    <2>1. 0 \in G
      <3>1. Up(0) = {}
        OBVIOUS
      <3>2. IsFiniteSet(Up(0)) /\ Cardinality(Up(0)) = 0
        BY <3>1, FS_EmptySet
      <3> HIDE DEF Up
      <3> QED
        BY <1>1, <3>2
    <2>2. ASSUME NEW m \in 1 .. l, m - 1 \in G
          PROVE  m \in G
      <3>1. Up(m) = Up(m - 1) \cup {ws[m]}
        <4>1. \A n \in 1 .. m : n = m \/ n \in 1 .. m - 1
          OBVIOUS
        <4>2. m \in 1 .. m /\ 1 .. m - 1 \subseteq 1 .. m
          OBVIOUS
        <4> QED
          BY <4>1, <4>2
      <3>2. ws[m] \notin Up(m - 1)
        <4>1. ASSUME NEW n \in 1 .. m - 1
              PROVE  ws[m] # ws[n]
          <5>1. n \in 1 .. l /\ n # m
            OBVIOUS
          <5> QED
            BY <1>3, <5>1
        <4> QED
          BY <4>1
      <3>3. IsFiniteSet(Up(m - 1)) /\ Cardinality(Up(m - 1)) = m - 1
        BY <2>2
      <3> HIDE DEF Up
      <3>4. IsFiniteSet(Up(m)) /\ Cardinality(Up(m)) = (m - 1) + 1
        BY <3>1, <3>2, <3>3, FS_AddElement
      <3> QED
        BY <3>4
    <2> HIDE DEF G
    <2>3. 0 .. l \subseteq G
      BY <1>1, <2>1, <2>2, StepByStep
    <2> QED
      BY <2>3 DEF G
  <1>5. Cardinality(S) = l
    <2>1. S = Up(l) /\ l \in 0 .. l
      BY <1>1
    <2> QED
      BY <1>4, <2>1
  <1>6. ASSUME NEW n \in 1 .. l
        PROVE  Left(ws[n]) = Up(n)
    <2>1. ASSUME NEW x \in 1 .. l
          PROVE  (\E i \in ws[x] : \A j \in ws[n] : i <= j) <=> x <= n
      <3>1. CASE x < n
        <4>1. PICK i \in ws[x] : i \in Nat
          BY <1>2
        <4>2. \A j \in ws[n] : i <= j
          BY <1>2, <3>1, <4>1
        <4> QED
          BY <3>1, <4>1, <4>2
      <3>2. CASE x = n
        <4>1. \E i \in ws[n] : \A j \in ws[n] : i <= j
          BY <1>2, LeastNumber
        <4> QED
          BY <3>2, <4>1
      <3>3. CASE n < x
        <4>1. PICK j \in ws[n] : j \in Nat
          BY <1>2
        <4>2. \A i \in ws[x] : j < i /\ i \in Nat
          BY <1>2, <3>3, <4>1
        <4>3. \A i \in ws[x] : ~(i <= j)
          BY <4>1, <4>2
        <4> QED
          BY <3>3, <4>1, <4>3
      <3> QED
        BY <3>1, <3>2, <3>3
    <2>2. \A x : x \in 1 .. n <=> x \in 1 .. l /\ x <= n
      BY <1>1
    <2> QED
      BY <2>1, <2>2
  <1>7. LeftToRight(S) = [n \in 1 .. Cardinality(S) |-> CHOOSE w \in S : Cardinality(Left(w)) = n]
    BY DEF LeftToRight
  <1> HIDE DEF Left
  <1>8. ASSUME NEW n \in 1 .. l
        PROVE  (CHOOSE w \in S : Cardinality(Left(w)) = n) = ws[n]
    <2> DEFINE c == CHOOSE w \in S : Cardinality(Left(w)) = n
    <2>1. ASSUME NEW x \in 1 .. l
          PROVE  Cardinality(Left(ws[x])) = x
      <3>1. x \in 0 .. l
        OBVIOUS
      <3>2. Left(ws[x]) = Up(x) /\ Cardinality(Up(x)) = x
        BY <1>4, <1>6, <3>1
      <3> QED
        BY <3>2
    <2>2. ws[n] \in S
      OBVIOUS
    <2>3. c \in S /\ Cardinality(Left(c)) = n
      BY <2>1, <2>2
    <2>4. PICK x \in 1 .. l : c = ws[x]
      BY <2>3
    <2> QED
      BY <2>1, <2>3, <2>4
  <1> QED
    BY <1>1, <1>5, <1>7, <1>8

\* Words that are parted by separators and cover all the places are the pieces.
LEMMA PartedPieces ==
  ASSUME NEW C, NEW R, NEW S, NEW from, NEW to, Apart3(C, R, S, from, to),
         NEW T, NEW ws \in Seq(T), Parted(C, R, S, ws), Covered(C, R, ws, {}, to + 1)
  PROVE  LeftToRight(Pieces(C, S) \cup {{i} : i \in R}) = ws
  <1> DEFINE l == Len(ws)
             Piece(i) == {j \in C : \A k \in S : (k < i) <=> (k < j)}
             all == {Piece(i) : i \in C} \cup {{i} : i \in R}
  <1>1. /\ S \subseteq Nat /\ C \subseteq Nat /\ R \subseteq S /\ R \subseteq Nat
        /\ \A i \in C : i \notin S /\ i < to + 1
        /\ \A i \in R : i < to + 1
    BY DEF Apart3
  <1>2. \A n \in 1 .. l : /\ ws[n] # {}
                          /\ (\E r \in R : ws[n] = {r})
                               \/ (ws[n] \subseteq C /\ \A i, j \in ws[n], k \in S : ~(i < k /\ k < j))
    BY DEF Parted
  <1>3. \A n, x \in 1 .. l : n < x =>
          \A i \in ws[n], j \in ws[x] : i < j /\ \E k \in S : i <= k /\ k <= j
    BY DEF Parted
  <1>4. /\ \A i \in C : \E n \in 1 .. l : i \in ws[n]
        /\ \A i \in R : \E n \in 1 .. l : ws[n] = {i}
    BY <1>1 DEF Covered
  <1>5. \A n \in 1 .. l, i \in C : i \in ws[n] =>
          ws[n] \subseteq C /\ \A a, b \in ws[n], k \in S : ~(a < k /\ k < b)
    BY <1>1, <1>2
  <1>6. ASSUME NEW n \in 1 .. l, NEW i \in C, i \in ws[n]
        PROVE  Piece(i) = ws[n]
    <2>1. ASSUME NEW j \in ws[n]
          PROVE  j \in Piece(i)
      <3>1. j \in C
        BY <1>5, <1>6
      <3>2. ASSUME NEW k \in S
            PROVE  (k < i) <=> (k < j)
        <4>1. k # i /\ k # j /\ k \in Nat /\ i \in Nat /\ j \in Nat
          BY <1>1, <3>1
        <4>2. ~(i < k /\ k < j) /\ ~(j < k /\ k < i)
          BY <1>5, <1>6
        <4> QED
          BY <4>1, <4>2
      <3> QED
        BY <3>1, <3>2
    <2>2. ASSUME NEW j \in C, \A k \in S : (k < i) <=> (k < j)
          PROVE  j \in ws[n]
      <3>1. PICK x \in 1 .. l : j \in ws[x]
        BY <1>4
      <3>2. ASSUME x # n
            PROVE  FALSE
        <4>1. \E k \in S : (i <= k /\ k <= j) \/ (j <= k /\ k <= i)
          <5>1. n < x \/ x < n
            BY <3>2
          <5> QED
            BY <1>3, <1>6, <3>1, <5>1
        <4>2. PICK k \in S : (i <= k /\ k <= j) \/ (j <= k /\ k <= i)
          BY <4>1
        <4>3. k # i /\ k # j /\ k \in Nat /\ i \in Nat /\ j \in Nat
          BY <1>1
        <4> QED
          BY <2>2, <4>2, <4>3
      <3> QED
        BY <3>1, <3>2
    <2> QED
      BY <2>1, <2>2
  <1>7. Pieces(C, S) \cup {{i} : i \in R} = all
    BY DEF Pieces
  <1>8. all = {ws[n] : n \in 1 .. l}
    <2> HIDE DEF Piece
    <2>1. ASSUME NEW n \in 1 .. l
          PROVE  ws[n] \in all
      <3>1. CASE \E r \in R : ws[n] = {r}
        BY <3>1
      <3>2. CASE ws[n] \subseteq C
        <4>1. PICK i \in ws[n] : i \in C
          BY <1>2, <3>2
        <4>2. Piece(i) = ws[n]
          BY <1>6, <4>1
        <4> QED
          BY <4>1, <4>2
      <3> QED
        BY <1>2, <3>1, <3>2
    <2>2. ASSUME NEW i \in C
          PROVE  \E n \in 1 .. l : Piece(i) = ws[n]
      <3>1. PICK n \in 1 .. l : i \in ws[n]
        BY <1>4
      <3>2. Piece(i) = ws[n]
        BY <1>6, <3>1
      <3> QED
        BY <3>2
    <2>3. ASSUME NEW i \in R
          PROVE  \E n \in 1 .. l : {i} = ws[n]
      BY <1>4
    <2> QED
      BY <2>1, <2>2, <2>3
  <1>9. Ordered(ws)
    <2>1. ASSUME NEW n \in 1 .. l
          PROVE  ws[n] # {} /\ ws[n] \subseteq Nat
      BY <1>1, <1>2
    <2> QED
      BY <1>3, <2>1 DEF Ordered
  <1> HIDE DEF all
  <1> QED
    BY <1>7, <1>8, <1>9, Numbered

\* A command that does not begin within quotation marks is cut into the words of the
\* reference, however long it is.
THEOREM WordsExact ==
  ASSUME line \in Seq(Alphabet), Len(line) <= MaxLength,
         NEW from \in Nat, NEW to \in Nat, 1 <= from, from <= to + 1, to <= Len(line),
         ~Inside(from)
  PROVE  Words(from, to) = RefWords(from .. to)
  <1> DEFINE S == (from .. to) \cap Outside(Blanks \cup Redirects)
             R == (from .. to) \cap Outside(Redirects)
             C == {i \in (from .. to) \ S : ~Has(i, Quotes)}
             n == to - from + 1
             E == Word \ {{}}
  <1>1. RefWords(from .. to) = LeftToRight(Pieces(C, S) \cup {{i} : i \in R})
    BY DEF RefWords
  <1>2. Apart3(C, R, S, from, to) /\ from .. to \subseteq DOMAIN line
    BY DEF Apart3, Outside
  <1>3. MaxLength \in Nat /\ n \in Nat /\ Len(line) \in Nat /\ from + n = to + 1
    BY ShellAssumption
  <1>4. PICK t \in [0 .. n -> SplitState] :
            /\ t[0] = [words |-> <<>>, word |-> {}, quoted |-> FALSE]
            /\ \A m \in 1 .. n : t[m] = SplitTurn(t[m - 1], from + m - 1)
            /\ Words(from, to) = EndWord(t[n]).words
    <2>1. to <= MaxLength
      BY <1>3
    <2> QED
      BY <1>3, <2>1, WordsRun
  <1>5. ASSUME NEW p \in from .. to
        PROVE  /\ p \in S <=> Has(p, Blanks \cup Redirects) /\ ~Inside(p)
               /\ p \in R <=> Has(p, Redirects) /\ ~Inside(p)
               /\ p \in C <=> ~Has(p, Quotes) /\ p \notin S
    BY <1>2 DEF Outside, Has
  <1> HIDE DEF S, R, C, n
  <1> DEFINE Good(m) == /\ CutAt(C, R, S, t[m].words, t[m].word, from + m)
                        /\ t[m].quoted <=> Inside(from + m)
             G == {m \in 0 .. n : Good(m)}
  <1>6. 0 \in G
    <2>1. C \subseteq from .. to /\ R \subseteq from .. to /\ S \subseteq from .. to
      BY <1>2 DEF Apart3
    <2>2. CutAt(C, R, S, <<>>, {}, from)
      BY <2>1 DEF CutAt, Parted, Covered
    <2> QED
      BY <1>3, <1>4, <2>2
  <1>7. ASSUME NEW m \in 1 .. n, m - 1 \in G
        PROVE  m \in G
    <2> DEFINE s == t[m - 1]
               p == from + m - 1
               e == EndWord(s)
    <2>1. m - 1 \in 0 .. n /\ p \in from .. to /\ p \in Nat /\ p \in 1 .. MaxLength
      BY <1>3
    <2>2. s \in SplitState /\ t[m] = SplitTurn(s, p)
      BY <1>4, <2>1
    <2>3. from + (m - 1) = p /\ from + m = p + 1
      BY <1>3
    <2>4. CutAt(C, R, S, s.words, s.word, p) /\ (s.quoted <=> Inside(p))
      BY <1>7, <2>3
    <2>5. /\ s.words \in Seq(Word \ {{}}) /\ s.word \in Word /\ s.quoted \in BOOLEAN
          /\ s.words \in Seq(Word) /\ {} \in Word /\ {p} \in Word
      <3>1. s.words \in Seq(Word \ {{}}) /\ s.word \in Word /\ s.quoted \in BOOLEAN
        BY <2>2 DEF SplitState
      <3>2. s.words \in Seq(Word)
        BY <3>1
      <3>3. {} \in Word /\ {p} \in Word
        BY <2>1 DEF Word, WordType
      <3> QED
        BY <3>1, <3>2, <3>3
    <2>6. /\ e.words = Closed(s.words, s.word) /\ e.word = {} /\ e.quoted = s.quoted
      BY <2>2 DEF EndWord, Closed, SplitState
    <2>7. e \in SplitState
      BY <2>2, EndWordTyped
    <2> HIDE DEF s, p, e
    <2>8. /\ p \in R => CutAt(C, R, S, Append(Closed(s.words, s.word), {p}), {}, p + 1)
          /\ p \in S /\ p \notin R => CutAt(C, R, S, Closed(s.words, s.word), {}, p + 1)
          /\ p \in C => CutAt(C, R, S, s.words, s.word \cup {p}, p + 1)
          /\ p \notin C /\ p \notin S => CutAt(C, R, S, s.words, s.word, p + 1)
      BY <1>2, <2>1, <2>4, <2>5, CutTurns
    <2>9. /\ Has(p, Quotes) => ~Has(p, Redirects) /\ ~Has(p, Blanks)
          /\ Has(p, Redirects) => ~Has(p, Blanks)
          /\ Has(p, Blanks \cup Redirects) <=> Has(p, Blanks) \/ Has(p, Redirects)
      BY DEF Has, Quotes, Redirects, Blanks
    <2>10. ~Has(p, Quotes) => (Inside(p + 1) <=> Inside(p))
      <3>1. p > 0 /\ p + 1 \in Nat /\ p <= p + 1
        BY <2>1
      <3>2. ~Has(p, Quotes) => \A j \in p .. (p + 1) - 1 : ~Has(j, Quotes)
        BY <2>1
      <3> QED
        BY <2>1, <3>1, <3>2, InsideStays
    <2>11. SUFFICES /\ CutAt(C, R, S, t[m].words, t[m].word, p + 1)
                    /\ t[m].quoted <=> Inside(p + 1)
      BY <1>3, <2>3
    <2>12. CASE Has(p, Quotes)
      <3>1. t[m] = [s EXCEPT !.quoted = ~@]
        BY <2>2, <2>9, <2>12 DEF SplitTurn
      <3>2. t[m].words = s.words /\ t[m].word = s.word /\ t[m].quoted = ~s.quoted
        BY <2>2, <3>1 DEF SplitState
      <3>3. p \notin C /\ p \notin S
        BY <1>5, <2>1, <2>9, <2>12
      <3>4. Inside(p + 1) <=> ~Inside(p)
        BY <2>1, <2>12, InsideTurns
      <3> QED
        BY <2>4, <2>8, <3>2, <3>3, <3>4
    <2>13. CASE Has(p, Redirects) /\ ~s.quoted
      <3>1. t[m] = [e EXCEPT !.words = Append(@, {p})]
        BY <2>2, <2>9, <2>13 DEF SplitTurn, e
      <3>2. t[m].words = Append(e.words, {p}) /\ t[m].word = e.word /\ t[m].quoted = e.quoted
        BY <2>7, <3>1 DEF SplitState
      <3>3. p \in R
        BY <1>5, <2>1, <2>4, <2>13
      <3> QED
        BY <2>4, <2>6, <2>8, <2>9, <2>10, <2>13, <3>2, <3>3
    <2>14. CASE Has(p, Blanks) /\ ~s.quoted
      <3>1. t[m] = e
        BY <2>2, <2>9, <2>14 DEF SplitTurn, e
      <3>2. p \in S /\ p \notin R
        BY <1>5, <2>1, <2>4, <2>9, <2>14
      <3> QED
        BY <2>4, <2>6, <2>8, <2>9, <2>10, <2>14, <3>1, <3>2
    <2>15. CASE ~Has(p, Quotes) /\ (s.quoted \/ (~Has(p, Redirects) /\ ~Has(p, Blanks)))
      <3>1. t[m] = [s EXCEPT !.word = @ \cup {p}]
        BY <2>2, <2>15 DEF SplitTurn
      <3>2. t[m].words = s.words /\ t[m].word = s.word \cup {p} /\ t[m].quoted = s.quoted
        BY <2>2, <3>1 DEF SplitState
      <3>3. p \in C
        BY <1>5, <2>1, <2>4, <2>9, <2>15
      <3> QED
        BY <2>4, <2>8, <2>10, <2>15, <3>2, <3>3
    <2> QED
      BY <2>12, <2>13, <2>14, <2>15
  <1>8. Good(n)
    <2> HIDE DEF Good
    <2>1. 0 .. n \subseteq G
      <3> HIDE DEF G
      <3> QED
        BY <1>3, <1>6, <1>7, StepByStep
    <2> QED
      BY <1>3, <2>1
  <1>9. /\ t[n] \in SplitState /\ t[n].words \in Seq(Word) /\ t[n].word \in Word
        /\ CutAt(C, R, S, t[n].words, t[n].word, to + 1)
    <2>1. t[n] \in SplitState
      BY <1>3, <1>4
    <2> QED
      BY <1>3, <1>8, <2>1 DEF SplitState
  <1>10. Words(from, to) = Closed(t[n].words, t[n].word)
    BY <1>4, <1>9 DEF EndWord, Closed, SplitState
  <1>11. /\ Words(from, to) \in Seq(Word) /\ Parted(C, R, S, Words(from, to))
         /\ Covered(C, R, Words(from, to), {}, to + 1)
    BY <1>2, <1>9, <1>10, Closing
  <1> QED
    BY <1>1, <1>2, <1>11, PartedPieces

-----------------------------------------------------------------------------
(* The lexer of the shell: the reference, part by part.                     *)

\* The reference by its parts: the k-th operator, the words before it, and what
\* they make.
Signed == Outside(Signs)
RunCount == Len(Runs)
WordsAt(k) == RefWords(Parts(Runs)[k])
NamedAt(k) == PlainAt(WordsAt(k), 1)
WordsGood(k) == GoodWords(WordsAt(k))
CmdAt(k) == RefCommand(WordsAt(k))
RunGood(k) == GoodRun(Runs[k])
OpAt(k) == Operator(RunType(Runs[k]))
Background(k) == Cardinality(Runs[k]) = 1 /\ SignOf(Runs[k]) = "&"

LEMMA GoodLineIs ==
  line \in Seq(Alphabet) /\ RunCount \in Nat =>
    (GoodLine <=>
       /\ ~Inside(Len(line) + 1)
       /\ \A k \in 1 .. RunCount : RunGood(k) /\ NamedAt(k)
       /\ \A k \in 1 .. RunCount - 1 : ~Background(k)
       /\ RunCount > 0 => (NamedAt(RunCount + 1) <=> ~Background(RunCount))
       /\ \A k \in 1 .. RunCount + 1 : WordsGood(k))
  <1> DEFINE runs  == Runs
             n     == Len(runs)
             parts == Parts(runs)
             words == [k \in DOMAIN parts |-> RefWords(parts[k])]
             named == {k \in DOMAIN words : PlainAt(words[k], 1)}
             Back(k) == Cardinality(runs[k]) = 1 /\ SignOf(runs[k]) = "&"
             marks == Cardinality({i \in DOMAIN line : Has(i, Quotes)})
  <1> SUFFICES ASSUME line \in Seq(Alphabet), RunCount \in Nat
               PROVE  GoodLine <=>
       /\ ~Inside(Len(line) + 1)
       /\ \A k \in 1 .. RunCount : RunGood(k) /\ NamedAt(k)
       /\ \A k \in 1 .. RunCount - 1 : ~Background(k)
       /\ RunCount > 0 => (NamedAt(RunCount + 1) <=> ~Background(RunCount))
       /\ \A k \in 1 .. RunCount + 1 : WordsGood(k)
    OBVIOUS
  <1>1. /\ GoodLine <=> /\ marks % 2 = 0
                        /\ \A k \in 1 .. n : GoodRun(runs[k]) /\ k \in named
                        /\ \A k \in 1 .. n - 1 : ~Back(k)
                        /\ n > 0 => (n + 1 \in named <=> ~Back(n))
                        /\ \A k \in DOMAIN words : GoodWords(words[k])
    BY DEF GoodLine
  <1>2. n = RunCount /\ n \in Nat
    BY DEF RunCount
  <1>3. DOMAIN parts = 1 .. n + 1 /\ DOMAIN words = 1 .. n + 1
    BY DEF Parts
  <1>4. \A k \in 1 .. n + 1 : words[k] = WordsAt(k)
    BY <1>3 DEF WordsAt
  <1>5. marks % 2 = 0 <=> ~Inside(Len(line) + 1)
    <2>1. {j \in 1 .. (Len(line) + 1) - 1 : Has(j, Quotes)} = {i \in DOMAIN line : Has(i, Quotes)}
      OBVIOUS
    <2>2. marks \in Nat
      <3>1. IsFiniteSet(1 .. Len(line)) /\ DOMAIN line = 1 .. Len(line)
        BY FS_Interval
      <3>2. IsFiniteSet({i \in DOMAIN line : Has(i, Quotes)})
        BY <3>1, FS_Subset
      <3> QED
        BY <3>2, FS_CardinalityType
    <2> DEFINE c == marks
    <2>3. Inside(Len(line) + 1) <=> c % 2 = 1
      BY <2>1 DEF Inside
    <2> HIDE DEF marks
    <2>4. c % 2 = 0 <=> ~(c % 2 = 1)
      BY <2>2
    <2> QED
      BY <2>3, <2>4
  <1> HIDE DEF marks, words
  <1>6. \A k \in 1 .. n + 1 : k \in named <=> NamedAt(k)
    BY <1>3, <1>4 DEF NamedAt
  <1>7. \A k \in 1 .. n : RunGood(k) <=> GoodRun(runs[k])
    BY DEF RunGood
  <1>8. \A k : Background(k) <=> Back(k)
    BY DEF Background
  <1> HIDE DEF named, Back, parts, runs, n
  <1>9. /\ \A k \in 1 .. n : k \in 1 .. n + 1
        /\ n > 0 => n + 1 \in 1 .. n + 1
    BY <1>2
  <1>10. \A k \in 1 .. n + 1 : WordsGood(k) <=> GoodWords(words[k])
    BY <1>4 DEF WordsGood
  <1>11. (\A k \in 1 .. n : GoodRun(runs[k]) /\ k \in named)
           <=> (\A k \in 1 .. n : RunGood(k) /\ NamedAt(k))
    BY <1>6, <1>7, <1>9
  <1>12. (\A k \in DOMAIN words : GoodWords(words[k])) <=> (\A k \in 1 .. n + 1 : WordsGood(k))
    BY <1>3, <1>10
  <1> QED
    BY <1>1, <1>2, <1>5, <1>6, <1>8, <1>9, <1>11, <1>12

LEMMA RefTokensIs ==
  RunCount \in Nat =>
    RefTokens = [k \in 1 .. 2 * RunCount + (IF NamedAt(RunCount + 1) THEN 1 ELSE 0) |->
                   IF k % 2 = 0 THEN OpAt(k \div 2) ELSE CmdAt((k + 1) \div 2)]
  <1> DEFINE runs  == Runs
             n     == Len(runs)
             words == [k \in 1 .. n + 1 |-> RefWords(Parts(runs)[k])]
             size  == 2 * n + (IF PlainAt(words[n + 1], 1) THEN 1 ELSE 0)
  <1> SUFFICES ASSUME RunCount \in Nat
               PROVE  RefTokens =
                 [k \in 1 .. 2 * RunCount + (IF NamedAt(RunCount + 1) THEN 1 ELSE 0) |->
                   IF k % 2 = 0 THEN OpAt(k \div 2) ELSE CmdAt((k + 1) \div 2)]
    OBVIOUS
  <1>1. RefTokens = [k \in 1 .. size |-> IF k % 2 = 0 THEN Operator(RunType(runs[k \div 2]))
                                         ELSE RefCommand(words[(k + 1) \div 2])]
    BY DEF RefTokens
  <1>2. n = RunCount /\ n \in Nat
    BY DEF RunCount
  <1>3. \A k \in 1 .. n + 1 : words[k] = WordsAt(k)
    BY DEF WordsAt
  <1> HIDE DEF words
  <1>4. size = 2 * RunCount + (IF NamedAt(RunCount + 1) THEN 1 ELSE 0)
    BY <1>2, <1>3 DEF NamedAt
  <1>5. \A k : Operator(RunType(runs[k \div 2])) = OpAt(k \div 2)
    BY DEF OpAt
  <1>6. ASSUME NEW k \in 1 .. size, k % 2 # 0
        PROVE  RefCommand(words[(k + 1) \div 2]) = CmdAt((k + 1) \div 2)
    <2>1. (k + 1) \div 2 \in 1 .. n + 1
      BY <1>2
    <2> QED
      BY <1>3, <2>1 DEF CmdAt
  <1> HIDE DEF size, n, runs
  <1> QED
    BY <1>1, <1>4, <1>5, <1>6

LEMMA Rigid ==
  ASSUME line' = line
  PROVE  /\ Signed' = Signed /\ Runs' = Runs /\ RunCount' = RunCount
         /\ \A k : /\ CmdAt(k)' = CmdAt(k) /\ OpAt(k)' = OpAt(k)
                   /\ RunGood(k)' <=> RunGood(k)
                   /\ WordsGood(k)' <=> WordsGood(k)
                   /\ NamedAt(k)' <=> NamedAt(k)
                   /\ Background(k)' <=> Background(k)
         /\ \A i : Inside(i)' <=> Inside(i)
  <1>1. /\ \A i, c : Has(i, c)' = Has(i, c)
        /\ \A i : Inside(i)' = Inside(i)
    BY DEF Has, Inside
  <1>2. \A c : Outside(c)' = Outside(c)
    BY <1>1 DEF Outside
  <1>3. Runs' = Runs
    BY <1>2 DEF Runs
  <1>4. \A r : Parts(r)' = Parts(r)
    BY DEF Parts
  <1>5. \A p : RefWords(p)' = RefWords(p)
    BY <1>1, <1>2 DEF RefWords
  <1>6. \A w, c : (Is(w, c)' <=> Is(w, c)) /\ (Plain(w)' <=> Plain(w))
    BY DEF Is, Plain
  <1>7. \A w, k, c : /\ PlainAt(w, k)' <=> PlainAt(w, k)
                     /\ IsAt(w, k, c)' <=> IsAt(w, k, c)
    BY <1>6 DEF PlainAt, IsAt
  <1>8. \A w : GoodWords(w)' <=> GoodWords(w)
    BY <1>6, <1>7 DEF GoodWords
  <1>9. ASSUME NEW w, NEW c
        PROVE  Operand(w, c)' = Operand(w, c)
    <2> DEFINE places == {k \in DOMAIN w : k > 1 /\ Plain(w[k]) /\ IsAt(w, k - 1, c)}
    <2>1. places' = places
      BY <1>6, <1>7
    <2>2. /\ Operand(w, c) = IF places = {} THEN {}
                             ELSE w[CHOOSE k \in places : \A j \in places : j <= k]
          /\ Operand(w, c)' = IF places' = {} THEN {}
                              ELSE w[CHOOSE k \in places' : \A j \in places' : j <= k]
      BY DEF Operand
    <2> HIDE DEF places
    <2> QED
      BY <2>1, <2>2
  <1>10. ASSUME NEW w
         PROVE  RefCommand(w)' = RefCommand(w)
    <2> DEFINE kept == {k \in DOMAIN w : k > 1 /\ Plain(w[k]) /\ Plain(w[k - 1])}
    <2>1. kept' = kept
      BY <1>6
    <2> DEFINE Args(K) == [n \in 1 .. Cardinality(K) |->
                             w[CHOOSE k \in K : Cardinality({j \in K : j <= k}) = n]]
    <2>2. /\ RefCommand(w) = [kind |-> "command",
                              name |-> IF PlainAt(w, 1) THEN w[1] ELSE {},
                              args |-> Args(kept),
                              input |-> Operand(w, "<"), output |-> Operand(w, ">")]
          /\ RefCommand(w)' = [kind |-> "command",
                              name |-> IF PlainAt(w, 1)' THEN w[1] ELSE {},
                              args |-> Args(kept'),
                              input |-> Operand(w, "<")', output |-> Operand(w, ">")']
      BY DEF RefCommand
    <2> HIDE DEF kept, Args
    <2>3. /\ PlainAt(w, 1)' <=> PlainAt(w, 1)
          /\ Operand(w, "<")' = Operand(w, "<") /\ Operand(w, ">")' = Operand(w, ">")
      BY <1>7, <1>9
    <2> QED
      BY <2>1, <2>2, <2>3
  <1>11. \A r : /\ SignOf(r)' = SignOf(r)
                /\ GoodRun(r)' <=> GoodRun(r)
    BY DEF SignOf, GoodRun
  <1>12. \A k : WordsAt(k)' = WordsAt(k)
    BY <1>3, <1>4, <1>5 DEF WordsAt
  <1>13. \A k : CmdAt(k)' = CmdAt(k) /\ OpAt(k)' = OpAt(k)
    BY <1>3, <1>10, <1>11, <1>12 DEF CmdAt, OpAt, RunType
  <1>14. \A k : /\ RunGood(k)' <=> RunGood(k)
                /\ WordsGood(k)' <=> WordsGood(k)
                /\ NamedAt(k)' <=> NamedAt(k)
                /\ Background(k)' <=> Background(k)
    BY <1>3, <1>7, <1>8, <1>11, <1>12 DEF RunGood, WordsGood, NamedAt, Background
  <1> QED
    BY <1>1, <1>2, <1>3, <1>13, <1>14 DEF Signed, RunCount

\* The places of the k-th run of signs, and of the words before and behind it.
RunFrom(k) == CHOOSE i \in Runs[k] : \A j \in Runs[k] : i <= j
RunTo(k)   == Top(Runs[k])
After(k)   == IF k = 0 THEN 1 ELSE RunTo(k) + 1
Until(k)   == IF k = RunCount + 1 THEN Len(line) ELSE RunFrom(k) - 1

\* Runs are cut out of the line as words are.
LEMMA RunsAre ==
  ASSUME line \in Seq(Alphabet)
  PROVE  /\ RunCount \in Nat
         /\ Signed \subseteq DOMAIN line
         /\ Parted(Signed, {}, (DOMAIN line) \ Signed, Runs)
         /\ Covered(Signed, {}, Runs, {}, Len(line) + 1)
         /\ Runs = [k \in 1 .. RunCount |-> Runs[k]]
  <1> DEFINE l == Len(line)
             S == (DOMAIN line) \ Signed
             C == Signed
             R == {}
             T == SUBSET (1 .. l)
             G == {m \in 0 .. l : \E ws \in Seq(T), word \in T : CutAt(C, R, S, ws, word, m + 1)}
  <1>1. l \in Nat /\ DOMAIN line = 1 .. l /\ Signed \subseteq 1 .. l
    BY DEF Signed, Outside
  <1>2. Apart3(C, R, S, 1, l)
    BY <1>1 DEF Apart3
  <1>3. 0 \in G
    <2>1. CutAt(C, R, S, <<>>, {}, 0 + 1)
      BY <1>1 DEF CutAt, Parted, Covered
    <2>2. <<>> \in Seq(T) /\ {} \in T /\ 0 \in 0 .. l
      BY <1>1
    <2> QED
      BY <2>1, <2>2
  <1>4. ASSUME NEW m \in 1 .. l, m - 1 \in G
        PROVE  m \in G
    <2>1. PICK ws \in Seq(T), word \in T : CutAt(C, R, S, ws, word, (m - 1) + 1)
      BY <1>4
    <2>2. CutAt(C, R, S, ws, word, m) /\ m \in Nat
      BY <1>1, <2>1
    <2>3. /\ m \in S /\ m \notin R => CutAt(C, R, S, Closed(ws, word), {}, m + 1)
          /\ m \in C => CutAt(C, R, S, ws, word \cup {m}, m + 1)
      <3> HIDE DEF C, R, S, T
      <3>1. {} \in T
        BY DEF T
      <3> QED
        BY <1>2, <2>2, <3>1, CutTurns
    <2>4. Closed(ws, word) \in Seq(T)
      <3> HIDE DEF C, R, S, T
      <3> QED
        BY <1>2, <2>2, Closing
    <2>5. {} \in T /\ word \cup {m} \in T /\ m \in 0 .. l
      BY <1>1
    <2>6. m \in C \/ (m \in S /\ m \notin R)
      BY <1>1
    <2> QED
      BY <2>3, <2>4, <2>5, <2>6
  <1>5. PICK ws \in Seq(T), word \in T : CutAt(C, R, S, ws, word, l + 1)
    <2> HIDE DEF G
    <2>1. 0 .. l \subseteq G
      BY <1>1, <1>3, <1>4, StepByStep
    <2>2. l \in G
      BY <1>1, <2>1
    <2> QED
      BY <2>2 DEF G
  <1> DEFINE cl == Closed(ws, word)
  <1>6. cl \in Seq(T) /\ Parted(C, R, S, cl) /\ Covered(C, R, cl, {}, l + 1)
    <2> HIDE DEF C, R, S, T
    <2>1. l + 1 \in Nat
      BY <1>1
    <2> QED
      BY <1>2, <1>5, <2>1, Closing
  <1>7. LeftToRight(Pieces(C, S) \cup {{i} : i \in R}) = cl
    <2> HIDE DEF C, R, S, T, cl
    <2> QED
      BY <1>2, <1>6, PartedPieces
  <1>8. Pieces(C, S) \cup {{i} : i \in R} = Pieces(C, S)
    OBVIOUS
  <1>9. Runs = cl
    BY <1>7, <1>8 DEF Runs, Signed
  <1> HIDE DEF cl
  <1>10. Len(cl) \in Nat /\ cl = [k \in 1 .. Len(cl) |-> cl[k]]
    BY <1>6
  <1> QED
    BY <1>1, <1>6, <1>9, <1>10 DEF RunCount

\* A run has no gap, no sign stands beside it, and the runs are apart.
LEMMA RunIs ==
  ASSUME line \in Seq(Alphabet), NEW k \in 1 .. RunCount
  PROVE  /\ RunFrom(k) \in 1 .. Len(line) /\ RunTo(k) \in 1 .. Len(line)
         /\ RunFrom(k) <= RunTo(k) /\ Runs[k] = RunFrom(k) .. RunTo(k)
         /\ Runs[k] \subseteq Signed
         /\ RunTo(k) + 1 \notin Signed
         /\ \A x \in 1 .. RunCount : k < x => \A j \in Runs[x] : RunTo(k) + 1 < j
  <1> DEFINE l == Len(line)
             S == (DOMAIN line) \ Signed
             r == Runs[k]
             n == RunCount
  <1>1. /\ l \in Nat /\ DOMAIN line = 1 .. l /\ Signed \subseteq 1 .. l /\ n \in Nat
        /\ \A i \in 1 .. l : i \in Signed \/ i \in S
        /\ \A i \in Signed : i \notin S
    BY RunsAre
  <1>2. /\ Parted(Signed, {}, S, Runs)
        /\ Covered(Signed, {}, Runs, {}, l + 1)
        /\ Len(Runs) = n
    BY RunsAre DEF RunCount
  <1>3. /\ r # {} /\ r \subseteq Signed /\ \A i, j \in r, m \in S : ~(i < m /\ m < j)
        /\ \A x \in 1 .. n : Runs[x] \subseteq Signed
        /\ \A x, y \in 1 .. n : x < y =>
             \A i \in Runs[x], j \in Runs[y] : i < j /\ \E m \in S : i <= m /\ m <= j
    BY <1>2 DEF Parted
  <1>4. \A i \in Signed : \E x \in 1 .. n : i \in Runs[x]
    BY <1>1, <1>2 DEF Covered
  <1> HIDE DEF S, r, n, l
  <1>5. r \subseteq 1 .. l /\ r \in SUBSET Nat
    BY <1>1, <1>3
  <1>6. /\ RunFrom(k) \in r /\ \A j \in r : RunFrom(k) <= j
    <2>1. \E i \in r : \A j \in r : i <= j
      BY <1>3, <1>5, LeastNumber
    <2> QED
      BY <2>1 DEF RunFrom, r
  <1>7. RunTo(k) \in r /\ \A j \in r : j <= RunTo(k)
    BY <1>1, <1>3, <1>5, TopIs DEF RunTo, r
  <1> DEFINE a == RunFrom(k)
             b == RunTo(k)
  <1>8. a \in 1 .. l /\ b \in 1 .. l /\ a <= b /\ a \in Nat /\ b \in Nat
    BY <1>5, <1>6, <1>7
  <1> HIDE DEF a, b
  <1>9. ASSUME NEW i \in Signed, \/ a <= i /\ i <= b
                                 \/ i = b + 1
        PROVE  i \in r
    <2>1. PICK x \in 1 .. n : i \in Runs[x]
      BY <1>4
    <2>2. CASE x = k
      BY <2>1, <2>2 DEF r
    <2>3. CASE x < k
      <3>1. i < a /\ a < b + 1
        BY <1>3, <1>6, <1>8, <2>1, <2>3 DEF r, a, n
      <3> QED
        BY <1>1, <1>8, <1>9, <3>1
    <2>4. CASE k < x
      <3>1. b < i /\ \E m \in S : b <= m /\ m <= i
        BY <1>3, <1>7, <2>1, <2>4 DEF r, b, n
      <3>2. PICK m \in S : b <= m /\ m <= i
        BY <3>1
      <3>3. m # b /\ m # i /\ m \in Nat
        BY <1>1, <1>3, <1>7 DEF S, b
      <3> QED
        BY <1>1, <1>8, <1>9, <3>1, <3>2, <3>3
    <2>5. x \in Nat /\ k \in Nat
      BY <1>1 DEF n
    <2> QED
      BY <2>2, <2>3, <2>4, <2>5
  <1>10. r = a .. b
    <2>1. ASSUME NEW i \in a .. b
          PROVE  i \in r
      <3>1. i \in 1 .. l /\ a <= i /\ i <= b /\ i \in Nat
        <4>1. i \in Int /\ a <= i /\ i <= b
          BY <1>8
        <4> QED
          BY <1>1, <1>8, <4>1
      <3>2. CASE i \in Signed
        BY <1>9, <3>1, <3>2
      <3>3. CASE i \in S
        <4>1. ~(a < i /\ i < b)
          BY <1>3, <1>6, <1>7, <3>3 DEF a, b
        <4>2. i = a \/ i = b
          BY <1>8, <3>1, <4>1
        <4> QED
          BY <1>6, <1>7, <4>2 DEF a, b
      <3> QED
        BY <1>1, <3>1, <3>2, <3>3
    <2>2. \A i \in r : i \in Nat /\ a <= i /\ i <= b
      BY <1>5, <1>6, <1>7 DEF a, b
    <2>3. \A i \in r : i \in a .. b
      BY <1>8, <2>2
    <2> QED
      BY <2>1, <2>3
  <1>11. b + 1 \notin Signed
    <2>1. b + 1 \notin r
      BY <1>7, <1>8 DEF b
    <2> QED
      BY <1>9, <2>1
  <1>12. ASSUME NEW x \in 1 .. n, k < x, NEW j \in Runs[x]
         PROVE  b + 1 < j
    <2>1. b < j /\ j \in Signed
      BY <1>3, <1>7, <1>12 DEF r, b, n
    <2>2. j # b + 1 /\ j \in Nat
      BY <1>1, <1>11, <2>1
    <2> QED
      BY <1>8, <2>1, <2>2
  <1> QED
    BY <1>3, <1>8, <1>10, <1>11, <1>12 DEF a, b, r, n, l

\* Where the parts of the line begin and end.
LEMMA Bounds ==
  ASSUME line \in Seq(Alphabet), NEW k \in 0 .. RunCount
  PROVE  /\ RunCount \in Nat /\ k \in Nat /\ k + 1 \in 1 .. RunCount + 1
         /\ After(k) \in Nat /\ Until(k + 1) \in Nat
         /\ 1 <= After(k) /\ After(k) <= Until(k + 1) + 1 /\ Until(k + 1) <= Len(line)
         /\ k < RunCount => k + 1 \in 1 .. RunCount /\ Until(k + 1) + 1 = RunFrom(k + 1)
         /\ k = RunCount => Until(k + 1) = Len(line)
         /\ k > 0 => k \in 1 .. RunCount /\ After(k) = RunTo(k) + 1
         /\ k = 0 => After(k) = 1
  <1>1. RunCount \in Nat /\ Len(line) \in Nat
    BY RunsAre
  <1>2. k \in Nat /\ k + 1 \in 1 .. RunCount + 1
    BY <1>1
  <1>3. k = 0 => After(k) = 1
    BY DEF After
  <1>4. k > 0 => /\ k \in 1 .. RunCount /\ After(k) = RunTo(k) + 1
                 /\ RunTo(k) \in 1 .. Len(line)
    BY <1>1, <1>2, RunIs DEF After
  <1>5. k < RunCount => /\ k + 1 \in 1 .. RunCount /\ Until(k + 1) = RunFrom(k + 1) - 1
                        /\ RunFrom(k + 1) \in 1 .. Len(line)
    BY <1>1, <1>2, RunIs DEF Until
  <1>6. k = RunCount => Until(k + 1) = Len(line)
    BY DEF Until
  <1>7. k > 0 /\ k < RunCount => RunTo(k) + 1 < RunFrom(k + 1)
    <2>1. ASSUME k > 0, k < RunCount
          PROVE  RunTo(k) + 1 < RunFrom(k + 1)
      <3>1. k + 1 \in 1 .. RunCount /\ k < k + 1 /\ k \in 1 .. RunCount
        BY <1>1, <1>2, <2>1
      <3>2. RunFrom(k + 1) \in Runs[k + 1]
        <4>1. /\ Runs[k + 1] = RunFrom(k + 1) .. RunTo(k + 1)
              /\ RunFrom(k + 1) <= RunTo(k + 1)
              /\ RunFrom(k + 1) \in 1 .. Len(line) /\ RunTo(k + 1) \in 1 .. Len(line)
          BY <3>1, RunIs
        <4> QED
          BY <1>1, <4>1
      <3> QED
        BY <3>1, <3>2, RunIs
    <2> QED
      BY <2>1
  <1> HIDE DEF After, Until, RunFrom, RunTo, RunCount
  <1>8. CASE k = RunCount
    BY <1>1, <1>2, <1>3, <1>4, <1>6, <1>8
  <1>9. CASE k < RunCount
    <2>1. Until(k + 1) \in Nat /\ Until(k + 1) + 1 = RunFrom(k + 1) /\ Until(k + 1) <= Len(line)
      BY <1>1, <1>5, <1>9
    <2>2. After(k) \in Nat /\ 1 <= After(k) /\ After(k) <= RunFrom(k + 1)
      BY <1>1, <1>2, <1>3, <1>4, <1>5, <1>7, <1>9
    <2> QED
      BY <1>1, <1>2, <1>3, <1>4, <1>5, <1>9, <2>1, <2>2
  <1> QED
    BY <1>1, <1>2, <1>8, <1>9

\* What stands at a sign of a run, and behind it.
LEMMA SignIs ==
  ASSUME line \in Seq(Alphabet), NEW i \in Signed
  PROVE  /\ i \in 1 .. Len(line) /\ Has(i, Signs) /\ ~Inside(i) /\ ~Inside(i + 1)
         /\ Has(i + 1, Signs) <=> i + 1 \in Signed
  <1>1. i \in DOMAIN line /\ Has(i, Signs) /\ ~Inside(i) /\ DOMAIN line = 1 .. Len(line)
    BY DEF Signed, Outside, Has
  <1>2. i \in Nat /\ i > 0 /\ Len(line) \in Nat
    BY <1>1
  <1>3. ~Has(i, Quotes)
    BY <1>1 DEF Has, Signs, Quotes
  <1>4. Inside(i + 1) <=> Inside(i)
    <2>1. \A j \in i .. (i + 1) - 1 : ~Has(j, Quotes)
      BY <1>2, <1>3
    <2> QED
      BY <1>2, <2>1, InsideStays
  <1>5. Has(i + 1, Signs) <=> i + 1 \in Signed
    BY <1>1, <1>4 DEF Has, Signed, Outside
  <1> QED
    BY <1>1, <1>4, <1>5

\* No part of the line begins within quotation marks.
LEMMA PartOpen ==
  ASSUME line \in Seq(Alphabet), NEW k \in 0 .. RunCount
  PROVE  ~Inside(After(k))
  <1>1. CASE k = 0
    <2>1. {j \in 1 .. 1 - 1 : Has(j, Quotes)} = {}
      OBVIOUS
    <2>2. Cardinality({}) = 0
      BY FS_EmptySet
    <2>3. ~Inside(1)
      BY <2>1, <2>2 DEF Inside
    <2> QED
      BY <1>1, <2>3, Bounds
  <1>2. CASE k > 0
    <2>1. k \in 1 .. RunCount /\ After(k) = RunTo(k) + 1
      BY <1>2, Bounds
    <2>2. RunTo(k) \in Signed
      <3>1. /\ Runs[k] = RunFrom(k) .. RunTo(k) /\ RunFrom(k) <= RunTo(k)
            /\ RunFrom(k) \in 1 .. Len(line) /\ RunTo(k) \in 1 .. Len(line)
            /\ Runs[k] \subseteq Signed
        BY <2>1, RunIs
      <3>2. RunTo(k) \in RunFrom(k) .. RunTo(k)
        BY <3>1
      <3> QED
        BY <3>1, <3>2
    <2> QED
      BY <2>1, <2>2, SignIs
  <1>3. k \in Nat
    BY Bounds
  <1> QED
    BY <1>1, <1>2, <1>3

\* A part of the line is what stands between two operators.
LEMMA PartIs ==
  ASSUME line \in Seq(Alphabet), NEW k \in 0 .. RunCount
  PROVE  Parts(Runs)[k + 1] = After(k) .. Until(k + 1)
  <1> DEFINE l == Len(line)
             n == RunCount
             p == Parts(Runs)[k + 1]
  <1>1. /\ n \in Nat /\ k \in Nat /\ k + 1 \in 1 .. n + 1 /\ l \in Nat
        /\ Len(Runs) = n /\ DOMAIN line = 1 .. l
    BY Bounds DEF RunCount
  <1>2. p = {i \in 1 .. l : /\ k + 1 > 1 => \A j \in Runs[k] : j < i
                            /\ k + 1 <= n => \A j \in Runs[k + 1] : i < j}
    <2>1. (k + 1) - 1 = k
      BY <1>1
    <2> QED
      BY <1>1, <2>1 DEF Parts
  <1>3. ASSUME NEW i \in 1 .. l
        PROVE  (k + 1 > 1 => \A j \in Runs[k] : j < i) <=> After(k) <= i
    <2>1. CASE k = 0
      <3>1. After(k) = 1 /\ ~(k + 1 > 1)
        BY <1>1, <2>1, Bounds
      <3> QED
        BY <1>1, <3>1
    <2>2. CASE k > 0
      <3>1. k \in 1 .. n /\ After(k) = RunTo(k) + 1 /\ k + 1 > 1
        BY <1>1, <2>2, Bounds
      <3>2. /\ Runs[k] = RunFrom(k) .. RunTo(k) /\ RunFrom(k) <= RunTo(k)
            /\ RunFrom(k) \in 1 .. l /\ RunTo(k) \in 1 .. l
        BY <3>1, RunIs
      <3>3. i \in Nat /\ RunTo(k) \in Nat /\ RunFrom(k) \in Nat
        BY <3>2
      <3>4. (\A j \in RunFrom(k) .. RunTo(k) : j < i) <=> RunTo(k) < i
        BY <3>2, <3>3
      <3> QED
        BY <3>1, <3>2, <3>3, <3>4
    <2> QED
      BY <1>1, <2>1, <2>2
  <1>4. ASSUME NEW i \in 1 .. l
        PROVE  (k + 1 <= n => \A j \in Runs[k + 1] : i < j) <=> i <= Until(k + 1)
    <2>1. CASE k = n
      <3>1. Until(k + 1) = l /\ ~(k + 1 <= n)
        BY <1>1, <2>1, Bounds
      <3> QED
        BY <1>1, <3>1
    <2>2. CASE k < n
      <3>1. k + 1 \in 1 .. n /\ Until(k + 1) + 1 = RunFrom(k + 1) /\ k + 1 <= n
            /\ Until(k + 1) \in Nat
        <4>1. k + 1 \in 1 .. n /\ Until(k + 1) + 1 = RunFrom(k + 1) /\ Until(k + 1) \in Nat
          BY <2>2, Bounds
        <4> QED
          BY <1>1, <4>1
      <3>2. /\ Runs[k + 1] = RunFrom(k + 1) .. RunTo(k + 1) /\ RunFrom(k + 1) <= RunTo(k + 1)
            /\ RunFrom(k + 1) \in 1 .. l /\ RunTo(k + 1) \in 1 .. l
        BY <3>1, RunIs
      <3>3. i \in Nat /\ RunTo(k + 1) \in Nat /\ RunFrom(k + 1) \in Nat
        BY <3>2
      <3>4. (\A j \in RunFrom(k + 1) .. RunTo(k + 1) : i < j) <=> i < RunFrom(k + 1)
        BY <3>2, <3>3
      <3> QED
        BY <3>1, <3>2, <3>3, <3>4
    <2> QED
      BY <1>1, <2>1, <2>2
  <1>5. /\ After(k) \in Nat /\ Until(k + 1) \in Nat
        /\ 1 <= After(k) /\ Until(k + 1) <= l
    BY Bounds
  <1>6. \A i : i \in After(k) .. Until(k + 1) <=>
                 i \in 1 .. l /\ After(k) <= i /\ i <= Until(k + 1)
    BY <1>1, <1>5
  <1> HIDE DEF l, n, p
  <1>7. \A i : i \in p <=> i \in After(k) .. Until(k + 1)
    BY <1>2, <1>3, <1>4, <1>6
  <1> QED
    BY <1>7 DEF p

\* The lexer makes of a part of the line what the reference says.
LEMMA CommandAt ==
  ASSUME line \in Seq(Alphabet), Len(line) <= MaxLength, NEW k \in 0 .. RunCount
  PROVE  LET c == CommandOf(Words(After(k), Until(k + 1))) IN
           /\ c.bad <=> ~WordsGood(k + 1)
           /\ ~c.bad => Command(c) = CmdAt(k + 1)
  <1> DEFINE w == Words(After(k), Until(k + 1))
             c == CommandOf(w)
  <1>1. /\ After(k) \in Nat /\ Until(k + 1) \in Nat
        /\ 1 <= After(k) /\ After(k) <= Until(k + 1) + 1 /\ Until(k + 1) <= Len(line)
    BY Bounds
  <1>2. ~Inside(After(k))
    BY PartOpen
  <1>3. w = RefWords(After(k) .. Until(k + 1))
    BY <1>1, <1>2, WordsExact
  <1>4. w = WordsAt(k + 1)
    BY <1>3, PartIs DEF WordsAt
  <1>5. w \in Seq(Word \ {{}})
    <2>1. Until(k + 1) <= MaxLength /\ MaxLength \in Nat
      BY <1>1, ShellAssumption
    <2> QED
      BY <1>1, <2>1, WordsTyped
  <1> HIDE DEF w
  <1>6. /\ c.bad <=> ~GoodWords(w)
        /\ ~c.bad => Command(c) = RefCommand(w)
    BY <1>5, CommandsExact
  <1> QED
    BY <1>4, <1>6 DEF WordsGood, CmdAt, w

\* A command of the reference and whether it is named.
LEMMA NamedIs ==
  ASSUME line \in Seq(Alphabet), Len(line) <= MaxLength, NEW k \in 1 .. RunCount + 1
  PROVE  /\ ~IsOperator(CmdAt(k))
         /\ Named(CmdAt(k)) <=> NamedAt(k)
  <1> DEFINE w == WordsAt(k)
  <1>1. k - 1 \in 0 .. RunCount /\ (k - 1) + 1 = k
    <2>1. RunCount \in Nat
      BY RunsAre
    <2> QED
      BY <2>1
  <1>2. w \in Seq(Word \ {{}})
    <2> DEFINE m == k - 1
    <2>1. /\ After(m) \in Nat /\ Until(m + 1) \in Nat
          /\ 1 <= After(m) /\ After(m) <= Until(m + 1) + 1 /\ Until(m + 1) <= Len(line)
          /\ ~Inside(After(m)) /\ Parts(Runs)[m + 1] = After(m) .. Until(m + 1)
      BY <1>1, Bounds, PartOpen, PartIs
    <2>2. Words(After(m), Until(m + 1)) = RefWords(After(m) .. Until(m + 1))
      BY <2>1, WordsExact
    <2>3. w = Words(After(m), Until(m + 1))
      BY <1>1, <2>1, <2>2 DEF WordsAt
    <2>4. Until(m + 1) <= MaxLength /\ MaxLength \in Nat
      BY <2>1, ShellAssumption
    <2> QED
      BY <2>1, <2>3, <2>4, WordsTyped
  <1>3. /\ CmdAt(k).kind = "command"
        /\ CmdAt(k).name = IF PlainAt(w, 1) THEN w[1] ELSE {}
    BY DEF CmdAt, RefCommand
  <1> HIDE DEF w
  <1>4. PlainAt(w, 1) => w[1] # {}
    BY <1>2 DEF PlainAt
  <1>5. NamedAt(k) <=> PlainAt(w, 1)
    BY DEF NamedAt, w
  <1> QED
    BY <1>3, <1>4, <1>5 DEF IsOperator, Named

\* The next sign behind the words of a command is the beginning of the next run.
LEMMA NextRun ==
  ASSUME line \in Seq(Alphabet), NEW k \in 0 .. RunCount
  PROVE  /\ \A a \in Signed :
              After(k) <= a /\ (\A i \in Signed : After(k) <= i => a <= i)
                => k < RunCount /\ a = RunFrom(k + 1)
         /\ (\A i \in Signed : ~(After(k) <= i)) => k = RunCount
  <1> DEFINE n == RunCount
  <1>1. /\ n \in Nat /\ k \in Nat /\ After(k) \in Nat
    BY Bounds
  <1>2. ASSUME NEW x \in 1 .. n
        PROVE  /\ RunFrom(x) \in Nat /\ RunTo(x) \in Nat /\ RunFrom(x) <= RunTo(x)
               /\ Runs[x] = RunFrom(x) .. RunTo(x)
               /\ RunFrom(x) \in Signed
               /\ RunFrom(x) \in Runs[x]
               /\ \A y \in 1 .. n : x < y => RunTo(x) + 1 < RunFrom(y)
    <2>1. \A y \in 1 .. n : /\ RunFrom(y) \in 1 .. Len(line) /\ RunTo(y) \in 1 .. Len(line)
                            /\ RunFrom(y) <= RunTo(y) /\ Runs[y] = RunFrom(y) .. RunTo(y)
                            /\ Runs[y] \subseteq Signed
      BY RunIs
    <2>2. \A y \in 1 .. n : RunFrom(y) \in Runs[y]
      BY <2>1
    <2>3. \A y \in 1 .. n : x < y => \A j \in Runs[y] : RunTo(x) + 1 < j
      BY RunIs
    <2> QED
      BY <2>1, <2>2, <2>3
  <1>3. k < n => /\ k + 1 \in 1 .. n /\ After(k) <= RunFrom(k + 1)
                 /\ RunFrom(k + 1) \in Signed
    <2>1. k < n => k + 1 \in 1 .. n
      BY <1>1
    <2>2. k < n => After(k) <= Until(k + 1) + 1 /\ Until(k + 1) + 1 = RunFrom(k + 1)
      BY Bounds
    <2> QED
      BY <1>1, <1>2, <2>1, <2>2
  <1>4. ASSUME NEW a \in Signed, After(k) <= a,
               \A i \in Signed : After(k) <= i => a <= i
        PROVE  k < n /\ a = RunFrom(k + 1)
    <2>1. PICK x \in 1 .. n : a \in Runs[x]
      <3>1. a \in 1 .. Len(line)
        BY RunsAre
      <3> QED
        BY <3>1, RunsAre DEF Covered, RunCount
    <2>2. x \in Nat /\ RunFrom(x) <= a /\ a <= RunTo(x) /\ a \in Nat
          /\ RunFrom(x) \in Nat /\ RunTo(x) \in Nat
      BY <1>1, <1>2, <2>1
    <2>3. k < x
      <3>1. CASE k = 0
        BY <1>1, <3>1
      <3>2. CASE k > 0
        <4>1. k \in 1 .. n /\ After(k) = RunTo(k) + 1
          BY <3>2, Bounds
        <4>2. RunTo(k) < a /\ RunTo(k) \in Nat /\ RunFrom(k) \in Nat /\ RunFrom(k) <= RunTo(k)
          BY <1>2, <1>4, <2>2, <4>1
        <4>3. x # k
          BY <2>2, <4>2
        <4>4. ~(x < k)
          <5>1. ASSUME x < k PROVE FALSE
            <6>1. RunTo(x) + 1 < RunFrom(k)
              BY <1>2, <4>1, <5>1
            <6> QED
              BY <2>2, <4>2, <6>1
          <5> QED
            BY <5>1
        <4> QED
          BY <1>1, <2>2, <4>3, <4>4
      <3> QED
        BY <1>1, <3>1, <3>2
    <2>4. k < n /\ k + 1 \in 1 .. n
      BY <1>1, <2>3
    <2>5. a <= RunFrom(k + 1)
      BY <1>3, <1>4, <2>4
    <2>6. x = k + 1
      <3>1. ASSUME k + 1 < x PROVE FALSE
        <4>1. RunTo(k + 1) + 1 < RunFrom(x) /\ RunFrom(k + 1) <= RunTo(k + 1)
              /\ RunTo(k + 1) \in Nat /\ RunFrom(k + 1) \in Nat
          BY <1>2, <2>4, <3>1
        <4> QED
          BY <2>2, <2>5, <4>1
      <3> QED
        BY <1>1, <2>2, <2>3, <3>1
    <2> QED
      BY <1>2, <2>2, <2>4, <2>5, <2>6
  <1>5. ASSUME \A i \in Signed : ~(After(k) <= i)
        PROVE  k = n
    BY <1>1, <1>3, <1>5
  <1> QED
    BY <1>4, <1>5

-----------------------------------------------------------------------------
(* The lexer of the shell: removing the unnamed commands.                   *)

\* The operator that the lexer reads at the beginning of a run is the run's if the
\* run is good, and leaves a sign of the run unread otherwise.
LEMMA OperatorAt ==
  ASSUME line \in Seq(Alphabet), NEW k \in 1 .. RunCount
  PROVE  LET a == RunFrom(k) IN
         /\ RunGood(k) => /\ Single(a) \/ DoubledSign(a)
                          /\ Operator(TypeOf(a)) = OpAt(k)
                          /\ a + Width(a) = After(k)
         /\ ~RunGood(k) /\ (Single(a) \/ DoubledSign(a)) => a + Width(a) \in Signed
  <1> DEFINE a == RunFrom(k)
             b == RunTo(k)
             r == Runs[k]
  <1>1. /\ a \in Nat /\ b \in Nat /\ a <= b /\ r = a .. b
        /\ \A i \in a .. b : i \in Signed
        /\ b + 1 \notin Signed
        /\ RunCount \in Nat
    BY RunIs, RunsAre
  <1>2. After(k) = b + 1
    BY <1>1 DEF After
  <1> HIDE DEF a, b, r
  <1>3. a \in Signed /\ line[a] \in Signs
    <2>1. a \in Signed
      BY <1>1
    <2>2. Has(a, Signs)
      BY <2>1, SignIs
    <2> QED
      BY <2>1, <2>2 DEF Has
  <1>4. Single(a) <=> a = b
    <2>1. Has(a + 1, Signs) <=> a + 1 \in Signed
      BY <1>3, SignIs
    <2>2. a + 1 \in Signed <=> a # b
      BY <1>1
    <2> QED
      BY <2>1, <2>2 DEF Single
  <1>5. Cardinality(r) = (b - a) + 1 /\ Cardinality(r) \in Nat
    <2>1. Cardinality(a .. b) = (b - a) + 1
      BY <1>1, FS_Interval
    <2> QED
      BY <1>1, <2>1
  <1>6. CASE a = b
    <2>1. r = {a}
      BY <1>1, <1>6
    <2>2. Cardinality(r) = 1
      BY <1>1, <1>5, <1>6
    <2>3. SignOf(r) = line[a]
      BY <2>1 DEF SignOf
    <2>4. RunGood(k)
      BY <2>2 DEF RunGood, GoodRun, r
    <2>5. Single(a) /\ Width(a) = 1
      BY <1>4, <1>6 DEF Width
    <2>6. TypeOf(a) = RunType(r)
      BY <1>3, <2>2, <2>3, <2>5 DEF TypeOf, RunType, Signs
    <2> QED
      BY <1>2, <1>6, <2>4, <2>5, <2>6 DEF OpAt, a, r
  <1>7. CASE a # b
    <2>1. ~Single(a) /\ Width(a) = 2
      BY <1>4, <1>7 DEF Width
    <2>2. Cardinality(r) # 1
      BY <1>1, <1>5, <1>7
    <2>3. a + 1 \in Signed /\ a + 1 \in r /\ a \in r
      BY <1>1, <1>7
    <2>4. a + 1 \in DOMAIN line
      BY <2>3 DEF Signed, Outside
    <2>5. DoubledSign(a) <=> line[a] \in {"&", "|"} /\ line[a + 1] = line[a]
      BY <2>4 DEF DoubledSign, Has
    <2>6. RunGood(k) <=> b = a + 1 /\ DoubledSign(a)
      <3>1. Cardinality(r) = 2 <=> b = a + 1
        BY <1>1, <1>5
      <3>2. RunGood(k) <=> b = a + 1 /\ {line[i] : i \in r} \in {{"&"}, {"|"}}
        BY <2>2, <3>1 DEF RunGood, GoodRun, r
      <3>3. ASSUME b = a + 1
            PROVE  {line[i] : i \in r} \in {{"&"}, {"|"}} <=> DoubledSign(a)
        <4>1. r = {a, a + 1}
          BY <1>1, <3>3
        <4>2. {line[i] : i \in r} = {line[a], line[a + 1]}
          BY <4>1
        <4> DEFINE x == line[a]
                   y == line[a + 1]
                   L == {line[i] : i \in r}
        <4>3. \A c : L = {c} <=> x = c /\ y = c
          BY <4>2
        <4> HIDE DEF L, x, y
        <4>4. L \in {{"&"}, {"|"}} <=> L = {"&"} \/ L = {"|"}
          OBVIOUS
        <4>5. L \in {{"&"}, {"|"}} <=> (x = "&" /\ y = "&") \/ (x = "|" /\ y = "|")
          BY <4>3, <4>4, Zenon
        <4>6. DoubledSign(a) <=> x \in {"&", "|"} /\ y = x
          BY <2>5 DEF x, y
        <4>7. x \in {"&", "|"} <=> x = "&" \/ x = "|"
          OBVIOUS
        <4>8. L \in {{"&"}, {"|"}} <=> DoubledSign(a)
          BY <4>5, <4>6, <4>7, Zenon
        <4> QED
          BY <4>8 DEF L
      <3> QED
        BY <3>2, <3>3
    <2>7. CASE RunGood(k)
      <3>1. b = a + 1 /\ DoubledSign(a)
        BY <2>6, <2>7
      <3>2. \A i \in r : line[i] = line[a]
        <4>1. \A i \in r : i = a \/ i = a + 1
          BY <1>1, <3>1
        <4> QED
          BY <2>5, <3>1, <4>1
      <3>3. SignOf(r) = line[a]
        BY <2>3, <3>2 DEF SignOf
      <3>4. TypeOf(a) = RunType(r)
        BY <2>1, <2>2, <2>5, <3>1, <3>3 DEF TypeOf, RunType
      <3>5. a + Width(a) = After(k)
        BY <1>1, <1>2, <2>1, <3>1
      <3> QED
        BY <2>7, <3>1, <3>4, <3>5 DEF OpAt, a, r
    <2>8. CASE ~RunGood(k)
      <3>1. ASSUME DoubledSign(a)
            PROVE  a + 2 \in Signed
        <4>1. a < b /\ b # a + 1
          BY <1>1, <1>7, <2>6, <2>8, <3>1
        <4>2. a + 2 \in a .. b
          BY <1>1, <4>1
        <4> QED
          BY <1>1, <4>2
      <3> QED
        BY <2>1, <2>8, <3>1 DEF a
    <2> QED
      BY <2>7, <2>8
  <1> QED
    BY <1>6, <1>7

\* An operator of the reference.
LEMMA OperatorIs ==
  ASSUME NEW k
  PROVE  /\ IsOperator(OpAt(k)) /\ Named(OpAt(k))
         /\ OpAt(k).type = "BACKGROUND" <=> Background(k)
  <1>1. OpAt(k) = [kind |-> "operator", type |-> RunType(Runs[k])]
    BY DEF OpAt, Operator
  <1>2. OpAt(k).kind = "operator" /\ OpAt(k).type = RunType(Runs[k])
    BY <1>1
  <1>3. RunType(Runs[k]) = "BACKGROUND" <=> Background(k)
    BY DEF RunType, Background
  <1> QED
    BY <1>2, <1>3 DEF IsOperator, Named

\* Two adjacent operators, or one at the beginning, remain when an unnamed command
\* before an operator is removed.
Stray(t) ==
  \E j \in DOMAIN t : /\ j + 1 \in DOMAIN t /\ ~Named(t[j]) /\ IsOperator(t[j + 1])
                      /\ j = 1 \/ IsOperator(t[j - 1])

Adjoining(t) == \E i \in DOMAIN t : IsOperator(t[i]) /\ (i = 1 \/ IsOperator(t[i - 1]))

\* What the removal has kept behind each token.
Keeps(K, row) == K[0] = <<>> /\ \A m \in 1 .. Len(row) : K[m] = KeepTurn(K[m - 1], row[m])

\* A row that begins with another.
GoesOn(s, t) == Len(s) <= Len(t) /\ \A p \in 1 .. Len(s) : t[p] = s[p]

\* What the removal keeps of a row it keeps when the row goes on.
LEMMA KeptGrows ==
  ASSUME NEW T, NEW row \in Seq(T), NEW K \in [0 .. Len(row) -> Seq(T)], Keeps(K, row)
  PROVE  \A i, j \in 0 .. Len(row) : i <= j => GoesOn(K[i], K[j])
  <1> SUFFICES ASSUME NEW i \in 0 .. Len(row), NEW j \in 0 .. Len(row), i <= j
               PROVE  GoesOn(K[i], K[j])
    OBVIOUS
  <1> DEFINE n == Len(row)
             Grown(m) == GoesOn(K[i], K[m])
             G == {m \in 0 .. n : m < i \/ Grown(m)}
  <1>1. n \in Nat
    OBVIOUS
  <1>2. \A m \in 0 .. n : K[m] \in Seq(T) /\ Len(K[m]) \in Nat
    OBVIOUS
  <1>3. ASSUME NEW m \in 1 .. n, m - 1 \in G
        PROVE  m \in G
    <2>1. m - 1 \in 0 .. n /\ m \in 0 .. n /\ m \in Nat /\ i \in Nat
      BY <1>1
    <2>2. K[m] = KeepTurn(K[m - 1], row[m])
      BY DEF Keeps
    <2>3. GoesOn(K[m - 1], K[m])
      BY <1>2, <2>1, <2>2 DEF KeepTurn, GoesOn
    <2>4. CASE m < i
      BY <2>1, <2>4
    <2>5. CASE m = i
      BY <1>2, <2>1, <2>5 DEF GoesOn
    <2>6. CASE i < m
      <3>1. Grown(m - 1)
        BY <1>3, <2>1, <2>6
      <3>2. Grown(m)
        BY <1>2, <2>1, <2>3, <3>1 DEF GoesOn
      <3> QED
        BY <2>1, <3>2
    <2> QED
      BY <2>1, <2>4, <2>5, <2>6
  <1>4. 0 \in G
    BY <1>1, <1>2 DEF GoesOn
  <1> HIDE DEF Grown
  <1>5. 0 .. n \subseteq G
    <2> HIDE DEF G
    <2> QED
      BY <1>1, <1>3, <1>4, StepByStep
  <1>6. Grown(j)
    BY <1>5
  <1> QED
    BY <1>6 DEF Grown

\* Without unnamed commands the removal changes nothing.
LEMMA KeptAll ==
  ASSUME NEW T, NEW row \in Seq(T), NEW K \in [0 .. Len(row) -> Seq(T)], Keeps(K, row),
         NEW i \in 0 .. Len(row), \A m \in 1 .. i : Named(row[m])
  PROVE  Len(K[i]) = i /\ \A p \in 1 .. i : K[i][p] = row[p]
  <1> DEFINE n == Len(row)
             Same(m) == Len(K[m]) = m /\ \A p \in 1 .. m : K[m][p] = row[p]
             G == {m \in 0 .. i : Same(m)}
  <1>1. n \in Nat /\ i \in Nat /\ i <= n
    OBVIOUS
  <1>2. ASSUME NEW m \in 1 .. i, m - 1 \in G
        PROVE  m \in G
    <2>1. m \in 1 .. n /\ m - 1 \in 0 .. n /\ m \in 0 .. n /\ m \in 0 .. i
      BY <1>1
    <2>2. Same(m - 1) /\ K[m - 1] \in Seq(T)
      BY <1>2, <2>1
    <2>3. K[m] = Append(K[m - 1], row[m])
      BY <2>1 DEF Keeps, KeepTurn
    <2>4. /\ Len(K[m]) = Len(K[m - 1]) + 1
          /\ K[m][Len(K[m - 1]) + 1] = row[m]
          /\ \A p \in 1 .. Len(K[m - 1]) : K[m][p] = K[m - 1][p]
      BY <2>2, <2>3
    <2>5. Len(K[m]) = m /\ K[m][m] = row[m] /\ \A p \in 1 .. m - 1 : K[m][p] = row[p]
      BY <2>1, <2>2, <2>4
    <2>6. \A p \in 1 .. m : p = m \/ p \in 1 .. m - 1
      BY <2>1
    <2> QED
      BY <2>1, <2>5, <2>6
  <1>3. 0 \in G
    BY <1>1 DEF Keeps
  <1> HIDE DEF Same
  <1>4. 0 .. i \subseteq G
    <2> HIDE DEF G
    <2> QED
      BY <1>1, <1>2, <1>3, StepByStep
  <1>5. Same(i)
    BY <1>1, <1>4
  <1> QED
    BY <1>5 DEF Same

\* A stray operator is found out.
LEMMA StrayKept ==
  ASSUME NEW T, NEW row \in Seq(T), Stray(row)
  PROVE  Adjoining(FoldLeft(KeepTurn, <<>>, row))
  <1> DEFINE n == Len(row)
  <1>1. PICK j \in DOMAIN row : /\ j + 1 \in DOMAIN row /\ ~Named(row[j])
                                /\ IsOperator(row[j + 1])
                                /\ j = 1 \/ IsOperator(row[j - 1])
    BY DEF Stray
  <1>2. n \in Nat /\ DOMAIN row = 1 .. n /\ j \in Nat /\ 1 <= j /\ j + 1 <= n
    BY <1>1
  <1>3. PICK K \in [0 .. n -> Seq(T)] :
            Keeps(K, row) /\ FoldLeft(KeepTurn, <<>>, row) = K[n]
    BY KeptRun DEF Keeps
  <1>4. /\ \A m \in 0 .. n : K[m] \in Seq(T) /\ Len(K[m]) \in Nat
        /\ \A i, m \in 0 .. n : i <= m => GoesOn(K[i], K[m])
    <2>1. \A m \in 0 .. n : K[m] \in Seq(T) /\ Len(K[m]) \in Nat
      OBVIOUS
    <2>2. \A i, m \in 0 .. n : i <= m => GoesOn(K[i], K[m])
      BY <1>3, KeptGrows
    <2> QED
      BY <2>1, <2>2
  <1>5. /\ j - 1 \in 0 .. n /\ j \in 0 .. n /\ j + 1 \in 0 .. n /\ n \in 0 .. n
        /\ (j + 1) - 1 = j /\ j \in 1 .. n /\ j + 1 \in 1 .. n
    BY <1>2
  <1>6. K[j] = K[j - 1]
    BY <1>1, <1>3, <1>5 DEF Keeps, KeepTurn
  <1>7. Named(row[j + 1])
    BY <1>1 DEF Named
  <1>8. K[j + 1] = Append(K[j], row[j + 1])
    BY <1>3, <1>5, <1>7 DEF Keeps, KeepTurn
  <1> DEFINE p == Len(K[j]) + 1
  <1>9. p \in Nat /\ p >= 1 /\ Len(K[j + 1]) = p /\ K[j + 1][p] = row[j + 1]
        /\ \A q \in 1 .. p - 1 : K[j + 1][q] = K[j][q]
    BY <1>4, <1>5, <1>8
  <1>10. p = 1 \/ (p - 1 \in 1 .. p /\ IsOperator(K[j + 1][p - 1]))
    <2>1. CASE j = 1
      BY <1>3, <1>6, <2>1 DEF Keeps
    <2>2. CASE j # 1
      <3>1. j - 1 \in 1 .. n /\ j - 2 \in 0 .. n /\ (j - 1) - 1 = j - 2
        BY <1>2, <2>2
      <3>2. IsOperator(row[j - 1]) /\ Named(row[j - 1])
        BY <1>1, <2>2 DEF Named
      <3>3. K[j - 1] = Append(K[j - 2], row[j - 1])
        BY <1>3, <3>1, <3>2 DEF Keeps, KeepTurn
      <3>4. Len(K[j - 1]) \in Nat /\ Len(K[j - 1]) >= 1 /\ K[j - 1][Len(K[j - 1])] = row[j - 1]
        BY <1>4, <3>1, <3>3
      <3>5. p - 1 \in 1 .. p - 1 /\ p - 1 = Len(K[j - 1]) /\ p - 1 \in 1 .. p
        BY <1>6, <3>4
      <3>6. K[j + 1][p - 1] = row[j - 1]
        BY <1>6, <1>9, <3>4, <3>5
      <3> QED
        BY <3>2, <3>5, <3>6
    <2> QED
      BY <2>1, <2>2
  <1> HIDE DEF p, n
  <1>11. Len(K[j + 1]) <= Len(K[n]) /\ \A q \in 1 .. Len(K[j + 1]) : K[n][q] = K[j + 1][q]
    <2>1. j + 1 <= n
      BY <1>2
    <2> QED
      BY <1>4, <1>5, <2>1 DEF GoesOn
  <1>12. p \in 1 .. p /\ p \in 1 .. Len(K[n]) /\ DOMAIN K[n] = 1 .. Len(K[n])
    BY <1>4, <1>5, <1>9, <1>11
  <1>13. IsOperator(K[n][p]) /\ (p = 1 \/ IsOperator(K[n][p - 1]))
    BY <1>1, <1>9, <1>10, <1>11, <1>12
  <1> QED
    BY <1>3, <1>12, <1>13 DEF Adjoining

LEMMA AdjoiningInvalid ==
  ASSUME tokens \in Seq(Token), Adjoining(tokens)
  PROVE  \E i \in DOMAIN tokens : ~TokenValid(i)
  BY DEF Adjoining, TokenValid

\* The k-th token of the reference, and the row of the first commands and operators.
TokenAt(p) == IF p % 2 = 0 THEN OpAt(p \div 2) ELSE CmdAt((p + 1) \div 2)
Alternate(t, m) == \A p \in 1 .. 2 * m : t[p] = TokenAt(p)

\* What remains to be said of a shell line when each part of it is good.
EndsWell ==
  /\ \A k \in 1 .. RunCount - 1 : ~Background(k)
  /\ RunCount > 0 => (NamedAt(RunCount + 1) <=> ~Background(RunCount))

LEMMA Halves ==
  ASSUME NEW k \in Nat, k > 0
  PROVE  /\ (2 * k) % 2 = 0 /\ (2 * k) \div 2 = k
         /\ (2 * k - 1) % 2 # 0 /\ ((2 * k - 1) + 1) \div 2 = k
  <1>1. (2 * k - 1) + 1 = 2 * k
    OBVIOUS
  <1>2. (2 * k) % 2 = 0 /\ (2 * k) \div 2 = k
    OBVIOUS
  <1>3. (2 * k - 1) % 2 = 1
    OBVIOUS
  <1> QED
    BY <1>1, <1>2, <1>3

LEMMA TokensAt ==
  ASSUME NEW k \in Nat, k > 0
  PROVE  TokenAt(2 * k) = OpAt(k) /\ TokenAt(2 * k - 1) = CmdAt(k)
  BY Halves DEF TokenAt

\* A number is twice another, or one less.
LEMMA EvenOdd ==
  ASSUME NEW n \in Nat, NEW p \in 1 .. 2 * n
  PROVE  \/ \E k \in 1 .. n : p = 2 * k
         \/ \E k \in 1 .. n : p = 2 * k - 1
  <1>1. CASE p % 2 = 0
    <2>1. p \div 2 \in 1 .. n /\ p = 2 * (p \div 2)
      BY <1>1
    <2> QED
      BY <2>1
  <1>2. CASE p % 2 # 0
    <2>1. (p + 1) \div 2 \in 1 .. n /\ p = 2 * ((p + 1) \div 2) - 1
      BY <1>2
    <2> QED
      BY <2>1
  <1> QED
    BY <1>1, <1>2

\* Alternating commands and operators are valid as far as "&" is only at the end
\* and nothing else is.
LEMMA RefValid ==
  ASSUME line \in Seq(Alphabet), Len(line) <= MaxLength, tokens = RefTokens
  PROVE  (\A i \in DOMAIN tokens : TokenValid(i)) <=> EndsWell
  <1> DEFINE n == RunCount
             e == IF NamedAt(n + 1) THEN 1 ELSE 0
             size == 2 * n + e
  <1>1. n \in Nat
    BY RunsAre
  <1>2. tokens = [p \in 1 .. size |-> TokenAt(p)]
    BY <1>1, RefTokensIs DEF TokenAt
  <1>3. size \in Nat /\ Len(tokens) = size /\ DOMAIN tokens = 1 .. size
        /\ e \in {0, 1} /\ (e = 1 <=> NamedAt(n + 1)) /\ size = 2 * n + e
    BY <1>1, <1>2
  <1>4. \A k \in 1 .. n : ~IsOperator(CmdAt(k)) /\ IsOperator(OpAt(k))
                          /\ (OpAt(k).type = "BACKGROUND" <=> Background(k))
    BY <1>1, NamedIs, OperatorIs
  <1>5. ~IsOperator(CmdAt(n + 1))
    BY <1>1, NamedIs
  <1> HIDE DEF e, n, size
  <1>6. ASSUME NEW k \in 1 .. n
        PROVE  /\ 2 * k \in DOMAIN tokens /\ 2 * k - 1 \in DOMAIN tokens
               /\ tokens[2 * k] = OpAt(k) /\ tokens[2 * k - 1] = CmdAt(k)
    <2>1. k \in Nat /\ k > 0 /\ 2 * k \in 1 .. size /\ 2 * k - 1 \in 1 .. size
      BY <1>1, <1>3
    <2> QED
      BY <1>2, <1>3, <2>1, TokensAt
  <1>7. e = 1 => size = 2 * (n + 1) - 1 /\ tokens[size] = CmdAt(n + 1) /\ size \in DOMAIN tokens
    <2>1. ASSUME e = 1
          PROVE  size = 2 * (n + 1) - 1 /\ size \in 1 .. size /\ n + 1 \in Nat /\ n + 1 > 0
      BY <1>1, <1>3, <2>1
    <2> QED
      BY <1>2, <1>3, <2>1, TokensAt
  <1>8. \A i \in DOMAIN tokens : \/ \E k \in 1 .. n : i = 2 * k
                                 \/ \E k \in 1 .. n : i = 2 * k - 1
                                 \/ e = 1 /\ i = size
    <2>1. ASSUME NEW i \in 1 .. size
          PROVE  i \in 1 .. 2 * n \/ (e = 1 /\ i = size)
      BY <1>1, <1>3
    <2> QED
      BY <1>1, <1>3, <2>1, EvenOdd
  <1>9. ASSUME NEW k \in 1 .. n
        PROVE  TokenValid(2 * k - 1)
    <2>1. k \in Nat /\ k > 0 /\ ~IsOperator(tokens[2 * k - 1])
      <3>1. k \in Nat /\ k > 0
        BY <1>1
      <3>2. tokens[2 * k - 1] = CmdAt(k) /\ ~IsOperator(CmdAt(k))
        BY <1>4, <1>6
      <3> QED
        BY <3>1, <3>2
    <2>2. 2 * k - 1 = 1 \/ IsOperator(tokens[(2 * k - 1) - 1])
      <3>1. CASE k = 1
        BY <3>1
      <3>2. CASE k # 1
        <4>1. k - 1 \in 1 .. n /\ (2 * k - 1) - 1 = 2 * (k - 1)
          BY <1>1, <2>1, <3>2
        <4> QED
          BY <1>4, <1>6, <4>1
      <3> QED
        BY <3>1, <3>2
    <2> QED
      BY <2>1, <2>2 DEF TokenValid
  <1>10. e = 1 => TokenValid(size)
    <2>1. ASSUME e = 1
          PROVE  TokenValid(size)
      <3>1. ~IsOperator(tokens[size])
        BY <1>5, <1>7, <2>1
      <3>2. size = 1 \/ IsOperator(tokens[size - 1])
        <4>1. CASE n = 0
          BY <1>3, <2>1, <4>1
        <4>2. CASE n # 0
          <5>1. n \in 1 .. n /\ size - 1 = 2 * n
            BY <1>1, <1>3, <2>1, <4>2
          <5> QED
            BY <1>4, <1>6, <5>1
        <4> QED
          BY <4>1, <4>2
      <3> QED
        BY <3>1, <3>2 DEF TokenValid
    <2> QED
      BY <2>1
  <1>11. ASSUME NEW k \in 1 .. n
         PROVE  TokenValid(2 * k) <=> (IF Background(k) THEN k = n /\ e = 0 ELSE k < n \/ e = 1)
    <2> DEFINE i == 2 * k
    <2>1. k \in Nat /\ k > 0 /\ k <= n /\ i \in Nat /\ i # 1
      BY <1>1
    <2>2. IsOperator(tokens[i]) /\ ~IsOperator(tokens[i - 1])
          /\ (tokens[i].type = "BACKGROUND" <=> Background(k))
      BY <1>4, <1>6
    <2>3. i = Len(tokens) <=> k = n /\ e = 0
      BY <1>1, <1>3, <2>1
    <2>4. i # Len(tokens) => ~IsOperator(tokens[i + 1])
      <3>1. CASE k < n
        <4>1. k + 1 \in 1 .. n /\ i + 1 = 2 * (k + 1) - 1
          BY <1>1, <2>1, <3>1
        <4> QED
          BY <1>4, <1>6, <4>1
      <3>2. CASE k = n
        <4>1. ASSUME i # Len(tokens)
              PROVE  e = 1 /\ i + 1 = size
          BY <1>1, <1>3, <2>1, <2>3, <3>2, <4>1
        <4> QED
          BY <1>5, <1>7, <4>1
      <3> QED
        BY <1>1, <2>1, <3>1, <3>2
    <2>5. TokenValid(i) <=> IF tokens[i].type = "BACKGROUND" THEN i = Len(tokens)
                            ELSE i # Len(tokens) /\ ~IsOperator(tokens[i + 1])
      BY <2>1, <2>2 DEF TokenValid
    <2>6. i # Len(tokens) <=> k < n \/ e = 1
      BY <1>1, <1>3, <2>1, <2>3
    <2> HIDE DEF i
    <2>7. TokenValid(i) <=> (IF Background(k) THEN k = n /\ e = 0 ELSE k < n \/ e = 1)
      BY <2>2, <2>3, <2>4, <2>5, <2>6
    <2> QED
      BY <2>7 DEF i
  <1>12. (\A i \in DOMAIN tokens : TokenValid(i)) <=> \A k \in 1 .. n : TokenValid(2 * k)
    BY <1>6, <1>8, <1>9, <1>10
  <1>13. (\A k \in 1 .. n : TokenValid(2 * k)) <=>
           \A k \in 1 .. n : IF Background(k) THEN k = n /\ e = 0 ELSE k < n \/ e = 1
    BY <1>11
  <1>14. EndsWell <=> /\ \A k \in 1 .. n - 1 : ~Background(k)
                      /\ n > 0 => (e = 1 <=> ~Background(n))
    BY <1>3 DEF EndsWell, n
  <1>15. EndsWell <=> \A k \in 1 .. n : IF Background(k) THEN k = n /\ e = 0 ELSE k < n \/ e = 1
    <2>1. \A k \in 1 .. n : k \in Nat /\ (k = n \/ k \in 1 .. n - 1)
                            /\ (k < n <=> k \in 1 .. n - 1) /\ n > 0
      BY <1>1
    <2>2. n > 0 => n \in 1 .. n
      BY <1>1
    <2>3. \A k \in 1 .. n - 1 : k \in 1 .. n /\ k # n
      BY <1>1
    <2>4. e = 1 <=> e # 0
      BY <1>3
    <2> QED
      BY <1>1, <1>14, <2>1, <2>2, <2>3, <2>4
  <1> QED
    BY <1>12, <1>13, <1>15

\* When the line is cut up: each command before an operator and each operator is a
\* token, and the last command as well, if it has a name.
CutUp(t) ==
  /\ ~Inside(Len(line) + 1)
  /\ \A k \in 1 .. RunCount : RunGood(k)
  /\ \A k \in 1 .. RunCount + 1 : WordsGood(k)
  /\ Alternate(t, RunCount)
  /\ \/ Len(t) = 2 * RunCount + 1 /\ t[2 * RunCount + 1] = CmdAt(RunCount + 1)
     \/ Len(t) = 2 * RunCount /\ ~NamedAt(RunCount + 1)

\* Removing the unnamed commands leaves the reference's tokens or two operators side
\* by side.
LEMMA CutUpKept ==
  ASSUME line \in Seq(Alphabet), Len(line) <= MaxLength, tokens \in Seq(Token), CutUp(tokens)
  PROVE  \/ /\ FoldLeft(KeepTurn, <<>>, tokens) = RefTokens
            /\ GoodLine <=> EndsWell
         \/ ~GoodLine /\ Stray(tokens)
  <1> DEFINE n == RunCount
             r == FoldLeft(KeepTurn, <<>>, tokens)
             l == Len(tokens)
  <1>1. n \in Nat /\ l \in Nat /\ DOMAIN tokens = 1 .. l /\ (l = 2 * n \/ l = 2 * n + 1)
    BY RunsAre DEF CutUp
  <1>2. GoodLine <=> (\A k \in 1 .. n : NamedAt(k)) /\ EndsWell
    <2>1. (\A k \in 1 .. n : RunGood(k) /\ NamedAt(k)) <=> \A k \in 1 .. n : NamedAt(k)
      BY DEF CutUp
    <2> QED
      BY <1>1, <2>1, GoodLineIs DEF CutUp, EndsWell
  <1>3. /\ Alternate(tokens, n)
        /\ \/ l = 2 * n + 1 /\ tokens[2 * n + 1] = CmdAt(n + 1)
           \/ l = 2 * n /\ ~NamedAt(n + 1)
    BY DEF CutUp
  <1>4. /\ \A k \in 1 .. n + 1 : ~IsOperator(CmdAt(k)) /\ (Named(CmdAt(k)) <=> NamedAt(k))
        /\ \A k \in 1 .. n : k \in 1 .. n + 1
        /\ n + 1 \in 1 .. n + 1
    <2>1. \A k \in 1 .. n + 1 : ~IsOperator(CmdAt(k)) /\ (Named(CmdAt(k)) <=> NamedAt(k))
      BY NamedIs
    <2>2. (\A k \in 1 .. n : k \in 1 .. n + 1) /\ n + 1 \in 1 .. n + 1
      <3>1. n \in Nat
        BY <1>1
      <3> HIDE DEF n
      <3> QED
        BY <3>1
    <2> QED
      BY <2>1, <2>2
  <1>5. RefTokens = [p \in 1 .. 2 * n + (IF NamedAt(n + 1) THEN 1 ELSE 0) |-> TokenAt(p)]
    BY <1>1, RefTokensIs DEF TokenAt
  <1> HIDE DEF n, l, r
  <1>6. ASSUME NEW k \in 1 .. n
        PROVE  /\ 2 * k \in 1 .. 2 * n /\ 2 * k - 1 \in 1 .. 2 * n
               /\ 2 * k \in 1 .. l /\ 2 * k - 1 \in 1 .. l
               /\ tokens[2 * k] = OpAt(k) /\ tokens[2 * k - 1] = CmdAt(k)
    <2>1. k \in Nat /\ k > 0 /\ 2 * k \in 1 .. 2 * n /\ 2 * k - 1 \in 1 .. 2 * n
          /\ 2 * k \in 1 .. l /\ 2 * k - 1 \in 1 .. l
      BY <1>1
    <2> QED
      BY <1>3, <2>1, TokensAt DEF Alternate
  <1>7. CASE \E k \in 1 .. n : ~NamedAt(k)
    <2>1. PICK k \in 1 .. n : ~NamedAt(k)
      BY <1>7
    <2> DEFINE j == 2 * k - 1
    <2>2. j \in DOMAIN tokens /\ j + 1 \in DOMAIN tokens /\ j + 1 = 2 * k /\ k \in Nat
      BY <1>1, <1>6
    <2>3. ~Named(tokens[j]) /\ IsOperator(tokens[j + 1])
      <3>1. tokens[j] = CmdAt(k) /\ tokens[j + 1] = OpAt(k)
        BY <1>6, <2>2
      <3> QED
        BY <1>4, <2>1, <3>1, OperatorIs
    <2>4. j = 1 \/ IsOperator(tokens[j - 1])
      <3>1. CASE k = 1
        BY <3>1
      <3>2. CASE k # 1
        <4>1. k - 1 \in 1 .. n /\ j - 1 = 2 * (k - 1)
          BY <1>1, <2>2, <3>2
        <4> QED
          BY <1>6, <4>1, OperatorIs
      <3> QED
        BY <3>1, <3>2
    <2> HIDE DEF j
    <2>5. Stray(tokens)
      BY <2>2, <2>3, <2>4 DEF Stray
    <2> QED
      BY <1>2, <1>7, <2>5
  <1>8. CASE \A k \in 1 .. n : NamedAt(k)
    <2>1. PICK K \in [0 .. l -> Seq(Token)] : Keeps(K, tokens) /\ r = K[l]
      BY KeptRun DEF Keeps, l, r
    <2>2. \A p \in 1 .. 2 * n : Named(tokens[p])
      <3>1. \A k \in 1 .. n : Named(OpAt(k)) /\ Named(CmdAt(k))
        BY <1>4, <1>8, OperatorIs
      <3> QED
        BY <1>1, <1>6, <3>1, EvenOdd
    <2> DEFINE q == K[2 * n]
               last == CmdAt(n + 1)
    <2>3. 2 * n \in 0 .. l /\ 2 * n \in Nat
      BY <1>1
    <2>4. q \in Seq(Token)
      BY <2>1, <2>3
    <2>5. Len(q) = 2 * n /\ \A p \in 1 .. 2 * n : q[p] = tokens[p]
      BY <2>1, <2>2, <2>3, KeptAll DEF l
    <2>6. \A p \in 1 .. 2 * n : q[p] = TokenAt(p)
      BY <1>3, <2>5 DEF Alternate
    <2>7. Named(last) <=> NamedAt(n + 1)
      BY <1>4
    <2>8. r = IF NamedAt(n + 1) THEN Append(q, last) ELSE q
      <3>1. CASE l = 2 * n
        <4>1. ~NamedAt(n + 1)
          BY <1>1, <1>3, <3>1
        <4> QED
          BY <2>1, <3>1, <4>1
      <3>2. CASE l = 2 * n + 1
        <4>1. tokens[l] = last
          BY <1>1, <1>3, <3>2
        <4>2. l \in 1 .. l /\ l - 1 = 2 * n
          BY <1>1, <3>2
        <4>3. r = KeepTurn(q, last)
          BY <2>1, <4>1, <4>2 DEF Keeps, l
        <4> QED
          BY <2>7, <4>3 DEF KeepTurn
      <3> QED
        BY <1>1, <3>1, <3>2
    <2>9. TokenAt(2 * n + 1) = last
      <3>1. n + 1 \in Nat /\ n + 1 > 0 /\ 2 * (n + 1) - 1 = 2 * n + 1
        BY <1>1
      <3>2. TokenAt(2 * (n + 1) - 1) = last
        BY <3>1, TokensAt
      <3> QED
        BY <3>1, <3>2
    <2> HIDE DEF q, last, r, n
    <2>10. r = RefTokens
      <3>1. CASE NamedAt(n + 1)
        <4>1. RefTokens = [p \in 1 .. 2 * n + 1 |-> TokenAt(p)]
          BY <1>5, <3>1
        <4>2. r = Append(q, last)
          BY <2>8, <3>1
        <4>3. /\ r \in Seq(Token \cup {last}) /\ Len(r) = 2 * n + 1 /\ r[2 * n + 1] = last
              /\ \A p \in 1 .. 2 * n : r[p] = q[p]
          <5>1. q \in Seq(Token \cup {last})
            BY <2>4
          <5> QED
            BY <2>3, <2>5, <4>2, <5>1
        <4>4. \A p \in 1 .. 2 * n + 1 : p = 2 * n + 1 \/ p \in 1 .. 2 * n
          BY <2>3
        <4>5. \A p \in 1 .. 2 * n + 1 : r[p] = TokenAt(p)
          BY <2>6, <2>9, <4>3, <4>4
        <4>6. r = [p \in 1 .. 2 * n + 1 |-> r[p]]
          BY <4>3
        <4> QED
          BY <4>1, <4>5, <4>6
      <3>2. CASE ~NamedAt(n + 1)
        <4>1. RefTokens = [p \in 1 .. 2 * n |-> TokenAt(p)]
          BY <2>3, <1>5, <3>2
        <4>2. r = [p \in 1 .. 2 * n |-> r[p]] /\ \A p \in 1 .. 2 * n : r[p] = q[p]
          BY <2>3, <2>4, <2>5, <2>8, <3>2
        <4> QED
          BY <2>6, <4>1, <4>2
      <3> QED
        BY <3>1, <3>2
    <2> QED
      BY <1>2, <1>8, <2>10 DEF r
  <1> QED
    BY <1>7, <1>8

-----------------------------------------------------------------------------
(* The lexer of the shell: it parses exactly the shell lines.               *)

\* What the lexer knows before the line is cut up: the commands and operators of the
\* first parts are tokens and it stands behind them; or it is no shell line, and an
\* operator follows another.
Aligned(t, f, m) ==
  /\ Len(t) = 2 * m /\ Alternate(t, m)
  /\ \A k \in 1 .. m : RunGood(k) /\ WordsGood(k)
  /\ f = After(m)

Astray(t, f) ==
  /\ ~GoodLine
  /\ Stray(t) \/ (f \in Signed /\ t # <<>> /\ IsOperator(t[Len(t)]))

Parsing ==
  /\ phase = "lex" => \/ \E m \in 0 .. RunCount : Aligned(tokens, first, m)
                      \/ Astray(tokens, first)
  /\ phase = "clean" => CutUp(tokens) \/ (~GoodLine /\ Stray(tokens))
  /\ phase = "check" => \/ tokens = RefTokens /\ (GoodLine <=> EndsWell)
                        \/ ~GoodLine /\ Adjoining(tokens)
  /\ phase = "ok" => GoodLine /\ tokens = RefTokens
  /\ phase = "bad" => ~GoodLine

\* The reference does not change while the line stays.
LEMMA SameLine ==
  ASSUME line' = line, line \in Seq(Alphabet)
  PROVE  /\ GoodLine' <=> GoodLine
         /\ RefTokens' = RefTokens
         /\ EndsWell' <=> EndsWell
         /\ \A k : After(k)' = After(k) /\ TokenAt(k)' = TokenAt(k)
  <1>1. /\ Signed' = Signed /\ Runs' = Runs /\ RunCount' = RunCount
        /\ \A k : /\ CmdAt(k)' = CmdAt(k) /\ OpAt(k)' = OpAt(k)
                  /\ RunGood(k)' <=> RunGood(k)
                  /\ WordsGood(k)' <=> WordsGood(k)
                  /\ NamedAt(k)' <=> NamedAt(k)
                  /\ Background(k)' <=> Background(k)
        /\ \A i : Inside(i)' <=> Inside(i)
    BY Rigid
  <1>2. RunCount \in Nat
    BY RunsAre
  <1>3. EndsWell' <=> EndsWell
    BY <1>1 DEF EndsWell
  <1>4. \A k : TokenAt(k)' = TokenAt(k)
    BY <1>1 DEF TokenAt
  <1>5. \A k : After(k)' = After(k)
    BY <1>1 DEF After, RunTo, Top
  <1>6. GoodLine' <=> GoodLine
    <2>1. line \in Seq(Alphabet) /\ RunCount \in Nat =>
            (GoodLine <=>
               /\ ~Inside(Len(line) + 1)
               /\ \A k \in 1 .. RunCount : RunGood(k) /\ NamedAt(k)
               /\ \A k \in 1 .. RunCount - 1 : ~Background(k)
               /\ RunCount > 0 => (NamedAt(RunCount + 1) <=> ~Background(RunCount))
               /\ \A k \in 1 .. RunCount + 1 : WordsGood(k))
      BY GoodLineIs
    <2>2. (line \in Seq(Alphabet) /\ RunCount \in Nat =>
            (GoodLine <=>
               /\ ~Inside(Len(line) + 1)
               /\ \A k \in 1 .. RunCount : RunGood(k) /\ NamedAt(k)
               /\ \A k \in 1 .. RunCount - 1 : ~Background(k)
               /\ RunCount > 0 => (NamedAt(RunCount + 1) <=> ~Background(RunCount))
               /\ \A k \in 1 .. RunCount + 1 : WordsGood(k)))'
      BY GoodLineIs, PTL
    <2>3. line' \in Seq(Alphabet)' /\ RunCount' \in Nat
      BY <1>1, <1>2 DEF Alphabet, Quotes, Blanks, Redirects, Signs
    <2> QED
      BY <1>1, <1>2, <2>1, <2>2, <2>3
  <1>7. RefTokens' = RefTokens
    <2>1. RefTokens = [k \in 1 .. 2 * RunCount + (IF NamedAt(RunCount + 1) THEN 1 ELSE 0) |->
                   IF k % 2 = 0 THEN OpAt(k \div 2) ELSE CmdAt((k + 1) \div 2)]
      BY <1>2, RefTokensIs
    <2>2. (RunCount \in Nat =>
            RefTokens = [k \in 1 .. 2 * RunCount + (IF NamedAt(RunCount + 1) THEN 1 ELSE 0) |->
                   IF k % 2 = 0 THEN OpAt(k \div 2) ELSE CmdAt((k + 1) \div 2)])'
      BY RefTokensIs, PTL
    <2> QED
      BY <1>1, <1>2, <2>1, <2>2
  <1> QED
    BY <1>3, <1>4, <1>5, <1>6, <1>7

LEMMA ParsingNext ==
  ASSUME line' = line, line \in Seq(Alphabet),
         phase' = "lex" => \/ \E m \in 0 .. RunCount : Aligned(tokens', first', m)
                           \/ Astray(tokens', first'),
         phase' = "clean" => CutUp(tokens') \/ (~GoodLine /\ Stray(tokens')),
         phase' = "check" => \/ tokens' = RefTokens /\ (GoodLine <=> EndsWell)
                             \/ ~GoodLine /\ Adjoining(tokens'),
         phase' = "ok" => GoodLine /\ tokens' = RefTokens,
         phase' = "bad" => ~GoodLine
  PROVE  Parsing'
  <1>1. /\ Signed' = Signed /\ RunCount' = RunCount
        /\ \A k : /\ CmdAt(k)' = CmdAt(k)
                  /\ RunGood(k)' <=> RunGood(k)
                  /\ WordsGood(k)' <=> WordsGood(k)
                  /\ NamedAt(k)' <=> NamedAt(k)
        /\ \A i : Inside(i)' <=> Inside(i)
    BY Rigid
  <1>2. /\ GoodLine' <=> GoodLine
        /\ RefTokens' = RefTokens
        /\ EndsWell' <=> EndsWell
        /\ \A k : After(k)' = After(k) /\ TokenAt(k)' = TokenAt(k)
    BY SameLine
  <1>3. Stray(tokens)' <=> Stray(tokens')
    BY DEF Stray, Named, IsOperator
  <1>4. Adjoining(tokens)' <=> Adjoining(tokens')
    BY DEF Adjoining, IsOperator
  <1>5. \A m : Aligned(tokens, first, m)' <=> Aligned(tokens', first', m)
    BY <1>1, <1>2 DEF Aligned, Alternate
  <1>6. Astray(tokens, first)' <=> Astray(tokens', first')
    BY <1>1, <1>2, <1>3 DEF Astray, IsOperator
  <1>7. CutUp(tokens)' <=> CutUp(tokens')
    BY <1>1, <1>2 DEF CutUp, Alternate
  <1> QED
    BY <1>1, <1>2, <1>3, <1>4, <1>5, <1>6, <1>7 DEF Parsing

\* What a part, or the operator behind it, rules out.
LEMMA NoGoodLine ==
  ASSUME line \in Seq(Alphabet), Len(line) <= MaxLength
  PROVE  /\ \A k \in 1 .. RunCount : ~RunGood(k) => ~GoodLine
         /\ \A k \in 1 .. RunCount + 1 : ~WordsGood(k) => ~GoodLine
         /\ Inside(Len(line) + 1) => ~GoodLine
  BY RunsAre, GoodLineIs

\* The command of no words at all.
LEMMA NoWords ==
  ASSUME NEW from \in Nat, 1 <= from, from <= MaxLength + 1
  PROVE  /\ ~CommandOf(Words(from, from - 1)).bad
         /\ ~IsOperator(Command(CommandOf(Words(from, from - 1))))
         /\ ~Named(Command(CommandOf(Words(from, from - 1))))
  <1> DEFINE to == from - 1
             w == Words(from, to)
  <1>1. MaxLength \in Nat /\ to \in Nat /\ from <= to + 1 /\ to <= MaxLength
        /\ to - from + 1 = 0
    BY ShellAssumption
  <1>2. w = <<>>
    <2>1. PICK T \in [0 .. to - from + 1 -> SplitState] :
            /\ T[0] = [words |-> <<>>, word |-> {}, quoted |-> FALSE]
            /\ w = EndWord(T[to - from + 1]).words
      <3> HIDE DEF to
      <3> QED
        BY <1>1, WordsRun
    <2>2. w = EndWord([words |-> <<>>, word |-> {}, quoted |-> FALSE]).words
      BY <1>1, <2>1
    <2> QED
      BY <2>2 DEF EndWord
  <1>3. <<>> \in Seq(Word \ {{}}) /\ Len(<<>>) = 0
    OBVIOUS
  <1>4. CommandOf(<<>>) = NoCommand
    BY <1>3, CommandRun
  <1>5. /\ ~NoCommand.bad /\ NoCommand.name = {}
    BY DEF NoCommand
  <1>6. Command(NoCommand).kind = "command" /\ Command(NoCommand).name = NoCommand.name
    BY DEF Command
  <1> QED
    BY <1>2, <1>4, <1>5, <1>6 DEF IsOperator, Named

\* A stray operator stays when the row goes on.
LEMMA StrayGrows ==
  ASSUME NEW T, NEW t \in Seq(T), NEW more \in Seq(T), Stray(t)
  PROVE  Stray(t \o more)
  <1> DEFINE u == t \o more
             n == Len(t)
  <1>1. /\ n \in Nat /\ DOMAIN t = 1 .. n
        /\ \A i \in 1 .. n : i \in DOMAIN u /\ u[i] = t[i]
    OBVIOUS
  <1> HIDE DEF u, n
  <1>2. PICK j \in DOMAIN t : /\ j + 1 \in DOMAIN t /\ ~Named(t[j]) /\ IsOperator(t[j + 1])
                              /\ j = 1 \/ IsOperator(t[j - 1])
    BY DEF Stray
  <1>3. j # 1 => j - 1 \in 1 .. n
    BY <1>1
  <1>4. /\ j \in DOMAIN u /\ j + 1 \in DOMAIN u /\ ~Named(u[j]) /\ IsOperator(u[j + 1])
        /\ j = 1 \/ IsOperator(u[j - 1])
    BY <1>1, <1>2, <1>3
  <1>5. Stray(u)
    BY <1>4 DEF Stray
  <1> QED
    BY <1>5 DEF u

LEMMA ParsingInit ==
  ASSUME LexInit
  PROVE  Parsing
  <1>1. phase = "lex" /\ first = 1 /\ tokens = <<>>
    BY DEF LexInit
  <1>2. line \in Seq(Alphabet)
    BY LexInitSound DEF LexerSound, TypeOK
  <1>3. 0 \in 0 .. RunCount
    BY <1>2, RunsAre
  <1>4. Aligned(tokens, first, 0)
    BY <1>1 DEF Aligned, Alternate, After
  <1> QED
    BY <1>1, <1>3, <1>4 DEF Parsing

\* The first sign behind what is cut up is the next run's.
LEMMA AtSign ==
  ASSUME LexerSound, Turn, ~quoted, Has(at, Signs)
  PROVE  /\ at \in Signed /\ \A i \in Signed : first <= i => at <= i
         /\ \A m \in 0 .. RunCount : Aligned(tokens, first, m) =>
              /\ m < RunCount /\ m + 1 \in 1 .. RunCount
              /\ at = RunFrom(m + 1) /\ at - 1 = Until(m + 1)
  <1>1. /\ line \in Seq(Alphabet) /\ Len(line) \in Nat /\ Len(line) <= MaxLength
        /\ at \in 1 .. Len(line) /\ first \in 1 .. at
        /\ (quoted <=> Inside(at))
        /\ \A i \in first .. at - 1 : i \notin Outside(Signs)
    BY Standing
  <1>2. at \in Signed
    BY <1>1 DEF Signed, Outside, Has
  <1>3. Signed \subseteq 1 .. Len(line)
    BY <1>1 DEF Signed, Outside
  <1>4. ASSUME NEW i \in Signed, first <= i
        PROVE  at <= i
    <2>1. i \in Nat /\ at \in Nat /\ first \in Nat
      BY <1>1, <1>3
    <2>2. i \notin first .. at - 1
      BY <1>1 DEF Signed
    <2> QED
      BY <1>4, <2>1, <2>2
  <1>5. ASSUME NEW m \in 0 .. RunCount, Aligned(tokens, first, m)
        PROVE  /\ m < RunCount /\ m + 1 \in 1 .. RunCount
               /\ at = RunFrom(m + 1) /\ at - 1 = Until(m + 1)
    <2>1. first = After(m) /\ first <= at
      BY <1>1, <1>5 DEF Aligned
    <2>2. m < RunCount /\ at = RunFrom(m + 1)
      BY <1>1, <1>2, <1>4, <2>1, NextRun
    <2>3. m + 1 \in 1 .. RunCount /\ Until(m + 1) + 1 = RunFrom(m + 1) /\ Until(m + 1) \in Nat
      BY <1>1, <2>2, Bounds
    <2> QED
      BY <1>1, <2>2, <2>3
  <1> QED
    BY <1>2, <1>4, <1>5

\* What the lexer appends at an operator that exists.
LEMMA SignParses ==
  ASSUME LexerSound, Parsing, Turn, ~quoted, Has(at, Signs),
         Single(at) \/ DoubledSign(at),
         NEW c, c = CommandOf(Words(first, at - 1)), ~c.bad, Command(c) \in Token,
         NEW o, o = Operator(TypeOf(at)), o \in Token,
         NEW t, t = tokens \o <<Command(c), o>>,
         NEW f, f = at + Width(at)
  PROVE  (\E m \in 0 .. RunCount : Aligned(t, f, m)) \/ Astray(t, f)
  <1>1. /\ line \in Seq(Alphabet) /\ Len(line) \in Nat /\ Len(line) <= MaxLength
        /\ at \in 1 .. Len(line) /\ first \in 1 .. at /\ tokens \in Seq(Token)
        /\ RunCount \in Nat
    BY Standing, RunsAre
  <1> DEFINE l == Len(tokens)
  <1>2. /\ l \in Nat /\ Len(t) = l + 2 /\ t[l + 1] = Command(c) /\ t[l + 2] = o
        /\ \A p \in 1 .. l : t[p] = tokens[p]
        /\ DOMAIN t = 1 .. l + 2 /\ t # <<>>
    <2> DEFINE u == <<Command(c), o>>
    <2>1. t = tokens \o u /\ u \in Seq(Token) /\ Len(u) = 2 /\ u[1] = Command(c) /\ u[2] = o
      OBVIOUS
    <2> HIDE DEF u
    <2> QED
      BY <1>1, <2>1
  <1>3. IsOperator(o)
    BY DEF IsOperator, Operator
  <1> HIDE DEF l
  <1>4. ASSUME NEW m \in 0 .. RunCount, Aligned(tokens, first, m)
        PROVE  (\E x \in 0 .. RunCount : Aligned(t, f, x)) \/ Astray(t, f)
    <2> DEFINE k == m + 1
    <2>1. k \in 1 .. RunCount /\ at = RunFrom(k) /\ at - 1 = Until(k) /\ first = After(m)
      BY <1>4, AtSign DEF Aligned
    <2>2. k \in Nat /\ k > 0 /\ m \in Nat /\ l = 2 * m /\ l + 1 = 2 * k - 1 /\ l + 2 = 2 * k
      BY <1>1, <1>4 DEF Aligned, l
    <2>3. WordsGood(k) /\ Command(c) = CmdAt(k)
      <3>1. c = CommandOf(Words(After(m), Until(m + 1)))
        BY <2>1
      <3> QED
        BY <1>1, <3>1, CommandAt
    <2>4. CASE RunGood(k)
      <3>1. o = OpAt(k) /\ f = After(k)
        BY <1>1, <2>1, <2>4, OperatorAt
      <3>2. /\ t[2 * k - 1] = TokenAt(2 * k - 1) /\ t[2 * k] = TokenAt(2 * k)
        BY <1>2, <2>2, <2>3, <3>1, TokensAt
      <3>3. Alternate(t, k)
        <4>1. \A p \in 1 .. 2 * m : t[p] = TokenAt(p)
          BY <1>2, <1>4, <2>2 DEF Aligned, Alternate
        <4>2. \A p \in 1 .. 2 * k : p \in 1 .. 2 * m \/ p = 2 * k - 1 \/ p = 2 * k
          BY <2>2
        <4> HIDE DEF k
        <4> QED
          BY <3>2, <4>1, <4>2 DEF Alternate
      <3>4. \A x \in 1 .. k : RunGood(x) /\ WordsGood(x)
        <4>1. \A x \in 1 .. k : x = k \/ x \in 1 .. m
          BY <2>2
        <4> HIDE DEF k
        <4> QED
          BY <1>4, <2>3, <2>4, <4>1 DEF Aligned
      <3>5. Len(t) = 2 * k
        BY <1>2, <2>2
      <3>6. k \in 0 .. RunCount
        BY <1>1, <2>1
      <3> HIDE DEF k
      <3>7. Aligned(t, f, k)
        BY <3>1, <3>3, <3>4, <3>5 DEF Aligned
      <3> QED
        BY <3>6, <3>7
    <2>5. CASE ~RunGood(k)
      <3> HIDE DEF k
      <3>1. f \in Signed
        BY <1>1, <2>1, <2>5, OperatorAt
      <3>2. ~GoodLine
        BY <1>1, <2>1, <2>5, NoGoodLine
      <3>3. t # <<>> /\ IsOperator(t[Len(t)])
        BY <1>2, <1>3
      <3> QED
        BY <3>1, <3>2, <3>3 DEF Astray
    <2> QED
      BY <2>4, <2>5
  <1>5. ASSUME Astray(tokens, first)
        PROVE  Astray(t, f)
    <2>1. CASE Stray(tokens)
      <3>1. <<Command(c), o>> \in Seq(Token)
        OBVIOUS
      <3>2. Stray(t)
        BY <1>1, <2>1, <3>1, StrayGrows
      <3> QED
        BY <1>5, <3>2 DEF Astray
    <2>2. CASE first \in Signed /\ tokens # <<>> /\ IsOperator(tokens[Len(tokens)])
      <3>1. at = first
        <4>1. at <= first
          BY <1>1, <2>2, AtSign
        <4> QED
          BY <1>1, <4>1
      <3>2. ~Named(Command(c))
        <4>1. first \in Nat /\ 1 <= first /\ first <= MaxLength + 1 /\ MaxLength \in Nat
          BY <1>1, <3>1, ShellAssumption
        <4> QED
          BY <3>1, <4>1, NoWords
      <3> DEFINE j == l + 1
      <3>3. l > 0 /\ l \in 1 .. l
        BY <1>1, <1>2, <2>2 DEF l
      <3>4. j \in DOMAIN t /\ j + 1 \in DOMAIN t /\ j + 1 = l + 2 /\ j - 1 = l
        BY <1>2, <3>3
      <3>5. ~Named(t[j]) /\ IsOperator(t[j + 1]) /\ IsOperator(t[j - 1])
        BY <1>2, <1>3, <2>2, <3>2, <3>3, <3>4 DEF l
      <3> HIDE DEF j
      <3>6. Stray(t)
        BY <3>4, <3>5 DEF Stray
      <3> QED
        BY <1>5, <3>6 DEF Astray
    <2> QED
      BY <1>5, <2>1, <2>2 DEF Astray
  <1>6. phase = "lex"
    BY DEF Turn
  <1> QED
    BY <1>4, <1>5, <1>6 DEF Parsing

\* The lexer gives up at a sign only when the line is no shell line.
LEMMA BadSignParses ==
  ASSUME LexerSound, Parsing, Turn, ~quoted, Has(at, Signs),
         Single(at) \/ DoubledSign(at) => CommandOf(Words(first, at - 1)).bad
  PROVE  ~GoodLine
  <1>1. line \in Seq(Alphabet) /\ Len(line) <= MaxLength /\ phase = "lex" /\ RunCount \in Nat
    BY Standing, RunsAre DEF Turn
  <1>2. ASSUME NEW m \in 0 .. RunCount, Aligned(tokens, first, m)
        PROVE  ~GoodLine
    <2> DEFINE k == m + 1
    <2>1. k \in 1 .. RunCount /\ at = RunFrom(k) /\ at - 1 = Until(k) /\ first = After(m)
      BY <1>2, AtSign DEF Aligned
    <2>2. CASE Single(at) \/ DoubledSign(at)
      <3>1. CommandOf(Words(After(m), Until(m + 1))).bad
        BY <2>1, <2>2
      <3>2. ~WordsGood(k)
        BY <1>1, <3>1, CommandAt
      <3>3. k \in 1 .. RunCount + 1
        BY <1>1, <2>1
      <3> QED
        BY <1>1, <3>2, <3>3, NoGoodLine
    <2>3. CASE ~(Single(at) \/ DoubledSign(at))
      <3> HIDE DEF k
      <3>1. ~RunGood(k)
        BY <1>1, <2>1, <2>3, OperatorAt
      <3> QED
        BY <1>1, <2>1, <3>1, NoGoodLine
    <2> QED
      BY <2>2, <2>3
  <1> QED
    BY <1>1, <1>2 DEF Parsing, Astray

\* The end of the line: it is cut up, or it is no shell line.
LEMMA RestParses ==
  ASSUME LexerSound, Parsing, RestOfLine
  PROVE  /\ phase' = "bad" => ~GoodLine
         /\ phase' = "clean" => CutUp(tokens') \/ (~GoodLine /\ Stray(tokens'))
  <1> DEFINE l == Len(line)
             n == RunCount
             c == CommandOf(Words(first, l))
  <1>1. /\ line \in Seq(Alphabet) /\ l \in Nat /\ l <= MaxLength /\ DOMAIN line = 1 .. l
        /\ first \in 1 .. l + 1 /\ tokens \in Seq(Token) /\ n \in Nat
        /\ phase = "lex" /\ at = None
    BY RunsAre DEF LexerSound, TypeOK, RestOfLine
  <1>2. quoted <=> Inside(l + 1)
    BY <1>1 DEF LexerSound, ScanSound
  <1>3. \A i \in Signed : ~(first <= i)
    BY <1>1 DEF LexerSound, ScanSound, Signed, Outside
  <1>4. /\ phase' = "bad" => quoted \/ (HasRest /\ c.bad)
        /\ phase' = "clean" => /\ ~quoted /\ (HasRest => ~c.bad)
                               /\ HasRest => tokens' = Append(tokens, Command(c))
                               /\ ~HasRest => tokens' = tokens
    BY DEF RestOfLine
  <1>5. HasRest <=> first <= l
    BY DEF HasRest
  <1>6. Command(c) \in Token
    <2>1. MaxLength \in Nat /\ first \in Nat /\ 1 <= first /\ first <= l + 1
      BY <1>1, ShellAssumption
    <2> QED
      BY <1>1, <2>1, CutTyped
  <1>7. ASSUME NEW m \in 0 .. n, Aligned(tokens, first, m)
        PROVE  /\ m = n /\ Alternate(tokens, n) /\ Len(tokens) = 2 * n
               /\ \A k \in 1 .. n : RunGood(k) /\ WordsGood(k)
               /\ c.bad <=> ~WordsGood(n + 1)
               /\ ~c.bad => Command(c) = CmdAt(n + 1)
    <2>1. first = After(m)
      BY <1>7 DEF Aligned
    <2>2. m = n
      BY <1>1, <1>3, <2>1, NextRun
    <2>3. Until(n + 1) = l /\ n \in 0 .. n
      BY <1>1 DEF Until
    <2>4. c = CommandOf(Words(After(n), Until(n + 1)))
      BY <2>1, <2>2, <2>3
    <2> HIDE DEF c
    <2>5. /\ c.bad <=> ~WordsGood(n + 1)
          /\ ~c.bad => Command(c) = CmdAt(n + 1)
      BY <1>1, <2>3, <2>4, CommandAt
    <2> QED
      BY <1>7, <2>2, <2>5 DEF Aligned
  <1>8. ASSUME phase' = "bad", NEW m \in 0 .. n, Aligned(tokens, first, m)
        PROVE  ~GoodLine
    <2>1. CASE quoted
      BY <1>1, <1>2, <2>1, NoGoodLine
    <2>2. CASE c.bad
      <3>1. ~WordsGood(n + 1) /\ n + 1 \in 1 .. n + 1
        BY <1>1, <1>7, <1>8, <2>2
      <3> QED
        BY <1>1, <3>1, NoGoodLine
    <2> QED
      BY <1>4, <1>8, <2>1, <2>2
  <1>9. ASSUME phase' = "clean", NEW m \in 0 .. n, Aligned(tokens, first, m)
        PROVE  CutUp(tokens')
    <2>1. /\ m = n /\ Alternate(tokens, n) /\ Len(tokens) = 2 * n
          /\ \A k \in 1 .. n : RunGood(k) /\ WordsGood(k)
          /\ c.bad <=> ~WordsGood(n + 1)
          /\ ~c.bad => Command(c) = CmdAt(n + 1)
      BY <1>7, <1>9
    <2>2. ~Inside(l + 1)
      BY <1>2, <1>4, <1>9
    <2>3. CASE HasRest
      <3>1. ~c.bad /\ tokens' = Append(tokens, Command(c))
        BY <1>4, <1>9, <2>3
      <3> HIDE DEF c
      <3>2. /\ Len(tokens') = 2 * n + 1 /\ tokens'[2 * n + 1] = CmdAt(n + 1)
            /\ \A p \in 1 .. 2 * n : tokens'[p] = tokens[p]
        BY <1>1, <1>6, <2>1, <3>1
      <3>3. Alternate(tokens', n)
        BY <2>1, <3>2 DEF Alternate
      <3>4. \A k \in 1 .. n + 1 : WordsGood(k)
        <4>1. \A k \in 1 .. n + 1 : k = n + 1 \/ k \in 1 .. n
          BY <1>1
        <4> QED
          BY <2>1, <3>1, <4>1
      <3> QED
        BY <2>1, <2>2, <3>2, <3>3, <3>4 DEF CutUp
    <2>4. CASE ~HasRest
      <3>1. tokens' = tokens
        BY <1>4, <1>9, <2>4
      <3>2. first \in Nat /\ 1 <= first /\ first <= MaxLength + 1 /\ MaxLength \in Nat
            /\ first - 1 = l
        BY <1>1, <1>5, <2>4, ShellAssumption
      <3>3. ~c.bad /\ ~Named(Command(c))
        BY <3>2, NoWords
      <3> HIDE DEF c
      <3>4. n + 1 \in 1 .. n + 1 /\ \A k \in 1 .. n + 1 : k = n + 1 \/ k \in 1 .. n
        BY <1>1
      <3>5. ~NamedAt(n + 1)
        BY <1>1, <2>1, <3>3, <3>4, NamedIs
      <3>6. \A k \in 1 .. n + 1 : WordsGood(k)
        BY <2>1, <3>3, <3>4
      <3> QED
        BY <2>1, <2>2, <3>1, <3>5, <3>6 DEF CutUp
    <2> QED
      BY <2>3, <2>4
  <1>10. ASSUME Astray(tokens, first)
         PROVE  ~GoodLine /\ (phase' = "clean" => Stray(tokens'))
    <2>1. ~GoodLine
      BY <1>10 DEF Astray
    <2>2. Stray(tokens)
      <3>1. first \notin Signed
        BY <1>1, <1>3
      <3> QED
        BY <1>10, <3>1 DEF Astray
    <2>3. ASSUME phase' = "clean"
          PROVE  Stray(tokens')
      <3>1. CASE HasRest
        <4>1. tokens' = Append(tokens, Command(c))
          BY <1>4, <2>3, <3>1
        <4> HIDE DEF c
        <4>2. tokens' = tokens \o <<Command(c)>> /\ <<Command(c)>> \in Seq(Token)
          BY <1>1, <1>6, <4>1
        <4> QED
          BY <1>1, <2>2, <4>2, StrayGrows
      <3>2. CASE ~HasRest
        BY <1>4, <2>2, <2>3, <3>2
      <3> QED
        BY <3>1, <3>2
    <2> QED
      BY <2>1, <2>3
  <1> QED
    BY <1>1, <1>8, <1>9, <1>10 DEF Parsing

LEMMA NextParses ==
  ASSUME LexerSound, Parsing, [LexNext]_lexVars
  PROVE  Parsing'
  <1>1. /\ line \in Seq(Alphabet) /\ Len(line) \in Nat /\ Len(line) <= MaxLength
        /\ first \in 1 .. Len(line) + 1 /\ tokens \in Seq(Token)
        /\ MaxLength \in Nat
    BY ShellAssumption DEF LexerSound, TypeOK
  <1>2. ASSUME line' = line, phase' = phase, first' = first, tokens' = tokens
        PROVE  Parsing'
    BY <1>1, <1>2, ParsingNext DEF Parsing
  <1>3. ASSUME Sign
        PROVE  Parsing'
    <2> DEFINE c == CommandOf(Words(first, at - 1))
               o == Operator(TypeOf(at))
    <2>1. /\ Turn /\ ~quoted /\ Has(at, Signs) /\ (Single(at) \/ DoubledSign(at))
          /\ ~c.bad /\ tokens' = tokens \o <<Command(c), o>>
          /\ first' = at + Width(at) /\ line' = line /\ phase' = "lex"
      BY <1>3 DEF Sign, Turn
    <2>2. at \in 1 .. Len(line) /\ first \in 1 .. at
      BY <2>1, Standing
    <2>3. Command(c) \in Token
      <3>1. first \in Nat /\ at - 1 \in Nat /\ 1 <= first /\ first <= (at - 1) + 1
            /\ at - 1 <= MaxLength
        BY <1>1, <2>2
      <3> QED
        BY <1>1, <3>1, CutTyped
    <2>4. o \in Token
      <3>1. line[at] \in {"&", "|", ";"}
        BY <2>1 DEF Has, Signs
      <3>2. TypeOf(at) \in {"AND", "OR", "CONVEYOR", "BACKGROUND", "SEPARATOR"}
        BY <3>1 DEF TypeOf
      <3> QED
        BY <3>2 DEF Operator, Token
    <2>5. (\E m \in 0 .. RunCount : Aligned(tokens', first', m)) \/ Astray(tokens', first')
      BY <2>1, <2>3, <2>4, SignParses
    <2> QED
      BY <1>1, <2>1, <2>5, ParsingNext
  <1>4. ASSUME BadSign
        PROVE  Parsing'
    <2>1. /\ Turn /\ ~quoted /\ Has(at, Signs)
          /\ Single(at) \/ DoubledSign(at) => CommandOf(Words(first, at - 1)).bad
          /\ phase' = "bad" /\ line' = line
      BY <1>4 DEF BadSign
    <2>2. ~GoodLine
      BY <2>1, BadSignParses
    <2> QED
      BY <1>1, <2>1, <2>2, ParsingNext
  <1>5. ASSUME RestOfLine
        PROVE  Parsing'
    <2>1. line' = line /\ phase' \in {"bad", "clean"}
      BY <1>5 DEF RestOfLine
    <2>2. /\ phase' = "bad" => ~GoodLine
          /\ phase' = "clean" => CutUp(tokens') \/ (~GoodLine /\ Stray(tokens'))
      BY <1>5, RestParses
    <2> QED
      BY <1>1, <2>1, <2>2, ParsingNext
  <1>6. ASSUME Clean
        PROVE  Parsing'
    <2>1. /\ phase = "clean" /\ phase' = "check" /\ line' = line
          /\ tokens' = FoldLeft(KeepTurn, <<>>, tokens)
      BY <1>6 DEF Clean
    <2>2. CutUp(tokens) \/ (~GoodLine /\ Stray(tokens))
      BY <2>1 DEF Parsing
    <2>3. Stray(tokens) => Adjoining(tokens')
      BY <1>1, <2>1, StrayKept
    <2>4. \/ tokens' = RefTokens /\ (GoodLine <=> EndsWell)
          \/ ~GoodLine /\ Adjoining(tokens')
      BY <1>1, <2>1, <2>2, <2>3, CutUpKept
    <2> QED
      BY <1>1, <2>1, <2>4, ParsingNext
  <1>7. ASSUME Check
        PROVE  Parsing'
    <2>1. /\ phase = "check" /\ line' = line /\ tokens' = tokens
          /\ phase' = IF \A i \in DOMAIN tokens : TokenValid(i) THEN "ok" ELSE "bad"
      BY <1>7 DEF Check
    <2>2. CASE tokens = RefTokens /\ (GoodLine <=> EndsWell)
      <3>1. (\A i \in DOMAIN tokens : TokenValid(i)) <=> GoodLine
        BY <1>1, <2>2, RefValid
      <3> QED
        BY <1>1, <2>1, <2>2, <3>1, ParsingNext
    <2>3. CASE ~GoodLine /\ Adjoining(tokens)
      <3>1. phase' = "bad"
        BY <1>1, <2>1, <2>3, AdjoiningInvalid
      <3> QED
        BY <1>1, <2>1, <2>3, <3>1, ParsingNext
    <2> QED
      BY <2>1, <2>2, <2>3 DEF Parsing
  <1>8. CASE Quote
    BY <1>2, <1>8 DEF Quote
  <1>9. CASE QuotedSign
    BY <1>2, <1>9 DEF QuotedSign
  <1>10. CASE UNCHANGED lexVars
    BY <1>2, <1>10 DEF lexVars
  <1> QED
    BY <1>3, <1>4, <1>5, <1>6, <1>7, <1>8, <1>9, <1>10 DEF LexNext, Terminated

\* The shell's parser accepts the shell lines and no others, and makes of each its
\* commands and operators, for lines of every length (parse_shell_line).
THEOREM LineParsed == LexSpec => []ParsesExactly
  <1>1. LexInit => LexerSound /\ Parsing
    BY LexInitSound, ParsingInit
  <1>2. LexerSound /\ Parsing /\ [LexNext]_lexVars => LexerSound' /\ Parsing'
    BY LexNextSound, NextParses
  <1>3. Parsing => ParsesExactly
    BY DEF Parsing, ParsesExactly
  <1> QED
    BY <1>1, <1>2, <1>3, PTL DEF LexSpec
==============================================================================
