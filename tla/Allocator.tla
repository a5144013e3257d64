------------------------------ MODULE Allocator ------------------------------
(***************************************************************************)
(* The memory allocator of src/p1: an arena cut into areas that a list in    *)
(* address order describes.  A Pointer refers to its node of the list, so    *)
(* areas may move behind the caller's back; here a node that is not free     *)
(* carries the pointer that refers to it.                                    *)
(*                                                                          *)
(* The allocator has one thread: a call is one step, but defrag takes one    *)
(* step per turn of its loop.  The caller writes every byte it is given at   *)
(* once, each with a value of its own, and no byte it has given back counts. *)
(***************************************************************************)
EXTENDS Naturals, Sequences, SequencesExt

CONSTANTS
  Pointers,  \* the Pointer objects of the caller
  Free,      \* no pointer: the area is free
  Size       \* the bytes of the arena

ASSUME AllocatorAssumption ==
  /\ Free \notin Pointers
  /\ Size \in Nat \ {0}

\* A program has a Pointer object for each declaration or allocation of one.
ASSUME FiniteAssumption == IsFiniteSet(Pointers)

VARIABLES
  table,     \* memory_table
  valid,     \* the pointers whose impl->allocator is this allocator
  mem,       \* the bytes of the arena
  pc,        \* "ready", or "defrag" within its loop
  at         \* the index of freeArea in that loop

vars == <<table, valid, mem, pc, at>>

Junk == <<>>
Bytes == 0 .. Size - 1

-----------------------------------------------------------------------------
(* The list of areas.                                                       *)

Area(start, size, owner) == [start |-> start, size |-> size, owner |-> owner]
IsFree(t, i) == t[i].owner = Free

\* The index of the area that p refers to.
Of(t, p) == CHOOSE i \in DOMAIN t : t[i].owner = p

\* The list with the areas from i to j replaced by those of s.
Splice(t, i, j, s) == SubSeq(t, 1, i - 1) \o s \o SubSeq(t, j + 1, Len(t))

\* The consecutive free areas that free area i is one of.
Run(t, i) ==
  {j \in DOMAIN t : \A k \in DOMAIN t : (i <= k /\ k <= j) \/ (j <= k /\ k <= i) => IsFree(t, k)}

RangeMemoryAmount(t, I) == MapThenSumSet(LAMBDA i : t[i].size, I)

\* Seeded bug: only the areas before the given one are united with it.
UniteFreeSpace_Before(t, i) ==
  IF IsFree(t, i)
    THEN LET I == {j \in Run(t, i) : j <= i} IN
         Splice(t, Min(I), i, <<Area(t[Min(I)].start, RangeMemoryAmount(t, I), Free)>>)
    ELSE t

\* The first of the free areas around i takes the room of all.
UniteFreeSpace(t, i) ==
  IF IsFree(t, i)
    THEN LET I == Run(t, i) IN
         Splice(t, Min(I), Max(I), <<Area(t[Min(I)].start, RangeMemoryAmount(t, I), Free)>>)
    ELSE t

\* Seeded bug: an area is moved only to a free area that it fits in.
CanMove_IfFits(t, i) ==
  /\ i \in 2 .. Len(t)
  /\ ~IsFree(t, i) /\ IsFree(t, i - 1)
  /\ t[i - 1].size >= t[i].size

\* moveToPreviousFree
CanMove(t, i) ==
  /\ i \in 2 .. Len(t)
  /\ ~IsFree(t, i) /\ IsFree(t, i - 1)

Swapped(t, i) ==
  LET start == t[i - 1].start IN
  Splice(t, i - 1, i, <<Area(start, t[i].size, t[i].owner),
                        Area(start + t[i].size, t[i - 1].size, Free)>>)

\* memcpy: what it leaves where source and destination overlap is undefined.
Memcpy(m, dst, src, n) ==
  [x \in Bytes |->
     IF x \notin dst .. dst + n - 1 THEN m[x]
     ELSE IF src < dst + n /\ dst < src + n THEN Junk
     ELSE m[src + x - dst]]

\* Seeded bug: everything is copied at once.
CopiedDown_AtOnce(m, dst, src, n) == Memcpy(m, dst, src, n)

\* Area by area of the free space in front the bytes are copied to it.
CopiedDown(m, dst, src, n) ==
  LET piece == src - dst
      Copied(b, o) == Memcpy(b, dst + o, src + o, Min({piece, n - o}))
  IN FoldLeft(Copied, m, [k \in 1 .. (n + piece - 1) \div piece |-> (k - 1) * piece])

\* The bytes after area i has been swapped with the free area before it.
MovedBytes(m, t, i) == CopiedDown(m, t[i - 1].start, t[i].start, t[i].size)

\* extendToNextFree, to n bytes
CanExtend(t, i, n) ==
  /\ i < Len(t)
  /\ ~IsFree(t, i) /\ IsFree(t, i + 1)
  /\ t[i + 1].size >= n - t[i].size

\* Seeded bug: the free area that is left keeps its size.
Extended_KeepsSize(t, i, n) ==
  LET more == n - t[i].size IN
  Splice(t, i, i + 1, <<Area(t[i].start, n, t[i].owner),
                        Area(t[i + 1].start + more, t[i + 1].size, Free)>>)

Extended(t, i, n) ==
  LET more == n - t[i].size
      left == IF t[i + 1].size = more THEN <<>>
              ELSE <<Area(t[i + 1].start + more, t[i + 1].size - more, Free)>>
  IN Splice(t, i, i + 1, <<Area(t[i].start, n, t[i].owner)>> \o left)

\* The free areas with room for n bytes, and the one that alloc takes: the
\* smallest, the first of equal ones.
Fitting(t, n) == {i \in DOMAIN t : IsFree(t, i) /\ t[i].size >= n}
Best(t, n) ==
  CHOOSE i \in Fitting(t, n) : \A j \in Fitting(t, n) :
    t[i].size < t[j].size \/ (t[i].size = t[j].size /\ i <= j)

\* The list after alloc(n) has given p an area.
Allocated(t, p, n) ==
  LET b == Best(t, n)
      left == IF t[b].size = n THEN <<>>
              ELSE <<Area(t[b].start + n, t[b].size - n, Free)>>
  IN Splice(t, b, b, <<Area(t[b].start, n, p)>> \o left)

\* The list after the area i has been freed.
Freed(t, i) == UniteFreeSpace([t EXCEPT ![i].owner = Free], i)

\* The caller writes the bytes of p from byte "from" on, and what is free is
\* without meaning.
Written(m, t, p, from) ==
  [x \in Bytes |->
     LET I == {i \in DOMAIN t : t[i].start <= x /\ x < t[i].start + t[i].size} IN
     IF \A i \in I : IsFree(t, i) THEN Junk
     ELSE IF \E i \in I : t[i].owner = p /\ x - t[i].start >= from
          THEN <<p, x - t[Of(t, p)].start>>
     ELSE m[x]]

-----------------------------------------------------------------------------
\* Allocator(base, size)
Init ==
  /\ table = <<Area(0, Size, Free)>>
  /\ valid = {}
  /\ mem = [x \in Bytes |-> Junk]
  /\ pc = "ready"
  /\ at = 0

\* alloc, or realloc of a null pointer.  It throws NoMemory and changes nothing
\* if no free area is large enough.
Alloc(p, n) ==
  /\ pc = "ready"
  /\ p \notin valid
  /\ Fitting(table, n) # {}
  /\ table' = Allocated(table, p, n)
  /\ valid' = valid \cup {p}
  /\ mem' = Written(mem, table', p, 0)
  /\ UNCHANGED <<pc, at>>

\* free, or realloc to no bytes at all.
FreeIt(p) ==
  /\ pc = "ready"
  /\ p \in valid
  /\ table' = Freed(table, Of(table, p))
  /\ valid' = valid \ {p}
  /\ mem' = Written(mem, table', p, 0)
  /\ UNCHANGED <<pc, at>>

\* realloc of a valid pointer: the area of p, and its number of bytes.
Reallocs(p, n) == pc = "ready" /\ p \in valid /\ n > 0
Held(p) == table[Of(table, p)].size

\* Fewer bytes: the rest becomes a free area of its own.
Shrink(p, n) ==
  /\ Reallocs(p, n)
  /\ n < Held(p)
  /\ LET i == Of(table, p)
         s == table[i].start
     IN table' = Splice(table, i, i, <<Area(s, n, p), Area(s + n, Held(p) - n, Free)>>)
  /\ mem' = Written(mem, table', p, n)
  /\ UNCHANGED <<valid, pc, at>>

\* More bytes, and the free area behind has them.
GrowInPlace(p, n) ==
  /\ Reallocs(p, n)
  /\ n > Held(p)
  /\ CanExtend(table, Of(table, p), n)
  /\ table' = Extended(table, Of(table, p), n)
  /\ mem' = Written(mem, table', p, Held(p))
  /\ UNCHANGED <<valid, pc, at>>

\* The free area in front has them: p moves there.
CanGrowBack(p, n) ==
  LET i == Of(table, p) IN
  CanMove(table, i) /\ table[i - 1].size + Held(p) >= n

GrowBack(p, n) ==
  /\ Reallocs(p, n)
  /\ n > Held(p)
  /\ ~CanExtend(table, Of(table, p), n)
  /\ CanGrowBack(p, n)
  /\ LET i == Of(table, p)
         t == Swapped(table, i)
     IN /\ table' = IF CanExtend(t, i - 1, n) THEN Extended(t, i - 1, n) ELSE t
        /\ mem' = Written(MovedBytes(mem, table, i), table', p, Held(p))
  /\ UNCHANGED <<valid, pc, at>>

\* Seeded bug: the old area is kept.
Elsewhere_NotFreed(t, i) == t

\* The list after the area of p at index i has been given up for the newer one.
Elsewhere(t, i) == Freed(t, i)

\* Otherwise p is allocated anew, its bytes are copied, its old area is freed.
\* If there is no room, NoMemory is thrown and p is what it was.
GrowElsewhere(p, n) ==
  /\ Reallocs(p, n)
  /\ n > Held(p)
  /\ ~CanExtend(table, Of(table, p), n) /\ ~CanGrowBack(p, n)
  /\ Fitting(table, n) # {}
  /\ LET old == table[Of(table, p)]
         t == Allocated(table, p, n)
         new == t[CHOOSE i \in DOMAIN t : t[i].owner = p /\ t[i].start # old.start]
         i == CHOOSE j \in DOMAIN t : t[j].owner = p /\ t[j].start = old.start
     IN /\ table' = Elsewhere(t, i)
        /\ mem' = Written(Memcpy(mem, new.start, old.start, old.size), table', p, old.size)
  /\ UNCHANGED <<valid, pc, at>>

\* defrag, up to its loop
DefragBegin ==
  /\ pc = "ready"
  /\ table' = UniteFreeSpace(table, 1)
  /\ pc' = "defrag"
  /\ at' = 1
  /\ UNCHANGED <<valid, mem>>

\* Seeded bug: freeArea is not taken on to the next area.
Advanced_Not(i) == i

Advanced(i) == i + 1

\* One turn of the loop: the free area at "at" is united with those behind it
\* and swapped with the allocated area that follows.
DefragTurn ==
  /\ pc = "defrag"
  /\ at <= Len(table)
  /\ IF IsFree(table, at)
       THEN LET t == UniteFreeSpace(table, at)
                next == Min(Run(table, at)) + 1
            IN IF CanMove(t, next)
                 THEN /\ table' = Swapped(t, next)
                      /\ mem' = Written(MovedBytes(mem, t, next), table', Free, 0)
                 ELSE /\ table' = t
                      /\ UNCHANGED mem
       ELSE UNCHANGED <<table, mem>>
  /\ at' = Advanced(at)
  /\ UNCHANGED <<valid, pc>>

DefragEnd ==
  /\ pc = "defrag"
  /\ at > Len(table)
  /\ pc' = "ready"
  /\ at' = 0
  /\ UNCHANGED <<table, valid, mem>>

Defrag == DefragTurn \/ DefragEnd

Next ==
  \/ \E p \in Pointers, n \in 1 .. Size :
       \/ Alloc(p, n)
       \/ Shrink(p, n) \/ GrowInPlace(p, n) \/ GrowBack(p, n) \/ GrowElsewhere(p, n)
  \/ \E p \in Pointers : FreeIt(p)
  \/ DefragBegin \/ Defrag

Spec == Init /\ [][Next]_vars

-----------------------------------------------------------------------------
(* Properties.                                                              *)

\* Types, and that the areas lie side by side from the first byte of the arena
\* to the last and none is empty: no call loses or duplicates a byte, whatever
\* order of splitting, uniting, swapping and extending led here (memory_table).
Tiling ==
  /\ table \in Seq([start : 0 .. Size, size : 1 .. Size, owner : Pointers \cup {Free}])
  /\ table # <<>>
  /\ table[1].start = 0
  /\ \A i \in 1 .. Len(table) - 1 : table[i].start + table[i].size = table[i + 1].start
  /\ table[Len(table)].start + table[Len(table)].size = Size

\* Each valid pointer has exactly one area, and each allocated area is that of a
\* valid pointer: no call leaks an area or leaves a pointer dangling (the
\* iterators in PointerImpl, which realloc and defrag move around).
OneAreaEach ==
  /\ \A p \in valid : \E i \in DOMAIN table : table[i].owner = p
  /\ \A i \in DOMAIN table : ~IsFree(table, i) =>
       /\ table[i].owner \in valid
       /\ \A j \in DOMAIN table : table[j].owner = table[i].owner => i = j

\* The iterator of defrag's loop stays on a node of the list: the area it stands
\* on is never one that UniteFreeSpace erases, for that keeps the first of a run.
CursorSafe ==
  pc = "defrag" =>
    /\ at \in 1 .. Len(table) + 1
    /\ at \in 2 .. Len(table) /\ IsFree(table, at) => ~IsFree(table, at - 1)

\* The list and the pointers into it are sound between any two calls, and between
\* any two turns of defrag.
ListSound == Tiling /\ OneAreaEach /\ CursorSafe

\* The valid pointers, two by two, whose areas lie in that order.
Ahead == {o \in valid \X valid : Of(table, o[1]) < Of(table, o[2])}

\* The allocated areas first, then at most one free area.
Packed(t) == \A i \in DOMAIN t : IsFree(t, i) => i = Len(t)

\* defrag keeps the order of the allocated areas and, when it returns, has put
\* all the free space into one area at the end.
DefragPacks ==
  [][pc = "defrag" => /\ Ahead' = Ahead
                      /\ pc' = "ready" => Packed(table')]_vars

\* The bubble loop of defrag comes to an end although it changes the list under
\* its own iterator: each turn leaves fewer areas ahead of it.
DefragEnds ==
  [][pc = "defrag" /\ pc' = "defrag" => Len(table') - at' < Len(table) - at]_vars

\* The bytes that p refers to.
Row(p) ==
  IF p \in valid
    THEN LET a == table[Of(table, p)] IN [i \in 1 .. a.size |-> mem[a.start + i - 1]]
    ELSE <<>>

Rows == [p \in Pointers |-> Row(p)]

HeapOf == INSTANCE Heap WITH held <- Rows

\* Every call changes the bytes of its own pointer only and a reallocation keeps
\* what fits, although areas move, in pieces and over each other.
KeepsBytes == HeapOf!Spec
=============================================================================
