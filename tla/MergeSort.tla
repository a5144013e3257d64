------------------------------ MODULE MergeSort ------------------------------
(***************************************************************************)
(* The bottom-up merge sort of src/p9: rounds over two buffers, each merging *)
(* neighbouring parts of one buffer into the other and then doubling the     *)
(* size of the parts.  With --openmp the merges of a round run in parallel,  *)
(* one step per copied element; --standart is one of the orders of that.     *)
(***************************************************************************)
EXTENDS Integers

CONSTANTS
  N,         \* ELEMENTS_COUNT
  Inputs,    \* the contents of the first buffer: functions on 0 .. N - 1
  Garbage,   \* what an int of the second buffer may hold before it is written
  Addresses  \* where the buffers may be: pairs of addresses, in ints

Cells == 0 .. N - 1
Apart(a) == a[1] >= a[0] + N \/ a[0] >= a[1] + N

ASSUME SortAssumption ==
  /\ N \in Nat \ {0}
  /\ Inputs \subseteq [Cells -> Int]
  /\ Garbage \subseteq Int
  /\ Addresses \subseteq [{0, 1} -> Nat]
  /\ \A a \in Addresses : Apart(a)

VARIABLES
  base,   \* [buffer -> its address]
  buf,    \* temp_buffers
  cur,    \* current_buffer
  part,   \* part_size
  task    \* [first element of two parts -> how far their merge is]

vars == <<base, buf, cur, part, task>>

\* The numbers that main sorts, from the greatest to the least.
OwnInput == [x \in Cells |-> N - x]

Idle == [state |-> "wait", i1 |-> 0, i2 |-> 0, r |-> 0]

Init ==
  /\ base \in Addresses
  /\ \E in \in Inputs, g \in Garbage :
       buf = [b \in {0, 1} |-> IF b = 0 THEN in ELSE [x \in Cells |-> g]]
  /\ cur = 0
  /\ part = 1
  /\ task = [i \in Cells |-> Idle]

-----------------------------------------------------------------------------
(* The parts of a round.                                                    *)

\* Seeded bugs: the loop goes on by one part; a round writes where it reads;
\* the second part is not cut off at the end of the array.
Starts_EveryPart == {i \in Cells : \E k \in 0 .. i : i = k * part}
Target_Same == cur
Size2_NotCut(i) == part

\* The loop goes on by two parts.
Starts == {i \in Cells : \E k \in 0 .. i : i = k * (2 * part)}

\* The buffer that a round writes.
Target == 1 - cur

Cut(n) == IF n < part THEN n ELSE part
Rest(i) == IF N - i < part THEN 0 ELSE N - i - part

\* The two parts at i and their sizes; where there is no second part its size
\* is 0 and it begins behind the array.
Size1(i) == Cut(N - i)
Begin2(i) == i + part
Size2(i) == Cut(Rest(i))
End1(i) == i + Size1(i)
End2(i) == Begin2(i) + Size2(i)

\* Whether one of two rows of ints in memory begins within the other.
Within(a, m, b) == a <= b /\ a + m > b
Intersect(a, m, b, n) == Within(a, m, b) \/ Within(b, n, a)

\* The check at the beginning of merge.
Refused(i) ==
  LET p1 == base[cur] + i
      p2 == base[cur] + Begin2(i)
      res == base[Target] + i
      size == Size1(i) + Size2(i)
  IN \/ Intersect(p1, Size1(i), p2, Size2(i))
     \/ Intersect(p1, Size1(i), res, size)
     \/ Intersect(p2, Size2(i), res, size)

-----------------------------------------------------------------------------
(* merge                                                                    *)

Running == part < N

MergeBegin(i) ==
  /\ Running
  /\ i \in Starts /\ task[i].state = "wait"
  /\ task' = [task EXCEPT ![i] =
       IF Refused(i) THEN [Idle EXCEPT !.state = "thrown"]
       ELSE [state |-> "merge", i1 |-> i, i2 |-> Begin2(i), r |-> i]]
  /\ UNCHANGED <<base, buf, cur, part>>

\* Seeded bug: the greater element is taken first.
Leads_Greater(i) == buf[cur][task[i].i1] >= buf[cur][task[i].i2]

\* The next element of the first part is the lesser one.
Leads(i) == buf[cur][task[i].i1] <= buf[cur][task[i].i2]

\* Where the loop that appends the rest of the second part stops.
AppendEnd2(i) == End1(i)

\* The part that the next element is taken from: by comparison while both have
\* one, and then what is left of the first, and of the second.
Takes1(i) ==
  /\ task[i].i1 < End1(i)
  /\ task[i].i2 < End2(i) => Leads(i)
Takes2(i) ==
  IF task[i].i1 < End1(i)
    THEN task[i].i2 < End2(i) /\ ~Leads(i)
    ELSE task[i].i2 < AppendEnd2(i)

Copy(i) ==
  LET k == task[i]
      Put(x) == buf' = [b \in {0, 1} |-> IF b = Target THEN [buf[b] EXCEPT ![k.r] = buf[cur][x]]
                                         ELSE buf[b]]
      Turn(d1, d2) == task' = [task EXCEPT ![i] = [state |-> "merge", i1 |-> k.i1 + d1,
                                                   i2 |-> k.i2 + d2, r |-> k.r + 1]]
  IN
  /\ Running
  /\ i \in Starts /\ k.state = "merge"
  /\ Takes1(i) \/ Takes2(i)
  /\ IF Takes1(i) THEN Put(k.i1) /\ Turn(1, 0) ELSE Put(k.i2) /\ Turn(0, 1)
  /\ UNCHANGED <<base, cur, part>>

MergeEnd(i) ==
  /\ Running
  /\ i \in Starts /\ task[i].state = "merge"
  /\ ~Takes1(i) /\ ~Takes2(i)
  /\ task' = [task EXCEPT ![i] = [state |-> "done", i1 |-> @.i1, i2 |-> @.i2, r |-> @.r]]
  /\ UNCHANGED <<base, buf, cur, part>>

\* Seeded bug: the size of the parts stays.
Doubled_Not == part

Doubled == 2 * part

\* All merges of the round are done: the buffers change roles.
NextRound ==
  /\ Running
  /\ \A i \in Starts : task[i].state = "done"
  /\ cur' = Target
  /\ part' = Doubled
  /\ task' = [i \in Cells |-> Idle]
  /\ UNCHANGED <<base, buf>>

Next ==
  \/ \E i \in Cells : MergeBegin(i) \/ Copy(i) \/ MergeEnd(i)
  \/ NextRound

Spec == Init /\ [][Next]_vars

\* The threads of the program run.
FairSpec == Spec /\ WF_vars(Next)

-----------------------------------------------------------------------------
(* Properties.                                                              *)

\* merge never throws in main's loops: parts and output of each merge are apart,
\* although a missing second part begins outside of the array and the two
\* buffers may lie side by side (intersect, and the arithmetic of main).
NeverThrows == \A i \in Cells : task[i].state # "thrown"

\* A merge has written as many elements as it has read, and what it is to read
\* lies within its parts: no index leaves the array.
InParts(i) ==
  /\ task[i].i1 \in i .. End1(i)
  /\ task[i].i2 \in Begin2(i) .. End2(i)
  /\ task[i].r - i = (task[i].i1 - i) + (task[i].i2 - Begin2(i))
  /\ i + Size1(i) + Size2(i) <= N
  /\ End1(i) <= N
  /\ Size2(i) > 0 => End2(i) <= N
InBounds == \A i \in Starts : task[i].state \in {"merge", "done"} => InParts(i)

\* Merges that run at the same time neither write the same cell nor write the
\* buffer that others read: the parallel loop has no data race.
Output(i) == i .. i + Size1(i) + Size2(i) - 1
NoRace ==
  /\ Target # cur
  /\ \A i, j \in Starts : i # j => Output(i) \cap Output(j) = {}

Task == [state : {"wait", "merge", "done", "thrown"}, i1 : Nat, i2 : Nat, r : Nat]

Types ==
  /\ base \in Addresses
  /\ buf \in [{0, 1} -> [Cells -> Int]]
  /\ cur \in {0, 1}
  /\ part \in Nat \ {0}
  /\ task \in [Cells -> Task]

\* The inductive invariant: no merge of main's rounds is refused, and none leaves
\* its parts.
IInv == Types /\ NeverThrows /\ InBounds

\* The rounds of main are sound: every merge gets parts that it takes and stays in
\* them, and the merges of a round do not meet.
RoundsSound == IInv /\ NoRace

\* The rounds come to an end, and there main finds its numbers in order ("Right"),
\* although merge drops what is left of a second part.
Sorts == <>(~Running /\ \A x \in Cells : buf[cur][x] = x + 1)

\* Where the loop of main ends each number is in its place: the check behind the
\* loop says "Right", although merge drops what is left of a second part.
RightAtTheEnd == ~Running => \A x \in Cells : buf[cur][x] = x + 1

\* The first n cells from i hold what belongs there once the size numbers of main
\* that came from these cells are in order: N - i is their greatest.
Row(s, i, size, n) == \A x \in i .. i + n - 1 : s[x] = x + (N - 2 * i - size) + 1

\* Why: both parts of every merge are in order, and the second has the lesser
\* numbers.  So a merge takes the whole second part before the first, and the loop
\* that would drop the rest of the second part has nothing to do.
PartsInOrder ==
  \A i \in Starts :
    /\ Row(buf[cur], i, Size1(i), Size1(i))
    /\ Row(buf[cur], Begin2(i), Size2(i), Size2(i))
MergesInOrder ==
  \A i \in Starts : task[i].state \in {"merge", "done"} =>
    /\ Row(buf[Target], i, Size1(i) + Size2(i), task[i].r - i)
    /\ task[i].i1 > i => task[i].i2 = End2(i)
    /\ task[i].state = "done" => task[i].r = i + Size1(i) + Size2(i)
InOrder == PartsInOrder /\ MergesInOrder

\* main's numbers get into order, round by round, and are when its loop ends.
NumbersSorted == InOrder /\ RightAtTheEnd

\* Two sorted parts are merged into one sorted row of all their elements (the
\* comment of merge, and the one on its last loops).
Sorted(s, from, to) == \A x, y \in from .. to - 1 : x <= y => s[x] <= s[y]
MergesSorted ==
  \A i \in Starts :
    /\ task[i].state = "done"
    /\ Sorted(buf[cur], i, End1(i)) /\ Sorted(buf[cur], Begin2(i), End2(i))
    => /\ task[i].r = i + Size1(i) + Size2(i)
       /\ Sorted(buf[Target], i, task[i].r)
=============================================================================
