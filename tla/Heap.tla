-------------------------------- MODULE Heap --------------------------------
(***************************************************************************)
(* What the allocator of src/p1 promises to its caller: a pointer holds a    *)
(* row of bytes that only calls on that pointer change, a reallocation keeps *)
(* what fits, and together the rows never outgrow the arena.  Where the bytes*)
(* are, and that they move, is not visible here.                             *)
(***************************************************************************)
EXTENDS Naturals, Sequences, FiniteSetsExt

CONSTANTS
  Pointers,  \* the Pointer objects of the caller
  Size       \* the bytes of the arena

VARIABLE
  held       \* [pointer -> the bytes it holds, or <<>> if it is null]

Init == held = [p \in Pointers |-> <<>>]

\* Two rows of bytes are the same as far as both go.
Agree(r, s) == \A i \in DOMAIN r \cap DOMAIN s : r[i] = s[i]

\* alloc, realloc or free on p.
Resize(p) ==
  /\ \A q \in Pointers \ {p} : held'[q] = held[q]
  /\ Agree(held[p], held'[p])
  /\ MapThenSumSet(LAMBDA q : Len(held'[q]), Pointers) <= Size

Next == \E p \in Pointers : Resize(p)

Spec == Init /\ [][Next]_held
=============================================================================
