-------------------------------- MODULE Pipes --------------------------------
(***************************************************************************)
(* What the TCP proxy promises: a session is two pipes, one for each side's  *)
(* bytes, that are opened together and cut together.  A pipe hands the bytes *)
(* on in the order in which they were written.                               *)
(***************************************************************************)
EXTENDS Naturals, Sequences

CONSTANTS
  Session,    \* the sessions
  Side,       \* the two ends of a session
  Whole       \* whether every byte is handed on, or some may be missing

VARIABLES
  stage,      \* [session -> "new", "open" or "over"]
  sent,       \* [session -> [side -> how many bytes it has written]]
  got         \* [session -> [side -> the bytes of that side that the other has got]]

Init ==
  /\ stage = [s \in Session |-> "new"]
  /\ sent = [s \in Session |-> [x \in Side |-> 0]]
  /\ got = [s \in Session |-> [x \in Side |-> <<>>]]

Open(s) ==
  /\ stage[s] = "new"
  /\ stage' = [stage EXCEPT ![s] = "open"]
  /\ UNCHANGED <<sent, got>>

Write(s, x) ==
  /\ sent' = [sent EXCEPT ![s][x] = @ + 1]
  /\ UNCHANGED <<stage, got>>

\* The last byte of x that has come out.
Latest(s, x) == LET g == got[s][x] IN IF g = <<>> THEN 0 ELSE g[Len(g)]

\* The bytes from a to b come out of the pipe: the ones that follow.
Deliver(s, x, a, b) ==
  /\ stage[s] = "open"
  /\ Latest(s, x) < a /\ a <= b /\ b <= sent[s][x]
  /\ Whole => a = Latest(s, x) + 1
  /\ got' = [got EXCEPT ![s][x] = @ \o [i \in 1 .. b - a + 1 |-> a + i - 1]]
  /\ UNCHANGED <<stage, sent>>

Cut(s) ==
  /\ stage[s] # "over"
  /\ stage' = [stage EXCEPT ![s] = "over"]
  /\ UNCHANGED <<sent, got>>

Next == \E s \in Session :
  \/ Open(s) \/ Cut(s)
  \/ \E x \in Side : Write(s, x) \/ \E a, b \in 1 .. sent[s][x] : Deliver(s, x, a, b)

Spec == Init /\ [][Next]_<<stage, sent, got>>
=============================================================================
