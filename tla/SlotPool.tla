------------------------------ MODULE SlotPool ------------------------------
(***************************************************************************)
(* What the process pool of the POSIX key-value server promises: a worker   *)
(* has at most one client at a time, and a connection is given to at most    *)
(* one worker in its life.                                                  *)
(***************************************************************************)
CONSTANTS
  Workers,   \* the worker processes
  Clients,   \* the connections
  None       \* no connection

VARIABLES
  owner,     \* [worker -> the connection it is responsible for, or None]
  spent      \* the connections that have been given to a worker or turned away

Init ==
  /\ owner = [w \in Workers |-> None]
  /\ spent = {}

Assign(w, c) ==
  /\ owner[w] = None
  /\ c \notin spent
  /\ owner' = [owner EXCEPT ![w] = c]
  /\ spent' = spent \cup {c}

Release(w) ==
  /\ owner[w] # None
  /\ owner' = [owner EXCEPT ![w] = None]
  /\ UNCHANGED spent

\* Some connections are turned away.
Refuse(C) ==
  /\ C \cap spent = {}
  /\ spent' = spent \cup C
  /\ UNCHANGED owner

Next ==
  \/ \E w \in Workers : Release(w) \/ \E c \in Clients : Assign(w, c)
  \/ \E C \in SUBSET Clients : Refuse(C)

Spec == Init /\ [][Next]_<<owner, spent>>
=============================================================================
