-------------------------------- MODULE KvMap --------------------------------
(***************************************************************************)
(* What the shared storage of the key-value servers promises to a client: *)
(* a bounded map on which every command takes effect in one indivisible    *)
(* step, somewhere between the moment the worker starts it and the moment  *)
(* it answers.  Between commands an entry may expire; WHEN it may is the    *)
(* subject of the properties of KvStore, not of this specification.        *)
(***************************************************************************)
EXTENDS Integers, FiniteSets

CONSTANTS
  Workers,   \* the processes that run commands
  Keys,      \* the keys clients use
  Values,    \* the values clients store
  Capacity,  \* STORAGE_ELEMENTS_MAX
  Requests   \* the commands: records with fields cmd, key, value (at least)

VARIABLES
  map,       \* [key -> the value stored under it, or Absent]
  pending,   \* [worker -> the command it is running, or Nothing]
  answer     \* [worker -> the result it is about to send, or Nothing]

Absent  == [present |-> FALSE]
Nothing == [none |-> TRUE]

Held(v)   == [present |-> TRUE, value |-> v]
Done(v)   == [ok |-> TRUE, value |-> v]
Failed    == [ok |-> FALSE, value |-> 0]
Stored(m) == {k \in DOMAIN m : m[k] # Absent}

Init ==
  /\ map = [k \in Keys |-> Absent]
  /\ pending = [w \in Workers |-> Nothing]
  /\ answer = [w \in Workers |-> Nothing]

\* A worker starts a command.
Invoke(w) ==
  /\ pending[w] = Nothing
  /\ \E r \in Requests : pending' = [pending EXCEPT ![w] = r]
  /\ UNCHANGED <<map, answer>>

\* The command takes effect, all at once, and its answer is fixed.
Perform(w) ==
  /\ pending[w] # Nothing
  /\ answer[w] = Nothing
  /\ LET r == pending[w] IN
       \/ /\ r.cmd = "set"
          /\ map[r.key] # Absent \/ Cardinality(Stored(map)) < Capacity
          /\ map' = [map EXCEPT ![r.key] = Held(r.value)]
          /\ answer' = [answer EXCEPT ![w] = Done(0)]
       \/ /\ r.cmd = "set"
          /\ map[r.key] = Absent /\ Cardinality(Stored(map)) = Capacity
          /\ answer' = [answer EXCEPT ![w] = Failed]
          /\ UNCHANGED map
       \/ /\ r.cmd = "get"
          /\ answer' = [answer EXCEPT ![w] =
               IF map[r.key] = Absent THEN Failed ELSE Done(map[r.key].value)]
          /\ UNCHANGED map
       \/ /\ r.cmd = "delete"
          /\ map' = [map EXCEPT ![r.key] = Absent]
          /\ answer' = [answer EXCEPT ![w] =
               IF map[r.key] = Absent THEN Failed ELSE Done(0)]
  /\ UNCHANGED pending

\* The worker answers its client.
Respond(w) ==
  /\ answer[w] # Nothing
  /\ pending' = [pending EXCEPT ![w] = Nothing]
  /\ answer' = [answer EXCEPT ![w] = Nothing]
  /\ UNCHANGED map

\* A worker dies within a command, before it took effect or after; not a step of
\* Next, since only some of the servers promise to live through it.
Vanish(w) ==
  /\ pending[w] # Nothing
  /\ pending' = [pending EXCEPT ![w] = Nothing]
  /\ answer' = [answer EXCEPT ![w] = Nothing]
  /\ UNCHANGED map

\* An entry expires.
Expire(k) ==
  /\ map[k] # Absent
  /\ map' = [map EXCEPT ![k] = Absent]
  /\ UNCHANGED <<pending, answer>>

Next ==
  \/ \E w \in Workers : Invoke(w) \/ Perform(w) \/ Respond(w)
  \/ \E k \in Keys : Expire(k)

vars == <<map, pending, answer>>

Spec == Init /\ [][Next]_vars
=============================================================================
