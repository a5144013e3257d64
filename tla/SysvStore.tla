------------------------------ MODULE SysvStore ------------------------------
(***************************************************************************)
(* The shared storage of the System V key-value server (src/p5): a count    *)
(* and an array of entries in a shared memory segment, guarded by a         *)
(* semaphore that is 0 when the storage is free.  Every connection has a    *)
(* process of its own, forked by the master, that runs the commands of its   *)
(* client in run_command.                                                    *)
(*                                                                          *)
(* A process may be killed between any two of its steps, and a step is one   *)
(* write to the memory.  The semaphore is taken and given back with          *)
(* SEM_UNDO, so the kernel gives back what a killed process holds.  A server  *)
(* may also be started on the storage of another one: the master forgets to   *)
(* look whether there is one, init_storage_main empties the table of whoever  *)
(* uses it, and a server that then cannot have the port removes semaphore and  *)
(* segment.                                                                  *)
(***************************************************************************)
EXTENDS Integers, FiniteSets

CONSTANTS
  Workers,   \* the processes of the connections
  Keys,      \* keys that clients use
  Values,    \* values that clients store
  Capacity,  \* STORAGE_ELEMENTS_MAX
  MaxStarts  \* bound on the servers that are started after the first one

ASSUME SysvAssumption ==
  /\ Keys \subseteq Int /\ Values \subseteq Int
  /\ Capacity \in Nat \ {0}
  /\ MaxStarts \in Nat

VARIABLES
  \* the semaphore set
  sem,      \* its value
  undo,     \* [worker -> what the kernel will take off when it ends (semadj)]
  removed,  \* whether the set and the segment have been removed
  \* the segment
  count,    \* *elements_count
  slot,     \* kv_elements
  \* the processes
  pc,       \* [worker -> where it is]
  pos,      \* [worker -> entry_index, then the loop index i]
  req,      \* [worker -> the command it runs]
  reply,    \* [worker -> result and *value of run_command]
  master,   \* whether the master of the server lives
  second,   \* whether another server is between init_storage_main and bind
  starts,   \* how many servers were started after the first
  \* history
  hurt,     \* workers killed while closing a gap
  spoilt    \* the table was emptied under the processes that use it

memory == <<count, slot>>
lock   == <<sem, undo, removed>>
server == <<master, second, starts, spoilt>>
vars   == <<lock, memory, pc, pos, req, reply, server, hurt>>

Slots == 0 .. Capacity - 1
NotFound == -1

Entry == [key : Int, value : Int]
Request == [cmd : {"set"}, key : Keys, value : Values]
           \cup [cmd : {"get", "delete"}, key : Keys]

ZeroEntry == [key |-> 0, value |-> 0]
ZeroTable == [i \in Slots |-> ZeroEntry]

Nothing == [none |-> TRUE]
Done(v) == [ok |-> TRUE, value |-> v]
Failed  == [ok |-> FALSE, value |-> 0]
Result  == [ok : BOOLEAN, value : Int]

\* init_storage_main on a machine where nothing of the server is left.
Init ==
  /\ sem = 0 /\ undo = [w \in Workers |-> 0] /\ removed = FALSE
  /\ count = 0 /\ slot = ZeroTable
  /\ pc = [w \in Workers |-> "none"]
  /\ pos = [w \in Workers |-> NotFound]
  /\ req = [w \in Workers |-> Nothing]
  /\ reply = [w \in Workers |-> Nothing]
  /\ master = TRUE /\ second = FALSE /\ starts = 0
  /\ hurt = 0 /\ spoilt = FALSE

-----------------------------------------------------------------------------
(* The life of a worker around its commands.                                *)

\* client_accept forks.
Fork(w) ==
  /\ master
  /\ pc[w] = "none"
  /\ pc' = [pc EXCEPT ![w] = "idle"]
  /\ UNCHANGED <<lock, memory, pos, req, reply, server, hurt>>

\* read_client_data has parsed a command and calls run_command.
Receive(w) ==
  /\ pc[w] = "idle"
  /\ \E r \in Request : req' = [req EXCEPT ![w] = r]
  /\ pc' = [pc EXCEPT ![w] = "lock"]
  /\ UNCHANGED <<lock, memory, pos, reply, server, hurt>>

\* The client has gone, or SIGINT was read: worker_loop returns.
Leave(w) ==
  /\ pc[w] = "idle"
  /\ pc' = [pc EXCEPT ![w] = "gone"]
  /\ UNCHANGED <<lock, memory, pos, req, reply, server, hurt>>

\* Seeded bug: the operations are made without SEM_UNDO.
Undone_Not(w) == sem

\* The semaphore when the kernel has undone what w did to it.
Undone(w) == sem - undo[w]

\* The locals of w are gone.
ForgetCommand(w) ==
  /\ pos' = [pos EXCEPT ![w] = NotFound]
  /\ req' = [req EXCEPT ![w] = Nothing]
  /\ reply' = [reply EXCEPT ![w] = Nothing]

\* A worker that is closing a gap has taken the key out of the table; the entry
\* at pos is half a copy of the next one.
Shifting(w) == pc[w] \in {"shift", "shift value"}

\* A worker is killed.
Kill(w) ==
  /\ pc[w] \notin {"none", "gone"}
  /\ pc' = [pc EXCEPT ![w] = "gone"]
  /\ sem' = Undone(w)
  /\ undo' = [undo EXCEPT ![w] = 0]
  /\ hurt' = IF Shifting(w) /\ ~spoilt THEN hurt + 1 ELSE hurt
  /\ ForgetCommand(w)
  /\ UNCHANGED <<removed, memory, server>>

-----------------------------------------------------------------------------
(* The semaphore.                                                           *)

\* Seeded bug: only the increment, without the wait for zero before it.
SemFree_Always == TRUE

SemFree == sem = 0

\* semop waits for 0 and adds 1, both at once.
Lock(w) ==
  /\ pc[w] = "lock"
  /\ ~removed /\ SemFree
  /\ sem' = sem + 1
  /\ undo' = [undo EXCEPT ![w] = 1]
  /\ pc' = [pc EXCEPT ![w] = "search"]
  /\ UNCHANGED <<removed, memory, pos, req, reply, server, hurt>>

\* semop takes 1 off; the answer is sent.
Unlock(w) ==
  /\ pc[w] = "unlock"
  /\ ~removed /\ sem > 0
  /\ sem' = sem - 1
  /\ undo' = [undo EXCEPT ![w] = 0]
  /\ pc' = [pc EXCEPT ![w] = "idle"]
  /\ ForgetCommand(w)
  /\ UNCHANGED <<removed, memory, server, hurt>>

\* semop fails when the set is removed, and nobody catches what run_command
\* throws.
SemFails(w) ==
  /\ pc[w] \in {"lock", "unlock"}
  /\ removed
  /\ pc' = [pc EXCEPT ![w] = "gone"]
  /\ undo' = [undo EXCEPT ![w] = 0]
  /\ ForgetCommand(w)
  /\ UNCHANGED <<sem, removed, memory, server, hurt>>

-----------------------------------------------------------------------------
(* run_command, while the table is what the server made it.                 *)

\* One step of worker w from the label "at" to the label "to".
Step(w, at, to) ==
  /\ pc[w] = at
  /\ ~spoilt
  /\ pc' = [pc EXCEPT ![w] = to]
  /\ UNCHANGED <<lock, req, server, hurt>>

\* The step that fixes the result.
Finish(w, at, result) ==
  /\ Step(w, at, "unlock")
  /\ reply' = [reply EXCEPT ![w] = result]
  /\ UNCHANGED pos

\* Seeded bug: the last entry is never looked at.
Hits_ButLast(k) == {i \in Slots : i < count - 1 /\ slot[i].key = k}

\* The indices below the count that hold key k.
Hits(k) == {i \in Slots : i < count /\ slot[i].key = k}

\* The search loop stops at the first entry with the key.
Search(w) ==
  /\ Step(w, "search", req[w].cmd)
  /\ LET hits == Hits(req[w].key) IN
       \/ hits = {} /\ pos' = [pos EXCEPT ![w] = NotFound]
       \/ \E i \in hits : /\ \A j \in hits : i <= j
                          /\ pos' = [pos EXCEPT ![w] = i]
  /\ UNCHANGED <<memory, reply>>

\* "set" on a key that is stored.
SetOld(w) ==
  /\ Finish(w, "set", Done(0))
  /\ pos[w] # NotFound
  /\ slot' = [slot EXCEPT ![pos[w]].value = req[w].value]
  /\ UNCHANGED count

\* Seeded bug: one entry too many.
HasRoom_OneMore == count <= Capacity

HasRoom == count < Capacity

SetFull(w) ==
  /\ Finish(w, "set", Failed)
  /\ pos[w] = NotFound
  /\ ~HasRoom
  /\ UNCHANGED memory

\* Seeded bug: the count is raised first.
CountAfter_First(step) == IF step = "key" THEN count + 1 ELSE count

\* The count after one of the writes to a new entry.
CountAfter(step) == IF step = "count" THEN count + 1 ELSE count

\* "set" on a new key: the key is written behind the last entry ...
SetKey(w) ==
  /\ Step(w, "set", "set value")
  /\ pos[w] = NotFound
  /\ HasRoom
  /\ slot' = [slot EXCEPT ![count].key = req[w].key]
  /\ count' = CountAfter("key")
  /\ UNCHANGED <<pos, reply>>

\* ... then its value ...
SetValue(w) ==
  /\ Step(w, "set value", "set count")
  /\ slot' = [slot EXCEPT ![count].value = req[w].value]
  /\ count' = CountAfter("value")
  /\ UNCHANGED <<pos, reply>>

\* ... and the count makes it an entry.
SetCount(w) ==
  /\ Finish(w, "set count", Done(0))
  /\ count' = CountAfter("count")
  /\ UNCHANGED slot

Get(w) ==
  /\ Finish(w, "get", IF pos[w] = NotFound THEN Failed ELSE Done(slot[pos[w]].value))
  /\ UNCHANGED memory

DeleteMiss(w) ==
  /\ Finish(w, "delete", Failed)
  /\ pos[w] = NotFound
  /\ UNCHANGED memory

\* Seeded bugs: the loop stops one entry early; "++i" is forgotten.
MoreAfter_Less(i) == i < count - 2
Following_Same(i) == i

\* The loop that closes the gap: whether it goes on at i, and where to.
MoreAfter(i) == i < count - 1
Following(i) == i + 1

\* One turn of it: the key of the next entry ...
ShiftKey(w) ==
  /\ \E at \in {"delete", "shift"} : Step(w, at, "shift value")
  /\ pos[w] # NotFound /\ MoreAfter(pos[w])
  /\ slot' = [slot EXCEPT ![pos[w]].key = slot[pos[w] + 1].key]
  /\ UNCHANGED <<count, pos, reply>>

\* ... and its value.
ShiftValue(w) ==
  /\ Step(w, "shift value", "shift")
  /\ slot' = [slot EXCEPT ![pos[w]].value = slot[pos[w] + 1].value]
  /\ pos' = [pos EXCEPT ![w] = Following(@)]
  /\ UNCHANGED <<count, reply>>

\* The loop is over: the last entry is dropped.
Drop(w) ==
  /\ \E at \in {"delete", "shift"} : Finish(w, at, Done(0))
  /\ pos[w] # NotFound /\ ~MoreAfter(pos[w])
  /\ count' = count - 1
  /\ UNCHANGED slot

\* What a command does to a table that was emptied under it is not followed:
\* it comes to its end, or runs off the segment (the loop of "delete" does when
\* the count is 0, since count - 1 is then the largest size_t) and dies.
Inside(w) == pc[w] \notin {"none", "idle", "lock", "gone"}

Blind(w) ==
  /\ spoilt
  /\ Inside(w) /\ pc[w] # "unlock"
  /\ \/ pc' = [pc EXCEPT ![w] = "unlock"] /\ UNCHANGED <<sem, undo>>
     \/ /\ pc' = [pc EXCEPT ![w] = "gone"]
        /\ sem' = Undone(w)
        /\ undo' = [undo EXCEPT ![w] = 0]
  /\ ForgetCommand(w)
  /\ UNCHANGED <<removed, memory, server, hurt>>

-----------------------------------------------------------------------------
(* Servers.                                                                 *)

Living == {w \in Workers : pc[w] \notin {"none", "gone"}}

\* The master is killed, and leaves everything as it is.
MasterKilled ==
  /\ master
  /\ master' = FALSE
  /\ UNCHANGED <<lock, memory, pc, pos, req, reply, second, starts, spoilt, hurt>>

\* Seeded bug: the count is left to whoever created the segment.
Emptied_Not == count

Emptied == 0

\* Another server is started: init_storage_main finds segment and semaphore by
\* their key, or makes new ones that nobody else sees, and sets the count to 0
\* without the semaphore, which it leaves as it is.  The entries stay where they
\* are; a table that is spoilt by this is not followed, and stands as zeros.
ServerInit ==
  /\ ~second
  /\ starts < MaxStarts
  /\ second' = TRUE
  /\ starts' = starts + 1
  /\ count' = IF removed THEN count ELSE Emptied
  /\ spoilt' = (spoilt \/ (~removed /\ (master \/ Living # {})))
  /\ slot' = IF spoilt' THEN ZeroTable ELSE slot
  /\ hurt' = IF removed THEN hurt ELSE 0
  /\ UNCHANGED <<lock, pc, pos, req, reply, master>>

\* start_listening fails - because the master or a worker, which inherits the
\* listening socket and never closes it, still has the port, or for another
\* reason - and destroy_storage_main removes what the server has found.
ServerFails ==
  /\ second
  /\ second' = FALSE
  /\ removed' = TRUE
  /\ UNCHANGED <<sem, undo, memory, pc, pos, req, reply, master, starts, spoilt, hurt>>

\* It has the port: it is the server now.
ServerListens ==
  /\ second
  /\ ~master /\ Living = {}
  /\ second' = FALSE
  /\ master' = TRUE
  /\ removed' = FALSE
  /\ \/ removed /\ sem' = 0 /\ count' = 0 /\ slot' = ZeroTable /\ hurt' = 0 /\ spoilt' = FALSE
     \/ ~removed /\ UNCHANGED <<sem, memory, hurt, spoilt>>
  /\ UNCHANGED <<undo, pc, pos, req, reply, starts>>

-----------------------------------------------------------------------------
RunCommand(w) ==
  \/ Search(w)
  \/ SetOld(w) \/ SetFull(w) \/ SetKey(w) \/ SetValue(w) \/ SetCount(w)
  \/ Get(w)
  \/ DeleteMiss(w) \/ ShiftKey(w) \/ ShiftValue(w) \/ Drop(w)
  \/ Blind(w)
  \/ Unlock(w) \/ SemFails(w)

Next ==
  \/ \E w \in Workers :
       Fork(w) \/ Receive(w) \/ Leave(w) \/ Kill(w) \/ Lock(w) \/ RunCommand(w)
  \/ MasterKilled \/ ServerInit \/ ServerFails \/ ServerListens

Spec == Init /\ [][Next]_vars

\* A process that runs goes on, and one for which the semaphore stays free takes
\* it; nothing is assumed of clients, of who is killed or what is started.
FairSpec == Spec /\ \A w \in Workers : WF_vars(RunCommand(w)) /\ WF_vars(Lock(w))

-----------------------------------------------------------------------------
(* Properties.                                                              *)

TypeOK ==
  /\ sem \in 0 .. 1
  /\ undo \in [Workers -> 0 .. 1]
  /\ removed \in BOOLEAN
  /\ count \in 0 .. Capacity
  /\ slot \in [Slots -> Entry]
  /\ pc \in [Workers -> {"none", "idle", "lock", "search", "set", "set value",
               "set count", "get", "delete", "shift", "shift value", "unlock", "gone"}]
  /\ pos \in [Workers -> Slots \cup {NotFound}]
  /\ req \in [Workers -> Request \cup {Nothing}]
  /\ reply \in [Workers -> Result \cup {Nothing}]
  /\ master \in BOOLEAN /\ second \in BOOLEAN /\ starts \in 0 .. MaxStarts
  /\ hurt \in Nat /\ spoilt \in BOOLEAN

\* The semaphore is up exactly while one living worker is in the storage, at
\* whatever step the others were killed, and for a server started after them
\* too (the operations of run_command carry SEM_UNDO).
MutualExclusion ==
  /\ \A v, w \in Workers : Inside(v) /\ Inside(w) => v = w
  /\ ~removed => (sem = 1 <=> \E w \in Workers : Inside(w))

\* The memory and its lock, for the proofs.
LockSound == TypeOK /\ MutualExclusion

\* The entries: those below the count but the gap a living worker is closing.
Used == {i \in Slots : i < count /\ \A w \in Workers : Shifting(w) => pos[w] # i}

Present(k) == \E i \in Used : slot[i].key = k

Stored == {slot[i].key : i \in Used}

\* Two entries have the same key only where a worker was killed while it closed
\* a gap, and each such death costs one entry of room, not more (run_command
\* appends a key only after it has looked for it).
RoomLost == ~spoilt => Cardinality(Used) <= Cardinality(Stored) + hurt

\* A key leaves the table only by the delete a client asked for, or with the
\* whole table when a server starts: wherever a worker is killed, and even in a
\* table that an earlier one left half shifted, no other key is lost.  And a server
\* begins with an empty table, unless somebody used the table while the server was
\* between init_storage_main and bind.
NothingLost ==
  [][/\ \A k \in Keys : ~spoilt' /\ Present(k) /\ ~Present(k)' =>
          \/ \E w \in Workers : /\ pc[w] = "delete" /\ pc'[w] # "delete"
                                /\ req[w].key = k
          \/ second' # second
     /\ ~master /\ master' => count' = 0 \/ spoilt']_vars

\* The storage does not stay locked: run_command always comes to its end, and a
\* worker that dies in it gives the semaphore back.
LockIsFreed == (sem = 1 /\ ~removed) ~> (sem = 0 \/ removed)

-----------------------------------------------------------------------------
(* The storage implements KvMap.  A "set" takes effect with its last write, a  *)
(* "delete" with the first, so that a worker killed before has done nothing.   *)

EntryOf(k) == CHOOSE i \in Used : slot[i].key = k

KvMapOf == INSTANCE KvMap WITH
  Requests <- Request,
  map <- [k \in Keys |-> IF Present(k)
                           THEN [present |-> TRUE, value |-> slot[EntryOf(k)].value]
                           ELSE [present |-> FALSE]],
  pending <- req,
  answer <- [w \in Workers |-> IF Shifting(w) THEN Done(0) ELSE reply[w]]

\* To the clients every command is one indivisible step, although a worker may be
\* killed at any write of its own - as long as none was killed while it closed a
\* gap, which leaves a key twice and perhaps with the value of its neighbour.
Linearizable ==
  [][hurt' = 0 /\ ~spoilt' /\ second' = second => 
       KvMapOf!Next \/ (\E w \in Workers : KvMapOf!Vanish(w)) \/ UNCHANGED KvMapOf!vars]_vars
=============================================================================
