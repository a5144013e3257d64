------------------------------- MODULE KvStore -------------------------------
(***************************************************************************)
(* The shared storage of the POSIX key-value server (src/p6): an array of   *)
(* entries with a count in a shared memory segment, guarded by one named    *)
(* semaphore.  Worker processes run the commands of their clients in        *)
(* run_command; the master removes old entries in clean_old_entries.        *)
(*                                                                          *)
(* One action is one step between two points where another process can see  *)
(* the memory: taking the semaphore, the search loop, the update, one turn   *)
(* of a shifting or scanning loop, posting the semaphore.                    *)
(***************************************************************************)
EXTENDS Integers, FiniteSets

CONSTANTS
  Workers,   \* the worker processes
  Master,    \* the master process
  Keys,      \* keys that clients use
  Values,    \* values that clients store
  TTLs,      \* times to live that clients ask for; <= 0 is "for ever"
  Capacity,  \* STORAGE_ELEMENTS_MAX
  MaxTime    \* bound on time(NULL), in seconds since the server started

ASSUME KvAssumption ==
  /\ Master \notin Workers
  /\ Keys \subseteq Int /\ Values \subseteq Int /\ TTLs \subseteq Int
  /\ Capacity \in Nat \ {0}
  /\ MaxTime \in Nat

VARIABLES
  sem,     \* value of the semaphore /keyvalue_storage_sem
  count,   \* *elements_count
  slot,    \* kv_elements
  now,     \* time(NULL)
  pc,      \* [process -> where it is]
  pos,     \* [process -> entry_index, the loop index i, or current_element]
  req,     \* [worker -> the command it runs]
  reply,   \* [worker -> result and *value of run_command]
  start,   \* current_time of clean_old_entries
  last,    \* history: [stored key -> ttl and created of its last "set"]
  moved    \* history: stored keys a delete has moved since their last "set"

vars == <<sem, count, slot, now, pc, pos, req, reply, start, last, moved>>

Procs == Workers \cup {Master}
Slots == 0 .. Capacity - 1
NotFound == -1

Entry == [key : Int, value : Int, ttl : Int, created : Nat]
Request == [cmd : {"set"}, key : Keys, value : Values, ttl : TTLs]
           \cup [cmd : {"get", "delete"}, key : Keys]
Times == [ttl : Int, created : Nat]

ZeroEntry == [key |-> 0, value |-> 0, ttl |-> 0, created |-> 0]
Never == [ttl |-> 0, created |-> 0]

Nothing == [none |-> TRUE]
Done(v) == [ok |-> TRUE, value |-> v]
Result == [ok : BOOLEAN, value : Int]
Failed  == [ok |-> FALSE, value |-> 0]

\* init_storage_main: a zero-filled segment, no entries, the semaphore at 1.
Init ==
  /\ sem = 1
  /\ count = 0
  /\ slot = [i \in Slots |-> ZeroEntry]
  /\ now = 0
  /\ pc = [p \in Procs |-> "idle"]
  /\ pos = [p \in Procs |-> NotFound]
  /\ req = [w \in Workers |-> Nothing]
  /\ reply = [w \in Workers |-> Nothing]
  /\ start = 0
  /\ last = [k \in Keys |-> Never]
  /\ moved = {}

-----------------------------------------------------------------------------
(* The semaphore.                                                           *)

\* Seeded bug: the semaphore lets everyone pass.
SemFree_Always == TRUE

SemFree == sem > 0

\* sem_wait: blocks while the value is 0.
SemWait(p) ==
  /\ pc[p] = "lock"
  /\ SemFree
  /\ sem' = sem - 1
  /\ pc' = [pc EXCEPT ![p] = IF p = Master THEN "begin" ELSE "search"]
  /\ UNCHANGED <<count, slot, now, pos, req, reply, start, last, moved>>

\* sem_post and the return: the locals of the call are gone and, in a worker,
\* the answer is sent.
SemPost(p) ==
  /\ pc[p] = "post"
  /\ sem' = sem + 1
  /\ pc' = [pc EXCEPT ![p] = "idle"]
  /\ pos' = [pos EXCEPT ![p] = NotFound]
  /\ req' = [w \in Workers |-> IF w = p THEN Nothing ELSE req[w]]
  /\ reply' = [w \in Workers |-> IF w = p THEN Nothing ELSE reply[w]]
  /\ start' = IF p = Master THEN 0 ELSE start
  /\ UNCHANGED <<count, slot, now, last, moved>>

-----------------------------------------------------------------------------
(* run_command, in a worker.                                                *)

\* read_client_data has parsed a command and calls run_command.
Receive(w) ==
  /\ pc[w] = "idle"
  /\ \E r \in Request : req' = [req EXCEPT ![w] = r]
  /\ pc' = [pc EXCEPT ![w] = "lock"]
  /\ UNCHANGED <<sem, count, slot, now, pos, reply, start, last, moved>>

\* Seeded bug: the search looks beyond the count.
Hits_Stale(k) == {i \in Slots : slot[i].key = k}

\* The indices below the count that hold key k.
Hits(k) == {i \in Slots : i < count /\ slot[i].key = k}

\* The search loop stops at the first entry with the key.
Search(w) ==
  /\ pc[w] = "search"
  /\ \/ /\ Hits(req[w].key) = {}
        /\ pos' = [pos EXCEPT ![w] = NotFound]
     \/ \E i \in Hits(req[w].key) :
          /\ \A j \in Hits(req[w].key) : i <= j
          /\ pos' = [pos EXCEPT ![w] = i]
  /\ pc' = [pc EXCEPT ![w] = req[w].cmd]
  /\ UNCHANGED <<sem, count, slot, now, req, reply, start, last, moved>>

\* A command ends: its result is fixed and the semaphore is posted next.
Finish(w, result) ==
  /\ reply' = [reply EXCEPT ![w] = result]
  /\ pc' = [pc EXCEPT ![w] = "post"]
  /\ UNCHANGED <<sem, now, req, start>>

NewEntry(r) ==
  [key |-> r.key, value |-> r.value, ttl |-> r.ttl, created |-> now]

\* The history of a "set" that succeeds.
NoteSet(r) ==
  /\ last' = [last EXCEPT ![r.key] = [ttl |-> r.ttl, created |-> now]]
  /\ moved' = moved \ {r.key}

\* The history of a key that leaves.
Forget(k) ==
  /\ last' = [last EXCEPT ![k] = Never]
  /\ moved' = moved \ {k}

\* "set" on a key that is stored: value, ttl and created are replaced.
SetOld(w) ==
  /\ pc[w] = "set"
  /\ pos[w] # NotFound
  /\ slot' = [slot EXCEPT ![pos[w]] =
       [NewEntry(req[w]) EXCEPT !.key = slot[pos[w]].key]]
  /\ NoteSet(req[w])
  /\ Finish(w, Done(0))
  /\ UNCHANGED <<count, pos>>

\* Seeded bug: the room in the store is not checked.
HasRoom_Unchecked == TRUE

HasRoom == count < Capacity

\* "set" on a new key while there is room: the entry is appended.
SetNew(w) ==
  /\ pc[w] = "set"
  /\ pos[w] = NotFound
  /\ HasRoom
  /\ slot' = [slot EXCEPT ![count] = NewEntry(req[w])]
  /\ count' = count + 1
  /\ NoteSet(req[w])
  /\ Finish(w, Done(0))
  /\ UNCHANGED pos

\* "set" on a new key in a full store: "Unable to add key".
SetFull(w) ==
  /\ pc[w] = "set"
  /\ pos[w] = NotFound
  /\ ~HasRoom
  /\ Finish(w, Failed)
  /\ UNCHANGED <<count, slot, pos, last, moved>>

Get(w) ==
  /\ pc[w] = "get"
  /\ Finish(w, IF pos[w] = NotFound THEN Failed ELSE Done(slot[pos[w]].value))
  /\ UNCHANGED <<count, slot, pos, last, moved>>

\* A worker that has found the entry it is to delete; the entry at pos is gone
\* for every later command.
Deleting(w) == pc[w] = "delete" /\ pos[w] # NotFound

DeleteMiss(w) ==
  /\ pc[w] = "delete"
  /\ pos[w] = NotFound
  /\ Finish(w, Failed)
  /\ UNCHANGED <<count, slot, pos, last, moved>>

\* Seeded bugs in the loop below: the value is forgotten; "++i" is.
Pulled_KeyOnly(i) == [slot[i] EXCEPT !.key = slot[i + 1].key]
Advance_Not(i) == i

\* Entry i after key and value of the next one are copied into it; ttl and
\* created stay where they are.
Pulled(i) ==
  [key |-> slot[i + 1].key, value |-> slot[i + 1].value,
   ttl |-> slot[i].ttl, created |-> slot[i].created]
Advance(i) == i + 1

\* "delete" on a key that is stored: one turn of the loop that closes the gap.
DeleteShift(w) ==
  /\ Deleting(w)
  /\ pos[w] < count - 1
  /\ LET i == pos[w] IN
       /\ slot' = [slot EXCEPT ![i] = Pulled(i)]
       /\ pos' = [pos EXCEPT ![w] = Advance(i)]
       /\ moved' = (moved \ {req[w].key}) \cup {slot[i + 1].key}
  /\ UNCHANGED <<sem, count, now, pc, req, reply, start, last>>

\* The loop is over: the last entry is dropped.
DeleteDrop(w) ==
  /\ Deleting(w)
  /\ pos[w] >= count - 1
  /\ count' = count - 1
  /\ Forget(req[w].key)
  /\ Finish(w, Done(0))
  /\ UNCHANGED <<slot, pos>>
-----------------------------------------------------------------------------
(* clean_old_entries, in the master.                                        *)

\* One turn of the master's loop calls clean_old_entries.
CleanCall ==
  /\ pc[Master] = "idle"
  /\ pc' = [pc EXCEPT ![Master] = "lock"]
  /\ UNCHANGED <<sem, count, slot, now, pos, req, reply, start, last, moved>>

\* Seeded bug: a single entry is never looked at.
Empty_OrSingle == count <= 1

Empty == count = 0

\* The clock is read once, before the scan, and the scan starts at the end.
CleanBegin ==
  /\ pc[Master] = "begin"
  /\ \/ /\ Empty
        /\ pc' = [pc EXCEPT ![Master] = "post"]
        /\ UNCHANGED <<pos, start>>
     \/ /\ ~Empty
        /\ start' = now
        /\ pos' = [pos EXCEPT ![Master] = count - 1]
        /\ pc' = [pc EXCEPT ![Master] = "scan"]
  /\ UNCHANGED <<sem, count, slot, now, req, reply, last, moved>>

\* Seeded bug: an entry is old one second too early.
Old_TooEarly(e) == e.ttl > 0 /\ start - e.created >= e.ttl

Old(e) == e.ttl > 0 /\ start - e.created > e.ttl

\* Seeded bug: ttl and created are left behind, as "delete" does.
Without_KeyValueOnly(c) ==
  [i \in Slots |-> IF c <= i /\ i < count - 1 THEN Pulled(i) ELSE slot[i]]

\* The entries with entry c removed by shifting down those after it.
Without(c) ==
  [i \in Slots |-> IF c <= i /\ i < count - 1 THEN slot[i + 1] ELSE slot[i]]

\* One turn of the scan: an old entry is removed by shifting all the fields of
\* the entries after it; the scan ends after entry 0.
CleanScan ==
  /\ pc[Master] = "scan"
  /\ LET c == pos[Master] IN
       /\ \/ /\ Old(slot[c])
             /\ slot' = Without(c)
             /\ count' = count - 1
             /\ Forget(slot[c].key)
          \/ /\ ~Old(slot[c])
             /\ UNCHANGED <<count, slot, last, moved>>
       /\ \/ /\ c = 0
             /\ pc' = [pc EXCEPT ![Master] = "post"]
             /\ UNCHANGED pos
          \/ /\ c # 0
             /\ pos' = [pos EXCEPT ![Master] = c - 1]
             /\ UNCHANGED pc
  /\ UNCHANGED <<sem, now, req, reply, start>>

-----------------------------------------------------------------------------
\* A second passes.
Tick ==
  /\ now < MaxTime
  /\ now' = now + 1
  /\ UNCHANGED <<sem, count, slot, pc, pos, req, reply, start, last, moved>>

RunCommand(w) ==
  \/ Search(w)
  \/ SetOld(w) \/ SetNew(w) \/ SetFull(w)
  \/ Get(w)
  \/ DeleteMiss(w) \/ DeleteShift(w) \/ DeleteDrop(w)

Next ==
  \/ \E w \in Workers : Receive(w) \/ RunCommand(w)
  \/ CleanCall \/ CleanBegin \/ CleanScan
  \/ \E p \in Procs : SemWait(p) \/ SemPost(p)
  \/ Tick

Spec == Init /\ [][Next]_vars

\* A process that has the semaphore keeps running, and the master keeps going
\* round its loop (its epoll_wait has a timeout).  Nothing is assumed of who
\* gets a free semaphore: only that a process for which it stays free does.
FairSpec ==
  /\ Spec
  /\ \A w \in Workers : WF_vars(RunCommand(w))
  /\ WF_vars(CleanCall) /\ WF_vars(CleanBegin \/ CleanScan)
  /\ \A p \in Procs : WF_vars(SemWait(p)) /\ WF_vars(SemPost(p))

-----------------------------------------------------------------------------
(* Properties.                                                              *)

\* A process between its sem_wait and its sem_post.
Inside(p) == pc[p] \notin {"idle", "lock"}

\* The indices of the entries: those below the count, but the gap that a
\* delete is moving to the end.
Used == {i \in Slots : i < count /\ \A w \in Workers : Deleting(w) => pos[w] # i}

Present(k) == \E i \in Used : slot[i].key = k

\* Types, and: the keys of the entries are keys some client stored.
TypeOK ==
  /\ sem \in 0 .. 1
  /\ count \in 0 .. Capacity
  /\ slot \in [Slots -> Entry]
  /\ \A i \in Slots : i < count => slot[i].key \in Keys
  /\ now \in 0 .. MaxTime
  /\ pc \in [Procs -> {"idle", "lock", "begin", "scan", "post",
                        "search", "set", "get", "delete"}]
  /\ pos \in [Procs -> Slots \cup {NotFound}]
  /\ req \in [Workers -> Request \cup {Nothing}]
  /\ reply \in [Workers -> Result \cup {Nothing}]
  /\ start \in 0 .. MaxTime
  /\ last \in [Keys -> Times]
  /\ moved \subseteq Keys

\* The semaphore lets one process at a time into the storage, master included,
\* and is down exactly while one is there (sem_wait / sem_post in run_command
\* and clean_old_entries).
MutualExclusion ==
  /\ \A p, q \in Procs : Inside(p) /\ Inside(q) => p = q
  /\ sem = 0 <=> \E p \in Procs : Inside(p)

\* What a worker knows of the storage while it is inside.
Knows(w) ==
  /\ pc[w] \notin {"begin", "scan"}
  /\ pc[w] \in {"lock", "search", "set", "get", "delete"} => req[w] \in Request
  /\ pc[w] \in {"set", "get", "delete"} =>
       /\ req[w].cmd = pc[w]
       /\ pos[w] < count
       /\ pos[w] = NotFound =>
            \A i \in Slots : i < count => slot[i].key # req[w].key
  /\ pc[w] \in {"set", "get"} /\ pos[w] # NotFound =>
       slot[pos[w]].key = req[w].key
  /\ Deleting(w) => \A i \in Used : slot[i].key # req[w].key

\* A command works on the entry its search found, "set" appends a key only when
\* no entry has it, the key being deleted is in no entry, and the scan of the
\* master points at an entry and read the clock in the past (run_command,
\* clean_old_entries: index and clock are read once and used after the search).
Located ==
  /\ \A w \in Workers : Knows(w)
  /\ pc[Master] \in {"idle", "lock", "begin", "scan", "post"}
  /\ pc[Master] = "scan" =>
       /\ pos[Master] \in Slots
       /\ pos[Master] < count
       /\ start <= now

\* No two entries have the same key: run_command appends only a key it has
\* just looked for, and no shifting loop leaves a copy behind.
KeysUnique ==
  \A i, j \in Used : slot[i].key = slot[j].key => i = j

\* An entry has the ttl and the creation time of the last "set" of its key,
\* whatever was expired, deleted or set around it - unless a delete has moved
\* it since: the loop of "delete" leaves ttl and created behind.
TtlExact ==
  \A i \in Used : slot[i].key \notin moved =>
    [ttl |-> slot[i].ttl, created |-> slot[i].created] = last[slot[i].key]

\* All of this together is inductive: what a process read stays true because it is
\* alone, a key stays unique because what was read is true, and so on round
\* (run_command and clean_old_entries, step by step against each other).
IInv ==
  /\ TypeOK
  /\ MutualExclusion
  /\ Located
  /\ KeysUnique
  /\ TtlExact

\* The last "set" of k asked for a ttl that is over.
Expired(k) == last[k].ttl > 0 /\ now - last[k].created > last[k].ttl

\* Why the entry of k may leave in this step.
MayLeave(k) ==
  \/ \E w \in Workers :
       pc[w] = "search" /\ req[w].cmd = "delete" /\ req[w].key = k
  \/ k \in moved
  \/ Expired(k)

\* An entry leaves the storage only when a worker deletes its key, or when the
\* ttl of its last "set" is over - or if a delete moved it, see TtlExact.  (No
\* shift, no drop of the last entry and no clean_old_entries loses another.)
EntriesLeave == [][\A k \in Keys : Present(k) /\ ~Present(k)' => MayLeave(k)]_vars

\* run_command always gives the semaphore back and answers: no loop in it runs
\* for ever and no path leaves without sem_post.
CommandsEnd ==
  \A w \in Workers : Inside(w) ~> pc[w] = "idle"

\* The entry of k is over by the fields clean_old_entries looks at.
Overdue(k) ==
  \E i \in Used : slot[i].key = k /\ slot[i].ttl > 0
                  /\ now - slot[i].created > slot[i].ttl

\* When the clients go quiet, the master removes every overdue entry.  (While
\* commands keep coming the semaphore may always be taken by a worker first.)
OldEntriesGo ==
  <>[](\A w \in Workers : pc[w] = "idle") =>
    \A k \in Keys : Overdue(k) ~> ~Overdue(k)

-----------------------------------------------------------------------------
(* The storage implements KvMap: a command takes effect at its update, a     *)
(* delete of a stored key when the search has found it.                      *)

EntryOf(k) == CHOOSE i \in Used : slot[i].key = k

KvMapOf == INSTANCE KvMap WITH
  Requests <- Request,
  map <- [k \in Keys |-> IF Present(k)
                           THEN [present |-> TRUE, value |-> slot[EntryOf(k)].value]
                           ELSE [present |-> FALSE]],
  pending <- req,
  answer <- [w \in Workers |-> IF Deleting(w) THEN Done(0) ELSE reply[w]]

\* Every command of every worker is indivisible to the clients although the
\* loops are not (run_command, clean_old_entries).
Linearizable == KvMapOf!Spec
=============================================================================
