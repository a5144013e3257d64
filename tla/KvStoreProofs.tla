---------------------------- MODULE KvStoreProofs ----------------------------
(***************************************************************************)
(* Proofs about KvStore, for every number of workers, every set of keys,    *)
(* values and ttls, every capacity and any length of time.                  *)
(*                                                                          *)
(* The properties are not inductive one by one: the key in an entry is only  *)
(* unique because a "set" knows that its key is absent (Located), which it   *)
(* keeps knowing only because nobody else is inside (MutualExclusion), which *)
(* in turn makes the semaphore's value exact (TypeOK).  IInv is all of them. *)
(***************************************************************************)
EXTENDS KvStore, FiniteSetTheorems, FunctionTheorems, TLAPS

-----------------------------------------------------------------------------
(* Commands.                                                                *)

\* What run_command can be called with.
LEMMA RequestFields ==
  ASSUME NEW r \in Request
  PROVE  /\ r.cmd \in {"set", "get", "delete"}
         /\ r.key \in Keys
         /\ r.cmd = "set" => r.value \in Values /\ r.ttl \in TTLs
BY DEF Request

\* The records a command builds.
LEMMA Records ==
  /\ \A k, v, t \in Int, c \in Nat :
       [key |-> k, value |-> v, ttl |-> t, created |-> c] \in Entry
  /\ \A t \in Int, c \in Nat : [ttl |-> t, created |-> c] \in Times
  /\ \A v \in Int : Done(v) \in Result
  /\ Never \in Times /\ Failed \in Result
BY DEF Entry, Times, Done, Result, Never, Failed

-----------------------------------------------------------------------------
(* The semaphore.                                                           *)

\* A step that leaves the semaphore alone and moves at most one process, not
\* across the door, keeps mutual exclusion.
LEMMA SameSide ==
  ASSUME MutualExclusion, sem' = sem,
         \A p \in Procs : Inside(p)' <=> Inside(p)
  PROVE  MutualExclusion'
BY DEF MutualExclusion

\* Only one process is ever between sem_wait and sem_post, and the semaphore is
\* down exactly then: kept by every step.
LEMMA LockStep ==
  ASSUME KvAssumption, TypeOK, MutualExclusion, Located, [Next]_vars
  PROVE  MutualExclusion'
<1> USE DEF TypeOK
<1>1. ASSUME NEW w \in Workers, Receive(w) \/ RunCommand(w)
      PROVE  sem' = sem /\ \A p \in Procs : Inside(p)' <=> Inside(p)
  <2>1. w \in Procs
    BY DEF Procs
  <2>2. CASE Receive(w)
    BY <2>1, <2>2 DEF Receive, Inside
  <2>3. CASE Search(w)
    <3>1. req[w].cmd \in {"set", "get", "delete"}
      BY <2>3, RequestFields DEF Search, Located, Knows
    <3> QED
      BY <2>1, <2>3, <3>1 DEF Search, Inside
  <2>4. CASE DeleteShift(w)
    BY <2>4 DEF DeleteShift, Inside
  <2>5. CASE SetOld(w) \/ SetNew(w) \/ SetFull(w) \/ Get(w) \/ DeleteMiss(w) \/ DeleteDrop(w)
    BY <2>1, <2>5 DEF SetOld, SetNew, SetFull, Get, DeleteMiss, DeleteDrop,
                      Deleting, Finish, Inside
  <2> QED
    BY <1>1, <2>2, <2>3, <2>4, <2>5 DEF RunCommand
<1>2. ASSUME CleanCall \/ CleanBegin \/ CleanScan
      PROVE  sem' = sem /\ \A p \in Procs : Inside(p)' <=> Inside(p)
  BY <1>2 DEF CleanCall, CleanBegin, CleanScan, Inside, Procs
<1>3. ASSUME NEW p \in Procs, SemWait(p)
      PROVE  MutualExclusion'
  <2>1. sem = 1 /\ sem' = 0
    BY <1>3 DEF SemWait, SemFree
  <2>2. \A q \in Procs : ~Inside(q)
    BY <2>1 DEF MutualExclusion
  <2>3. Inside(p)' /\ \A q \in Procs \ {p} : ~Inside(q)'
    BY <1>3, <2>2 DEF SemWait, Inside
  <2> QED
    BY <2>1, <2>3 DEF MutualExclusion
<1>4. ASSUME NEW p \in Procs, SemPost(p)
      PROVE  MutualExclusion'
  <2>1. Inside(p)
    BY <1>4 DEF SemPost, Inside
  <2>2. sem' = 1
    BY <1>4, <2>1 DEF MutualExclusion, SemPost
  <2>3. \A q \in Procs : ~Inside(q)'
    BY <1>4, <2>1 DEF SemPost, Inside, MutualExclusion
  <2> QED
    BY <2>2, <2>3 DEF MutualExclusion
<1>5. CASE Tick \/ UNCHANGED vars
  BY <1>5 DEF Tick, vars, MutualExclusion, Inside
<1> QED
  BY <1>1, <1>2, <1>3, <1>4, <1>5, SameSide DEF Next

-----------------------------------------------------------------------------
(* Types.                                                                   *)

\* Every variable keeps its type.  The count stays within the capacity because
\* "set" has just compared them and nobody else is inside; it does not drop
\* below zero because what is deleted or expired is an entry.
LEMMA TypeStep ==
  ASSUME KvAssumption, TypeOK, MutualExclusion, Located, [Next]_vars
  PROVE  TypeOK'
<1> USE DEF KvAssumption, Procs, Slots, NotFound
<1>1. ASSUME NEW w \in Workers, Receive(w)
      PROVE  TypeOK'
  BY <1>1 DEF Receive, TypeOK
<1>2. ASSUME NEW w \in Workers, Search(w)
      PROVE  TypeOK'
  <2>1. req[w].cmd \in {"set", "get", "delete"}
    BY <1>2, RequestFields DEF Search, Located, Knows
  <2>2. pos' \in [Procs -> Slots \cup {NotFound}]
    BY <1>2 DEF Search, TypeOK, Hits
  <2> QED
    BY <1>2, <2>1, <2>2 DEF Search, TypeOK
<1>3. ASSUME NEW w \in Workers, SetOld(w) \/ SetNew(w)
      PROVE  TypeOK'
  <2>1. /\ req[w] \in Request
        /\ req[w].cmd = "set"
        /\ pos[w] < count
        /\ pos[w] # NotFound => slot[pos[w]].key = req[w].key
    BY <1>3 DEF SetOld, SetNew, Located, Knows
  <2>2. req[w].key \in Keys /\ req[w].value \in Int /\ req[w].ttl \in Int /\ now \in Nat
    <3>1. req[w].key \in Keys /\ req[w].value \in Values /\ req[w].ttl \in TTLs
      BY <2>1, RequestFields
    <3>2. now \in Nat
      BY DEF TypeOK
    <3> QED
      BY <3>1, <3>2
  <2>3. /\ NewEntry(req[w]) \in Entry
        /\ NewEntry(req[w]).key = req[w].key
    BY <2>2, Records DEF NewEntry
  <2>4. /\ last' \in [Keys -> Times]
        /\ moved' \subseteq Keys
    <3> DEFINE t == [ttl |-> req[w].ttl, created |-> now]
    <3>1. t \in Times
      BY <2>2, Records
    <3>2. last' = [last EXCEPT ![req[w].key] = t] /\ moved' = moved \ {req[w].key}
      BY <1>3 DEF SetOld, SetNew, NoteSet
    <3> HIDE DEF t
    <3> QED
      BY <3>1, <3>2 DEF TypeOK
  <2>5. CASE SetOld(w)
    <3> DEFINE e == [NewEntry(req[w]) EXCEPT !.key = slot[pos[w]].key]
    <3>1. e \in Entry /\ e.key = req[w].key
      BY <2>1, <2>3, <2>5 DEF SetOld, TypeOK, Entry
    <3>2. slot' = [slot EXCEPT ![pos[w]] = e] /\ count' = count
      BY <2>5 DEF SetOld
    <3> HIDE DEF e
    <3>3. slot' \in [Slots -> Entry]
      BY <3>1, <3>2 DEF TypeOK
    <3>4. \A i \in Slots : i < count' => slot'[i].key \in Keys
      BY <2>2, <3>1, <3>2 DEF TypeOK
    <3> QED
      BY <2>4, <2>5, <3>2, <3>3, <3>4, Records DEF SetOld, Finish, TypeOK
  <2>6. CASE SetNew(w)
    <3>1. slot' = [slot EXCEPT ![count] = NewEntry(req[w])] /\ count' = count + 1
      BY <2>6 DEF SetNew
    <3>2. count \in Slots
      BY <2>6 DEF SetNew, HasRoom, TypeOK
    <3>3. slot' \in [Slots -> Entry]
      BY <2>3, <3>1 DEF TypeOK
    <3>4. \A i \in Slots : i < count' => slot'[i].key \in Keys
      BY <2>2, <2>3, <3>1, <3>2 DEF TypeOK
    <3> QED
      BY <2>4, <2>6, <3>1, <3>2, <3>3, <3>4, Records
         DEF SetNew, Finish, TypeOK
  <2> QED
    BY <1>3, <2>5, <2>6
<1>4. ASSUME NEW w \in Workers, SetFull(w) \/ DeleteMiss(w)
      PROVE  TypeOK'
  <2>1. reply' = [reply EXCEPT ![w] = Failed] /\ pc' = [pc EXCEPT ![w] = "post"]
    BY <1>4 DEF SetFull, DeleteMiss, Finish
  <2>2. UNCHANGED <<sem, count, slot, now, pos, req, start, last, moved>>
    BY <1>4 DEF SetFull, DeleteMiss, Finish
  <2> QED
    BY <2>1, <2>2, Records DEF TypeOK
<1>5. ASSUME NEW w \in Workers, Get(w)
      PROVE  TypeOK'
  <2>1. pos[w] # NotFound => slot[pos[w]].value \in Int
    BY <1>5 DEF Get, TypeOK, Entry
  <2> DEFINE r == IF pos[w] = NotFound THEN Failed ELSE Done(slot[pos[w]].value)
  <2>2. r \in Result
    BY <2>1 DEF Result, Failed, Done
  <2>3. reply' = [reply EXCEPT ![w] = r] /\ pc' = [pc EXCEPT ![w] = "post"]
    BY <1>5 DEF Get, Finish
  <2> HIDE DEF r
  <2> QED
    BY <1>5, <2>2, <2>3 DEF Get, Finish, TypeOK
<1>6. ASSUME NEW w \in Workers, DeleteShift(w)
      PROVE  TypeOK'
  <2> DEFINE i == pos[w]
  <2>1. i \in Slots /\ i + 1 \in Slots /\ i + 1 < count
    BY <1>6 DEF DeleteShift, Deleting, TypeOK
  <2>2. Pulled(i) \in Entry /\ Pulled(i).key = slot[i + 1].key
    BY <2>1 DEF Pulled, TypeOK, Entry
  <2>3. slot[i + 1].key \in Keys
    BY <2>1 DEF TypeOK
  <2>4. /\ slot' = [slot EXCEPT ![i] = Pulled(i)]
        /\ pos' = [pos EXCEPT ![w] = i + 1]
        /\ moved' = (moved \ {req[w].key}) \cup {slot[i + 1].key}
        /\ UNCHANGED <<sem, count, now, pc, req, reply, start, last>>
    BY <1>6 DEF DeleteShift, Advance
  <2> HIDE DEF i
  <2>5. slot' \in [Slots -> Entry]
    BY <2>2, <2>4 DEF TypeOK
  <2>6. \A j \in Slots : j < count' => slot'[j].key \in Keys
    BY <2>1, <2>2, <2>3, <2>4 DEF TypeOK
  <2> QED
    BY <2>1, <2>3, <2>4, <2>5, <2>6 DEF TypeOK
<1>7. ASSUME NEW w \in Workers, DeleteDrop(w)
      PROVE  TypeOK'
  <2>1. count > 0
    BY <1>7 DEF DeleteDrop, Deleting, Located, Knows, TypeOK
  <2>2. req[w].key \in Keys
    BY <1>7, RequestFields DEF DeleteDrop, Deleting, Located, Knows
  <2> QED
    <3>1. /\ count' = count - 1
          /\ last' = [last EXCEPT ![req[w].key] = Never]
          /\ moved' = moved \ {req[w].key}
          /\ reply' = [reply EXCEPT ![w] = Done(0)]
          /\ pc' = [pc EXCEPT ![w] = "post"]
          /\ UNCHANGED <<sem, slot, now, pos, req, start>>
      BY <1>7 DEF DeleteDrop, Forget, Finish
    <3>2. Never \in Times /\ Done(0) \in Result
      BY Records
    <3>3. last' \in [Keys -> Times]
      BY <3>1, <3>2 DEF TypeOK
    <3>4. reply' \in [Workers -> Result \cup {Nothing}]
      BY <3>1, <3>2 DEF TypeOK
    <3>5. /\ count' \in 0 .. Capacity
          /\ \A i \in Slots : i < count' => slot'[i].key \in Keys
      BY <2>1, <3>1 DEF TypeOK
    <3> QED
      BY <3>1, <3>3, <3>4, <3>5 DEF TypeOK
<1>8. CASE CleanCall \/ CleanBegin
  <2>1. CASE CleanCall
    BY <2>1 DEF CleanCall, TypeOK
  <2>2. CASE CleanBegin
    <3>1. pos' \in [Procs -> Slots \cup {NotFound}] /\ start' \in 0 .. MaxTime
      BY <2>2 DEF CleanBegin, Empty, TypeOK
    <3> QED
      BY <2>2, <3>1 DEF CleanBegin, TypeOK
  <2> QED
    BY <1>8, <2>1, <2>2
<1>9. CASE CleanScan
  <2> DEFINE c == pos[Master]
  <2>1. c \in Slots /\ c < count
    BY <1>9 DEF CleanScan, Located
  <2>2. CASE Old(slot[c])
    <3>1. slot' = Without(c) /\ count' = count - 1 /\ Forget(slot[c].key)
      BY <1>9, <2>2 DEF CleanScan
    <3>2. slot' \in [Slots -> Entry]
      BY <2>1, <3>1 DEF Without, TypeOK
    <3>3. \A i \in Slots : i < count' => slot'[i].key \in Keys
      BY <2>1, <3>1 DEF Without, TypeOK
    <3>4. last' \in [Keys -> Times] /\ moved' \subseteq Keys
      BY <3>1, Records DEF Forget, TypeOK
    <3>5. /\ pos' \in [Procs -> Slots \cup {NotFound}]
          /\ pc' \in [Procs -> {"idle", "lock", "begin", "scan", "post",
                                 "search", "set", "get", "delete"}]
      BY <1>9, <2>1 DEF CleanScan, TypeOK
    <3> QED
      BY <1>9, <2>1, <3>1, <3>2, <3>3, <3>4, <3>5 DEF CleanScan, TypeOK
  <2>3. CASE ~Old(slot[c])
    <3>1. UNCHANGED <<count, slot, last, moved>>
      BY <1>9, <2>3 DEF CleanScan
    <3>2. /\ pos' \in [Procs -> Slots \cup {NotFound}]
          /\ pc' \in [Procs -> {"idle", "lock", "begin", "scan", "post",
                                 "search", "set", "get", "delete"}]
      BY <1>9, <2>1 DEF CleanScan, TypeOK
    <3> QED
      BY <1>9, <3>1, <3>2 DEF CleanScan, TypeOK
  <2> QED
    BY <2>2, <2>3
<1>10. ASSUME NEW p \in Procs, SemWait(p)
       PROVE  TypeOK'
  BY <1>10 DEF SemWait, SemFree, TypeOK
<1>11. ASSUME NEW p \in Procs, SemPost(p)
       PROVE  TypeOK'
  <2>1. sem = 0
    BY <1>11 DEF SemPost, Inside, MutualExclusion
  <2> QED
    BY <1>11, <2>1 DEF SemPost, TypeOK
<1>12. CASE Tick
  BY <1>12 DEF Tick, TypeOK
<1>13. CASE UNCHANGED vars
  BY <1>13 DEF vars, TypeOK
<1> QED
  BY <1>1, <1>2, <1>3, <1>4, <1>5, <1>6, <1>7, <1>8, <1>9, <1>10, <1>11,
     <1>12, <1>13 DEF Next, RunCommand

-----------------------------------------------------------------------------
(* What the processes know of the storage.                                  *)

\* While a process is inside, no other worker is deleting.
LEMMA Alone ==
  ASSUME MutualExclusion, NEW p \in Procs, Inside(p)
  PROVE  /\ \A q \in Procs \ {p} : ~Inside(q)
         /\ \A w \in Workers : Deleting(w) => w = p
BY DEF MutualExclusion, Inside, Deleting, Procs

\* So all that is below the count is an entry, but the gap of the deleter.
LEMMA UsedAlone ==
  ASSUME MutualExclusion, NEW p \in Procs, Inside(p)
  PROVE  /\ ~(p \in Workers /\ Deleting(p)) => Used = {i \in Slots : i < count}
         /\ p \in Workers /\ Deleting(p) =>
              Used = {i \in Slots : i < count /\ i # pos[p]}
BY Alone DEF Used

\* The same of the state after a step.
LEMMA UsedAloneNext ==
  ASSUME MutualExclusion', NEW p \in Procs, Inside(p)'
  PROVE  /\ ~(p \in Workers /\ Deleting(p)') => Used' = {i \in Slots : i < count'}
         /\ p \in Workers /\ Deleting(p)' =>
              Used' = {i \in Slots : i < count' /\ i # pos'[p]}
BY DEF Used, MutualExclusion, Inside, Deleting, Procs

\* A step that is not an update of the storage leaves the entries alone.
LEMMA SameUsed ==
  ASSUME count' = count, \A w \in Workers : Deleting(w)' <=> Deleting(w),
         \A w \in Workers : Deleting(w) => pos'[w] = pos[w]
  PROVE  Used' = Used
BY DEF Used

\* A step of the worker that is inside disturbs what that worker knows only.
LEMMA WorkerLocated ==
  ASSUME KvAssumption, MutualExclusion, Located, NEW w \in Workers, Inside(w),
         \A p \in Procs \ {w} : pc'[p] = pc[p],
         \A v \in Workers \ {w} : req'[v] = req[v],
         Knows(w)'
  PROVE  Located'
<1>1. w \in Procs /\ Master \in Procs \ {w} /\ Workers \subseteq Procs
  BY DEF Procs, KvAssumption
<1>2. \A q \in Procs \ {w} : pc[q] \in {"idle", "lock"}
  BY <1>1, Alone DEF Inside
<1>3. ASSUME NEW v \in Workers \ {w}
      PROVE  Knows(v)'
  <2>1. pc'[v] \in {"idle", "lock"}
    BY <1>1, <1>2
  <2>2. pc'[v] = "lock" => req'[v] \in Request
    BY <1>1 DEF Located, Knows
  <2> QED
    BY <2>1, <2>2 DEF Knows, Deleting
<1>4. pc'[Master] \in {"idle", "lock"}
  BY <1>1, <1>2
<1> QED
  BY <1>3, <1>4 DEF Located

\* Every step keeps what the processes know.
LEMMA LocatedStep ==
  ASSUME KvAssumption, TypeOK, MutualExclusion, Located, KeysUnique, [Next]_vars
  PROVE  Located'
<1>1. Workers \subseteq Procs /\ Master \in Procs /\ Master \notin Workers
  BY DEF Procs, KvAssumption
<1>2. MutualExclusion'
  BY LockStep
<1>3. ASSUME NEW w \in Workers, Receive(w)
      PROVE  Located'
  <2>1. ~Deleting(w) /\ ~Deleting(w)' /\ \A v \in Workers \ {w} : pc'[v] = pc[v]
    BY <1>1, <1>3 DEF Receive, Deleting, TypeOK
  <2>2. Used' = Used
    BY <1>3, <2>1, SameUsed DEF Receive, Deleting
  <2>3. Knows(w)'
    BY <1>1, <1>3 DEF Receive, Knows, Deleting, TypeOK
  <2>4. ASSUME NEW v \in Workers \ {w}
        PROVE  Knows(v)'
    BY <1>3, <2>1, <2>2 DEF Receive, Located, Knows, Deleting
  <2> QED
    BY <1>1, <1>3, <2>3, <2>4 DEF Receive, Located
<1>4. ASSUME NEW w \in Workers, Search(w)
      PROVE  Located'
  <2>1. /\ Inside(w) /\ Inside(w)' /\ ~Deleting(w)
        /\ req[w] \in Request /\ req[w].cmd \in {"set", "get", "delete"}
    BY <1>1, <1>4, RequestFields DEF Search, Inside, Deleting, Located, Knows, TypeOK
  <2>2. /\ pc'[w] = req[w].cmd
        /\ \A q \in Procs \ {w} : pc'[q] = pc[q]
        /\ UNCHANGED <<count, slot, req>>
    BY <1>1, <1>4 DEF Search, TypeOK
  <2>3. \/ pos'[w] = NotFound /\ \A i \in Slots : i < count => slot[i].key # req[w].key
        \/ pos'[w] \in Slots /\ pos'[w] < count /\ slot[pos'[w]].key = req[w].key
    BY <1>1, <1>4 DEF Search, Hits, TypeOK
  <2>4. Used = {i \in Slots : i < count}
    BY <1>1, <2>1, UsedAlone
  <2>5. Deleting(w)' => Used' = {i \in Slots : i < count /\ i # pos'[w]}
    BY <1>1, <1>2, <2>1, <2>2, UsedAloneNext
  <2>6. Deleting(w)' => \A i \in Used' : slot'[i].key # req'[w].key
    <3>1. pos'[w] # NotFound => pos'[w] \in Used
      BY <2>3, <2>4 DEF NotFound
    <3> QED
      BY <2>2, <2>3, <2>4, <2>5, <3>1 DEF KeysUnique, Deleting
  <2>7. Knows(w)'
    BY <2>1, <2>2, <2>3, <2>6 DEF Knows, NotFound, Slots, TypeOK
  <2> QED
    BY <2>1, <2>2, <2>7, WorkerLocated
<1>5. ASSUME NEW w \in Workers,
             SetOld(w) \/ SetNew(w) \/ SetFull(w) \/ Get(w) \/ DeleteMiss(w) \/ DeleteDrop(w)
      PROVE  Located'
  <2>1. Inside(w) /\ pc' = [pc EXCEPT ![w] = "post"] /\ req' = req
    BY <1>1, <1>5 DEF SetOld, SetNew, SetFull, Get, DeleteMiss, DeleteDrop,
                      Deleting, Finish, Inside
  <2>2. pc'[w] = "post" /\ \A q \in Procs \ {w} : pc'[q] = pc[q]
    BY <1>1, <2>1 DEF TypeOK
  <2>3. Knows(w)'
    BY <2>2 DEF Knows, Deleting
  <2> QED
    BY <2>1, <2>2, <2>3, WorkerLocated
<1>6. ASSUME NEW w \in Workers, DeleteShift(w)
      PROVE  Located'
  <2> DEFINE i == pos[w]
  <2>1. /\ pc[w] = "delete" /\ i # NotFound /\ i < count - 1
        /\ slot' = [slot EXCEPT ![i] = Pulled(i)]
        /\ pos' = [pos EXCEPT ![w] = i + 1]
        /\ UNCHANGED <<count, pc, req>>
    BY <1>6 DEF DeleteShift, Deleting, Advance
  <2>2. i \in Slots /\ i + 1 \in Slots /\ pos'[w] = i + 1
    BY <1>1, <2>1 DEF TypeOK, Slots, NotFound
  <2>3. Inside(w) /\ Inside(w)' /\ Deleting(w) /\ Deleting(w)'
    BY <2>1, <2>2 DEF Inside, Deleting, Slots, NotFound
  <2>4. /\ Used = {j \in Slots : j < count /\ j # i}
        /\ Used' = {j \in Slots : j < count /\ j # i + 1}
    BY <1>1, <1>2, <2>1, <2>2, <2>3, UsedAlone, UsedAloneNext
  <2>5. slot'[i].key = slot[i + 1].key
    BY <2>1, <2>2 DEF Pulled, TypeOK
  <2>6. \A j \in Slots \ {i} : slot'[j] = slot[j]
    BY <2>1 DEF TypeOK
  <2>7. \A j \in Used : slot[j].key # req[w].key
    BY <2>3 DEF Located, Knows
  <2> HIDE DEF i
  <2>8. \A j \in Used' : slot'[j].key # req[w].key
    <3> SUFFICES ASSUME NEW j \in Used'
                 PROVE  slot'[j].key # req[w].key
      OBVIOUS
    <3>1. CASE j = i
      <4>1. i + 1 \in Used
        BY <2>1, <2>2, <2>4 DEF Slots, TypeOK
      <4> QED
        BY <2>5, <2>7, <3>1, <4>1
    <3>2. CASE j # i
      BY <2>4, <2>6, <2>7, <3>2
    <3> QED
      BY <3>1, <3>2
  <2>9. Knows(w)'
    <3>1. pos'[w] < count' /\ pos'[w] # NotFound
      BY <2>1, <2>2 DEF Slots, NotFound, TypeOK
    <3> QED
      BY <2>1, <2>8, <3>1 DEF Located, Knows
  <2> QED
    BY <2>1, <2>3, <2>9, WorkerLocated
<1>7. CASE CleanCall \/ CleanBegin \/ CleanScan
  <2>1. /\ req' = req
        /\ \A v \in Workers : pc'[v] = pc[v]
        /\ pc'[Master] \in {"lock", "post", "scan"}
    BY <1>1, <1>7 DEF CleanCall, CleanBegin, CleanScan, TypeOK
  <2>2. ASSUME NEW v \in Workers
        PROVE  Knows(v)'
    <3>1. CASE CleanCall
      <4>1. Used' = Used
        BY <2>1, <3>1, SameUsed DEF CleanCall, Deleting
      <4> QED
        BY <2>1, <3>1, <4>1 DEF CleanCall, Located, Knows, Deleting
    <3>2. CASE CleanBegin \/ CleanScan
      <4>1. pc[v] \in {"idle", "lock"}
        BY <1>1, <3>2, Alone DEF CleanBegin, CleanScan, Inside
      <4> QED
        BY <2>1, <4>1 DEF Located, Knows, Deleting
    <3> QED
      BY <1>7, <3>1, <3>2
  <2>3. pc'[Master] = "scan" =>
          pos'[Master] \in Slots /\ pos'[Master] < count' /\ start' <= now'
    <3>1. CASE CleanCall
      BY <1>1, <3>1 DEF CleanCall, TypeOK
    <3>2. CASE CleanBegin
      BY <1>1, <3>2 DEF CleanBegin, Empty, TypeOK, Slots, KvAssumption
    <3>3. CASE CleanScan
      <4>1. /\ pos[Master] \in Slots /\ pos[Master] < count /\ start <= now
            /\ count \in Nat
        BY <3>3 DEF CleanScan, Located, TypeOK
      <4>2. /\ UNCHANGED <<start, now>>
            /\ count' \in {count, count - 1}
            /\ pc'[Master] = "scan" =>
                 pos[Master] # 0 /\ pos'[Master] = pos[Master] - 1
        BY <1>1, <3>3 DEF CleanScan, TypeOK
      <4> QED
        BY <4>1, <4>2 DEF Slots
    <3> QED
      BY <1>7, <3>1, <3>2, <3>3
  <2> QED
    BY <2>1, <2>2, <2>3 DEF Located
<1>8. ASSUME NEW p \in Procs, SemWait(p)
      PROVE  Located'
  <2>1. /\ \A q \in Procs \ {p} : pc'[q] = pc[q]
        /\ pc[p] = "lock"
        /\ pc'[p] = IF p = Master THEN "begin" ELSE "search"
        /\ UNCHANGED <<count, slot, pos, req, now, start>>
    BY <1>8 DEF SemWait, TypeOK
  <2>2. Used' = Used
    BY <1>1, <2>1, SameUsed DEF Deleting, Procs
  <2>3. ASSUME NEW v \in Workers
        PROVE  Knows(v)'
    <3>1. CASE v = p
      BY <1>1, <2>1, <3>1 DEF Located, Knows, Deleting
    <3>2. CASE v # p
      <4>1. pc'[v] = pc[v]
        BY <1>1, <2>1, <3>2
      <4> QED
        BY <2>1, <2>2, <4>1 DEF Located, Knows, Deleting
    <3> QED
      BY <3>1, <3>2
  <2>4. pc'[Master] \in {pc[Master], "begin"}
    BY <1>1, <2>1
  <2> QED
    BY <2>1, <2>3, <2>4 DEF Located
<1>9. ASSUME NEW p \in Procs, SemPost(p)
      PROVE  Located'
  <2>1. /\ pc[p] = "post" /\ pc'[p] = "idle"
        /\ \A q \in Procs \ {p} : pc'[q] = pc[q]
    BY <1>9 DEF SemPost, TypeOK
  <2>2. \A q \in Procs \ {p} : pc[q] \in {"idle", "lock"}
    BY <2>1, Alone DEF Inside
  <2>3. \A v \in Workers \ {p} : req'[v] = req[v]
    BY <1>9 DEF SemPost
  <2>4. ASSUME NEW v \in Workers
        PROVE  Knows(v)'
    <3>1. pc'[v] \in {"idle", "lock"}
      BY <1>1, <2>1, <2>2
    <3>2. pc'[v] = "lock" => req'[v] \in Request
      BY <1>1, <2>1, <2>3 DEF Located, Knows
    <3> QED
      BY <3>1, <3>2 DEF Knows, Deleting
  <2>5. pc'[Master] \in {"idle", "lock"}
    BY <1>1, <2>1, <2>2
  <2> QED
    BY <2>4, <2>5 DEF Located
<1>10. CASE Tick
  <2>1. Used' = Used
    BY <1>10, SameUsed DEF Tick, Deleting
  <2>2. \A v \in Workers : Knows(v)'
    BY <1>10, <2>1 DEF Tick, Located, Knows, Deleting
  <2>3. start \in Int /\ now \in Int /\ now' = now + 1
    BY <1>10 DEF Tick, TypeOK, KvAssumption
  <2> QED
    BY <1>10, <2>2, <2>3 DEF Tick, Located
<1>11. CASE UNCHANGED vars
  <2>1. Used' = Used
    BY <1>11 DEF vars, Used, Deleting
  <2> QED
    BY <1>11, <2>1 DEF vars, Located, Knows, Deleting
<1> QED
  BY <1>3, <1>4, <1>5, <1>6, <1>7, <1>8, <1>9, <1>10, <1>11 DEF Next, RunCommand

-----------------------------------------------------------------------------
(* What each kind of step does to the entries.                              *)

\* "set" on a stored key rewrites its entry.
LEMMA SetOldEffect ==
  ASSUME KvAssumption, TypeOK, MutualExclusion, Located, MutualExclusion',
         NEW w \in Workers, SetOld(w)
  PROVE  LET i == pos[w] IN
         /\ i \in Used /\ Used' = Used
         /\ slot[i].key = req[w].key
         /\ slot'[i].key = req[w].key
         /\ slot'[i].value = req[w].value
         /\ slot'[i].ttl = req[w].ttl /\ slot'[i].created = now
         /\ \A j \in Used \ {i} : slot'[j] = slot[j]
         /\ req[w].key \in Keys /\ NoteSet(req[w])
<1> DEFINE i == pos[w]
           e == [NewEntry(req[w]) EXCEPT !.key = slot[pos[w]].key]
<1>1. /\ pc[w] = "set" /\ i # NotFound
      /\ slot' = [slot EXCEPT ![i] = e]
      /\ count' = count
      /\ pc' = [pc EXCEPT ![w] = "post"]
      /\ NoteSet(req[w])
  BY DEF SetOld, Finish
<1>2. i \in Slots /\ i < count /\ slot[i].key = req[w].key /\ req[w].key \in Keys
  BY <1>1, RequestFields DEF Located, Knows, TypeOK, Procs
<1>3. w \in Procs /\ Inside(w) /\ Inside(w)' /\ ~Deleting(w) /\ ~Deleting(w)'
  BY <1>1 DEF Procs, Inside, Deleting, TypeOK
<1>4. /\ Used = {j \in Slots : j < count}
      /\ Used' = {j \in Slots : j < count'}
  BY <1>3, UsedAlone, UsedAloneNext
<1>5. e.key = req[w].key /\ e.value = req[w].value /\ e.ttl = req[w].ttl /\ e.created = now
  BY <1>2 DEF NewEntry
<1> HIDE DEF e
<1>6. slot'[i] = e /\ \A j \in Used \ {i} : slot'[j] = slot[j]
  BY <1>1, <1>2, <1>4 DEF TypeOK
<1> QED
  BY <1>1, <1>2, <1>4, <1>5, <1>6

\* "set" on a new key appends an entry; no entry has that key.
LEMMA SetNewEffect ==
  ASSUME KvAssumption, TypeOK, MutualExclusion, Located, MutualExclusion',
         NEW w \in Workers, SetNew(w)
  PROVE  /\ count \notin Used /\ Used' = Used \cup {count}
         /\ \A j \in Used : slot[j].key # req[w].key /\ slot'[j] = slot[j]
         /\ slot'[count].key = req[w].key
         /\ slot'[count].value = req[w].value
         /\ slot'[count].ttl = req[w].ttl /\ slot'[count].created = now
         /\ req[w].key \in Keys /\ NoteSet(req[w])
<1>1. /\ pc[w] = "set" /\ pos[w] = NotFound /\ count < Capacity
      /\ slot' = [slot EXCEPT ![count] = NewEntry(req[w])]
      /\ count' = count + 1
      /\ pc' = [pc EXCEPT ![w] = "post"]
      /\ NoteSet(req[w])
  BY DEF SetNew, HasRoom, Finish
<1>2. /\ count \in Slots /\ req[w].key \in Keys
      /\ \A i \in Slots : i < count => slot[i].key # req[w].key
  BY <1>1, RequestFields DEF Located, Knows, TypeOK, Slots, KvAssumption
<1>3. w \in Procs /\ Inside(w) /\ Inside(w)' /\ ~Deleting(w) /\ ~Deleting(w)'
  BY <1>1 DEF Procs, Inside, Deleting, TypeOK
<1>4. /\ Used = {j \in Slots : j < count}
      /\ Used' = {j \in Slots : j < count + 1}
  BY <1>1, <1>3, UsedAlone, UsedAloneNext
<1>5. count \notin Used /\ Used' = Used \cup {count}
  BY <1>2, <1>4 DEF Slots
<1>6. slot'[count] = NewEntry(req[w]) /\ \A j \in Used : slot'[j] = slot[j]
  BY <1>1, <1>2, <1>5 DEF TypeOK, Used
<1> QED
  BY <1>1, <1>2, <1>4, <1>5, <1>6 DEF NewEntry

\* A turn of the loop of "delete" moves one entry down by one: its key and value,
\* and nothing else.
LEMMA ShiftEffect ==
  ASSUME KvAssumption, TypeOK, MutualExclusion, Located, MutualExclusion',
         NEW w \in Workers, DeleteShift(w)
  PROVE  LET i == pos[w] IN
         /\ i \notin Used /\ i + 1 \in Used
         /\ Used' = (Used \ {i + 1}) \cup {i}
         /\ slot'[i].key = slot[i + 1].key /\ slot'[i].value = slot[i + 1].value
         /\ \A j \in Used \ {i + 1} : slot'[j] = slot[j]
         /\ \A j \in Used : slot[j].key # req[w].key
         /\ moved' = (moved \ {req[w].key}) \cup {slot[i + 1].key}
         /\ last' = last
<1> DEFINE i == pos[w]
<1>1. /\ pc[w] = "delete" /\ i # NotFound /\ i < count - 1
      /\ slot' = [slot EXCEPT ![i] = Pulled(i)]
      /\ pos' = [pos EXCEPT ![w] = i + 1]
      /\ moved' = (moved \ {req[w].key}) \cup {slot[i + 1].key}
      /\ UNCHANGED <<count, pc, req, last>>
  BY DEF DeleteShift, Deleting, Advance
<1>2. i \in Slots /\ i + 1 \in Slots /\ pos'[w] = i + 1 /\ w \in Procs
  BY <1>1 DEF TypeOK, Slots, NotFound, Procs, KvAssumption
<1>3. Inside(w) /\ Inside(w)' /\ Deleting(w) /\ Deleting(w)'
  BY <1>1, <1>2 DEF Inside, Deleting, Slots, NotFound
<1>4. /\ Used = {j \in Slots : j < count /\ j # i}
      /\ Used' = {j \in Slots : j < count /\ j # i + 1}
  BY <1>1, <1>2, <1>3, UsedAlone, UsedAloneNext
<1>5. slot'[i].key = slot[i + 1].key /\ slot'[i].value = slot[i + 1].value
  BY <1>1, <1>2 DEF Pulled, TypeOK
<1>6. \A j \in Slots \ {i} : slot'[j] = slot[j]
  BY <1>1 DEF TypeOK
<1>7. \A j \in Used : slot[j].key # req[w].key
  BY <1>3 DEF Located, Knows
<1> HIDE DEF i
<1>8. i \notin Used /\ i + 1 \in Used /\ Used' = (Used \ {i + 1}) \cup {i}
  BY <1>1, <1>2, <1>4 DEF Slots, TypeOK
<1> QED
  BY <1>1, <1>4, <1>5, <1>6, <1>7, <1>8 DEF i

\* The last step of "delete" only lowers the count: the gap has reached the end.
LEMMA DropEffect ==
  ASSUME KvAssumption, TypeOK, MutualExclusion, Located, MutualExclusion',
         NEW w \in Workers, DeleteDrop(w)
  PROVE  /\ Used' = Used /\ slot' = slot
         /\ \A j \in Used : slot[j].key # req[w].key
         /\ Forget(req[w].key)
<1>1. /\ pc[w] = "delete" /\ pos[w] # NotFound /\ pos[w] >= count - 1
      /\ count' = count - 1
      /\ pc' = [pc EXCEPT ![w] = "post"]
      /\ slot' = slot /\ Forget(req[w].key)
  BY DEF DeleteDrop, Deleting, Finish
<1>2. pos[w] \in Slots /\ pos[w] < count /\ w \in Procs
  BY <1>1 DEF Located, Knows, TypeOK, Procs
<1>3. Inside(w) /\ Inside(w)' /\ Deleting(w) /\ ~Deleting(w)'
  BY <1>1, <1>2 DEF Inside, Deleting, TypeOK
<1>4. /\ Used = {j \in Slots : j < count /\ j # pos[w]}
      /\ Used' = {j \in Slots : j < count - 1}
  BY <1>1, <1>2, <1>3, UsedAlone, UsedAloneNext
<1>5. Used' = Used
  BY <1>1, <1>2, <1>4 DEF TypeOK, Slots, KvAssumption
<1>6. \A j \in Used : slot[j].key # req[w].key
  BY <1>3 DEF Located, Knows
<1> QED
  BY <1>1, <1>5, <1>6

\* The scan removes an old entry: those after it come down by one, whole.
LEMMA ExpireEffect ==
  ASSUME KvAssumption, TypeOK, MutualExclusion, Located, MutualExclusion',
         CleanScan, Old(slot[pos[Master]])
  PROVE  LET c == pos[Master] IN
         /\ c \in Used
         /\ \A j \in Used' :
              \/ j < c /\ j \in Used /\ slot'[j] = slot[j]
              \/ j >= c /\ j + 1 \in Used /\ slot'[j] = slot[j + 1]
         /\ \A j \in Used \ {c} :
              \/ j \in Used' /\ slot'[j] = slot[j]
              \/ j - 1 \in Used' /\ slot'[j - 1] = slot[j]
         /\ slot[c].key \in Keys /\ Forget(slot[c].key)
         /\ start <= now
<1> DEFINE c == pos[Master]
<1>1. /\ pc[Master] = "scan"
      /\ slot' = Without(c) /\ count' = count - 1 /\ Forget(slot[c].key)
      /\ pc'[Master] \in {"scan", "post"}
  BY DEF CleanScan, TypeOK, Procs
<1>2. /\ c \in Slots /\ c < count /\ start <= now /\ Master \in Procs
      /\ slot[c].key \in Keys /\ Master \notin Workers
  BY <1>1 DEF Located, TypeOK, Procs, KvAssumption
<1>3. Inside(Master) /\ Inside(Master)'
  BY <1>1 DEF Inside
<1>4. /\ Used = {j \in Slots : j < count}
      /\ Used' = {j \in Slots : j < count - 1}
  BY <1>1, <1>2, <1>3, UsedAlone, UsedAloneNext
<1>5. \A j \in Slots :
        /\ j < c => slot'[j] = slot[j]
        /\ c <= j /\ j < count - 1 => slot'[j] = slot[j + 1]
  BY <1>1, <1>2 DEF Without, Slots, TypeOK, KvAssumption
<1> HIDE DEF c
<1>6. count \in 0 .. Capacity /\ Capacity \in Nat
  BY DEF TypeOK, KvAssumption
<1>7. \A j \in Used' :
        \/ j < c /\ j \in Used /\ slot'[j] = slot[j]
        \/ j >= c /\ j + 1 \in Used /\ slot'[j] = slot[j + 1]
  BY <1>2, <1>4, <1>5, <1>6 DEF Slots
<1> QED
  BY <1>1, <1>2, <1>4, <1>5, <1>6, <1>7 DEF Slots, c

\* All the other steps write nothing; the entries stay, but the one that a
\* delete finds stops being an entry.
LEMMA QuietEffect ==
  ASSUME KvAssumption, TypeOK, MutualExclusion, Located, MutualExclusion', [Next]_vars,
         \A w \in Workers : ~SetOld(w) /\ ~SetNew(w) /\ ~DeleteShift(w) /\ ~DeleteDrop(w),
         ~(CleanScan /\ Old(slot[pos[Master]]))
  PROVE  /\ UNCHANGED <<slot, last, moved>>
         /\ Used' \subseteq Used
         /\ \A i \in Used \ Used' : \E w \in Workers :
              pc[w] = "search" /\ req[w].cmd = "delete" /\ req[w].key = slot[i].key
<1>1. Workers \subseteq Procs /\ Master \in Procs /\ Master \notin Workers
  BY DEF Procs, KvAssumption
<1>2. ASSUME NEW w \in Workers, Search(w)
      PROVE  /\ UNCHANGED <<slot, last, moved>>
             /\ Used' \subseteq Used
             /\ \A i \in Used \ Used' :
                  pc[w] = "search" /\ req[w].cmd = "delete" /\ req[w].key = slot[i].key
  <2>1. /\ pc[w] = "search" /\ pc'[w] = req[w].cmd
        /\ UNCHANGED <<count, slot, last, moved>>
        /\ req[w].cmd \in {"set", "get", "delete"}
    BY <1>1, <1>2, RequestFields DEF Search, Located, Knows, TypeOK
  <2>2. Inside(w) /\ Inside(w)' /\ ~Deleting(w)
    BY <2>1 DEF Inside, Deleting
  <2>3. Used = {i \in Slots : i < count}
    BY <1>1, <2>2, UsedAlone
  <2>4. CASE Deleting(w)'
    <3>1. Used' = {i \in Slots : i < count /\ i # pos'[w]}
      BY <1>1, <2>1, <2>2, <2>4, UsedAloneNext
    <3>2. req[w].cmd = "delete" /\ pos'[w] # NotFound
      BY <2>1, <2>4 DEF Deleting
    <3>3. slot[pos'[w]].key = req[w].key
      BY <1>1, <1>2, <3>2 DEF Search, Hits, TypeOK
    <3> QED
      BY <2>1, <2>3, <3>1, <3>2, <3>3
  <2>5. CASE ~Deleting(w)'
    <3>1. Used' = {i \in Slots : i < count}
      BY <1>1, <2>1, <2>2, <2>5, UsedAloneNext
    <3> QED
      BY <2>1, <2>3, <3>1
  <2> QED
    BY <2>4, <2>5
<1>3. ASSUME NEW w \in Workers, Receive(w) \/ SetFull(w) \/ Get(w) \/ DeleteMiss(w)
      PROVE  UNCHANGED <<slot, last, moved>> /\ Used' = Used
  <2>1. /\ UNCHANGED <<count, slot, last, moved, pos>>
        /\ ~Deleting(w) /\ ~Deleting(w)'
        /\ \A v \in Workers \ {w} : pc'[v] = pc[v]
    BY <1>1, <1>3 DEF Receive, SetFull, Get, DeleteMiss, Finish, Deleting, TypeOK
  <2>2. \A v \in Workers : Deleting(v)' <=> Deleting(v)
    BY <2>1 DEF Deleting
  <2> QED
    BY <2>1, <2>2, SameUsed
<1>4. ASSUME CleanCall \/ CleanBegin \/ CleanScan
      PROVE  UNCHANGED <<slot, last, moved>> /\ Used' = Used
  <2>1. UNCHANGED <<count, slot, last, moved>>
    BY <1>4 DEF CleanCall, CleanBegin, CleanScan
  <2>2. \A v \in Workers : (Deleting(v)' <=> Deleting(v)) /\ pos'[v] = pos[v]
    BY <1>1, <1>4 DEF CleanCall, CleanBegin, CleanScan, Deleting, TypeOK
  <2> QED
    BY <2>1, <2>2, SameUsed
<1>5. ASSUME NEW p \in Procs, SemWait(p) \/ SemPost(p)
      PROVE  UNCHANGED <<slot, last, moved>> /\ Used' = Used
  <2>1. UNCHANGED <<count, slot, last, moved>>
    BY <1>5 DEF SemWait, SemPost
  <2>2. /\ \A q \in Procs \ {p} : pc'[q] = pc[q] /\ pos'[q] = pos[q]
        /\ pc[p] \in {"lock", "post"} /\ pc'[p] \in {"begin", "search", "idle"}
    BY <1>5 DEF SemWait, SemPost, TypeOK
  <2>3. \A v \in Workers : (Deleting(v)' <=> Deleting(v)) /\ (Deleting(v) => pos'[v] = pos[v])
    BY <1>1, <2>2 DEF Deleting
  <2> QED
    BY <2>1, <2>3, SameUsed
<1>6. ASSUME Tick \/ UNCHANGED vars
      PROVE  UNCHANGED <<slot, last, moved>> /\ Used' = Used
  BY <1>6 DEF Tick, vars, Used, Deleting
<1> QED
  BY <1>2, <1>3, <1>4, <1>5, <1>6 DEF Next, RunCommand

-----------------------------------------------------------------------------
(* The entries.                                                             *)

\* No step makes two entries with one key.
LEMMA KeysUniqueStep ==
  ASSUME KvAssumption, TypeOK, MutualExclusion, Located, KeysUnique, [Next]_vars
  PROVE  KeysUnique'
<1>1. MutualExclusion'
  BY LockStep
<1>2. ASSUME NEW w \in Workers, SetOld(w)
      PROVE  KeysUnique'
  <2>1. /\ Used' = Used
        /\ \A j \in Used : slot'[j].key = slot[j].key
    BY <1>1, <1>2, SetOldEffect
  <2> QED
    BY <2>1 DEF KeysUnique
<1>3. ASSUME NEW w \in Workers, SetNew(w)
      PROVE  KeysUnique'
  <2>1. /\ Used' = Used \cup {count}
        /\ slot'[count].key = req[w].key
        /\ \A j \in Used : slot'[j].key = slot[j].key /\ slot[j].key # req[w].key
    BY <1>1, <1>3, SetNewEffect
  <2> QED
    BY <2>1 DEF KeysUnique
<1>4. ASSUME NEW w \in Workers, DeleteShift(w)
      PROVE  KeysUnique'
  <2> DEFINE i == pos[w]
  <2>1. /\ i \notin Used /\ i + 1 \in Used
        /\ Used' = (Used \ {i + 1}) \cup {i}
        /\ slot'[i].key = slot[i + 1].key
        /\ \A j \in Used \ {i + 1} : slot'[j].key = slot[j].key
    BY <1>1, <1>4, ShiftEffect
  <2> QED
    BY <2>1 DEF KeysUnique
<1>5. ASSUME NEW w \in Workers, DeleteDrop(w)
      PROVE  KeysUnique'
  BY <1>1, <1>5, DropEffect DEF KeysUnique
<1>6. CASE CleanScan /\ Old(slot[pos[Master]])
  <2> DEFINE c == pos[Master]
  <2>1. \A j \in Used' : \/ j < c /\ j \in Used /\ slot'[j] = slot[j]
                         \/ j >= c /\ j + 1 \in Used /\ slot'[j] = slot[j + 1]
    BY <1>1, <1>6, ExpireEffect
  <2>2. c \in Int /\ Used' \subseteq Int
    BY <1>1, <1>6, ExpireEffect DEF Used, Slots
  <2> HIDE DEF c
  <2> QED
    BY <2>1, <2>2 DEF KeysUnique
<1>7. CASE /\ \A w \in Workers : ~SetOld(w) /\ ~SetNew(w) /\ ~DeleteShift(w) /\ ~DeleteDrop(w)
           /\ ~(CleanScan /\ Old(slot[pos[Master]]))
  BY <1>1, <1>7, QuietEffect DEF KeysUnique
<1> QED
  BY <1>2, <1>3, <1>4, <1>5, <1>6, <1>7

\* No step separates an entry from the times of its last "set", but the loop of
\* "delete", which notes the keys it moves.
LEMMA TtlExactStep ==
  ASSUME KvAssumption, TypeOK, MutualExclusion, Located, KeysUnique, TtlExact,
         [Next]_vars
  PROVE  TtlExact'
<1>1. MutualExclusion'
  BY LockStep
<1> USE DEF TtlExact
<1>2. ASSUME NEW w \in Workers, SetOld(w) \/ SetNew(w)
      PROVE  TtlExact'
  <2> DEFINE k == req[w].key
             new == IF pos[w] = NotFound THEN count ELSE pos[w]
  <2>1. /\ new \in Used' /\ Used' \ {new} \subseteq Used
        /\ slot'[new].key = k
        /\ slot'[new].ttl = req[w].ttl /\ slot'[new].created = now
        /\ \A j \in Used' \ {new} : slot'[j] = slot[j] /\ slot[j].key # k
        /\ k \in Keys /\ NoteSet(req[w])
    <3>1. CASE SetOld(w)
      <4>1. new = pos[w]
        BY <3>1 DEF SetOld
      <4> QED
        BY <1>1, <3>1, <4>1, SetOldEffect DEF KeysUnique
    <3>2. CASE SetNew(w)
      <4>1. new = count
        BY <3>2 DEF SetNew
      <4> QED
        BY <1>1, <3>2, <4>1, SetNewEffect
    <3> QED
      BY <1>2, <3>1, <3>2
  <2>2. /\ last'[k] = [ttl |-> req[w].ttl, created |-> now]
        /\ \A j \in Keys \ {k} : last'[j] = last[j]
        /\ moved' = moved \ {k}
    BY <2>1 DEF NoteSet, TypeOK
  <2>3. \A j \in Used : slot[j].key \in Keys
    BY DEF TypeOK, Used
  <2> HIDE DEF k, new
  <2>4. ASSUME NEW j \in Used', j # new, slot'[j].key \notin moved'
        PROVE  [ttl |-> slot'[j].ttl, created |-> slot'[j].created] = last'[slot'[j].key]
    <3>1. j \in Used /\ slot'[j] = slot[j] /\ slot[j].key \in Keys \ {k}
      BY <2>1, <2>3, <2>4
    <3>2. slot[j].key \notin moved /\ last'[slot[j].key] = last[slot[j].key]
      BY <2>2, <2>4, <3>1
    <3> QED
      BY <3>1, <3>2
  <2> QED
    BY <2>1, <2>2, <2>4
<1>3. ASSUME NEW w \in Workers, DeleteShift(w)
      PROVE  TtlExact'
  <2> DEFINE i == pos[w]
  <2>1. /\ Used' = (Used \ {i + 1}) \cup {i}
        /\ slot'[i].key = slot[i + 1].key
        /\ \A j \in Used \ {i + 1} : slot'[j] = slot[j]
        /\ \A j \in Used : slot[j].key # req[w].key
        /\ moved' = (moved \ {req[w].key}) \cup {slot[i + 1].key}
        /\ last' = last
    BY <1>1, <1>3, ShiftEffect
  <2> HIDE DEF i
  <2> QED
    BY <2>1
<1>4. ASSUME NEW w \in Workers, DeleteDrop(w)
      PROVE  TtlExact'
  <2>1. /\ Used' = Used /\ slot' = slot
        /\ \A j \in Used : slot[j].key # req[w].key /\ slot[j].key \in Keys
        /\ \A k \in Keys \ {req[w].key} : last'[k] = last[k]
        /\ moved' = moved \ {req[w].key}
    BY <1>1, <1>4, DropEffect DEF Forget, TypeOK, Used
  <2> QED
    BY <2>1
<1>5. CASE CleanScan /\ Old(slot[pos[Master]])
  <2> DEFINE c == pos[Master]
  <2>1. /\ c \in Used
        /\ \A j \in Used' : \/ j < c /\ j \in Used /\ slot'[j] = slot[j]
                            \/ j >= c /\ j + 1 \in Used /\ slot'[j] = slot[j + 1]
        /\ Forget(slot[c].key)
    BY <1>1, <1>5, ExpireEffect
  <2>2. c \in Int /\ Used' \subseteq Int /\ \A j \in Used : slot[j].key \in Keys
    BY <2>1 DEF Used, Slots, TypeOK
  <2>3. /\ \A k \in Keys \ {slot[c].key} : last'[k] = last[k]
        /\ moved' = moved \ {slot[c].key}
    BY <2>1 DEF Forget, TypeOK
  <2> HIDE DEF c
  <2>4. ASSUME NEW j \in Used'
        PROVE  \E i \in Used \ {c} : slot'[j] = slot[i]
    <3>1. CASE j < c /\ j \in Used /\ slot'[j] = slot[j]
      <4>1. j # c
        BY <2>2, <3>1
      <4> QED
        BY <3>1, <4>1
    <3>2. CASE j >= c /\ j + 1 \in Used /\ slot'[j] = slot[j + 1]
      <4>1. j + 1 # c
        BY <2>2, <3>2
      <4> QED
        BY <3>2, <4>1
    <3> QED
      BY <2>1, <3>1, <3>2
  <2>5. \A i \in Used \ {c} : slot[i].key \in Keys \ {slot[c].key}
    BY <2>1, <2>2 DEF KeysUnique
  <2>6. ASSUME NEW j \in Used', slot'[j].key \notin moved'
        PROVE  [ttl |-> slot'[j].ttl, created |-> slot'[j].created] = last'[slot'[j].key]
    <3>1. PICK i \in Used \ {c} : slot'[j] = slot[i]
      BY <2>4
    <3>2. slot[i].key \notin moved /\ last'[slot[i].key] = last[slot[i].key]
      BY <2>3, <2>5, <2>6, <3>1
    <3> QED
      BY <3>1, <3>2
  <2> QED
    BY <2>6
<1>6. CASE /\ \A w \in Workers : ~SetOld(w) /\ ~SetNew(w) /\ ~DeleteShift(w) /\ ~DeleteDrop(w)
           /\ ~(CleanScan /\ Old(slot[pos[Master]]))
  BY <1>1, <1>6, QuietEffect
<1> QED
  BY <1>2, <1>3, <1>4, <1>5, <1>6

-----------------------------------------------------------------------------
(* Entries that leave.                                                      *)

\* An entry that is in no slot after a step was found by a delete or is old.
LEMMA LeaveStep ==
  ASSUME KvAssumption, IInv, [Next]_vars, NEW k \in Keys, Present(k), ~Present(k)'
  PROVE  MayLeave(k)
<1> USE DEF IInv
<1>1. MutualExclusion'
  BY LockStep
<1>2. PICK i \in Used : slot[i].key = k
  BY DEF Present
<1>3. \A j \in Used' : slot'[j].key # k
  BY DEF Present
<1>4. ASSUME NEW w \in Workers, SetOld(w) \/ SetNew(w) \/ DeleteDrop(w)
      PROVE  FALSE
  <2>1. i \in Used' /\ slot'[i].key = slot[i].key
    BY <1>1, <1>2, <1>4, SetOldEffect, SetNewEffect, DropEffect
  <2> QED
    BY <1>2, <1>3, <2>1
<1>5. ASSUME NEW w \in Workers, DeleteShift(w)
      PROVE  FALSE
  <2>1. /\ Used' = (Used \ {pos[w] + 1}) \cup {pos[w]}
        /\ slot'[pos[w]].key = slot[pos[w] + 1].key
        /\ \A j \in Used \ {pos[w] + 1} : slot'[j] = slot[j]
    BY <1>1, <1>5, ShiftEffect
  <2> QED
    BY <1>2, <1>3, <2>1
<1>6. ASSUME CleanScan, Old(slot[pos[Master]])
      PROVE  k \in moved \/ Expired(k)
  <2> DEFINE c == pos[Master]
  <2>1. /\ c \in Used /\ start <= now
        /\ \A j \in Used \ {c} : \/ j \in Used' /\ slot'[j] = slot[j]
                                 \/ j - 1 \in Used' /\ slot'[j - 1] = slot[j]
    BY <1>1, <1>6, ExpireEffect
  <2>2. i = c
    BY <1>2, <1>3, <2>1
  <2>3. k \notin moved => last[k].ttl = slot[i].ttl /\ last[k].created = slot[i].created
    <3>1. k \notin moved => [ttl |-> slot[i].ttl, created |-> slot[i].created] = last[k]
      BY <1>2 DEF TtlExact
    <3> QED
      BY <3>1
  <2>4. slot[i].ttl > 0 /\ start - slot[i].created > slot[i].ttl
    BY <1>6, <2>2 DEF Old
  <2>5. slot[i].ttl \in Int /\ slot[i].created \in Int /\ start \in Int /\ now \in Int
    BY <1>2 DEF TypeOK, Entry, Used, KvAssumption
  <2>6. now - slot[i].created > slot[i].ttl
    BY <2>1, <2>4, <2>5
  <2> QED
    BY <2>3, <2>4, <2>6 DEF Expired
<1>7. CASE /\ \A w \in Workers : ~SetOld(w) /\ ~SetNew(w) /\ ~DeleteShift(w) /\ ~DeleteDrop(w)
           /\ ~(CleanScan /\ Old(slot[pos[Master]]))
  <2>1. i \notin Used'
    BY <1>1, <1>2, <1>3, <1>7, QuietEffect
  <2> QED
    BY <1>1, <1>2, <1>7, <2>1, QuietEffect DEF MayLeave
<1> QED
  BY <1>4, <1>5, <1>6, <1>7 DEF MayLeave

-----------------------------------------------------------------------------
(* What the clients see.                                                    *)

\* A worker has a command from the moment it starts to its answer, and an answer
\* when the command is done.
HasAnswer ==
  \A w \in Workers :
    /\ pc[w] = "idle" <=> req[w] = Nothing
    /\ pc[w] = "post" <=> reply[w] # Nothing

LInv == IInv /\ HasAnswer

Held(v) == [present |-> TRUE, value |-> v]
Absent == [present |-> FALSE]

\* The map and the answers that KvStore stands for.
StoredMap ==
  [k \in Keys |-> IF Present(k) THEN [present |-> TRUE, value |-> slot[EntryOf(k)].value]
                  ELSE [present |-> FALSE]]
Answers == [w \in Workers |-> IF Deleting(w) THEN Done(0) ELSE reply[w]]

LEMMA Distinct ==
  /\ \A r \in Request : r # Nothing
  /\ \A r \in Result : r # Nothing
  /\ \A v : Held(v) # Absent
BY DEF Request, Result, Nothing, Held, Absent

\* A step that lets at most one worker change what it runs.
LEMMA HasAnswerStep ==
  ASSUME KvAssumption, IInv, HasAnswer, [Next]_vars
  PROVE  HasAnswer'
<1> USE DEF IInv, HasAnswer
<1>1. Workers \subseteq Procs /\ Master \in Procs /\ Master \notin Workers
  BY DEF Procs, KvAssumption
<1>2. ASSUME NEW w \in Workers, Receive(w)
      PROVE  HasAnswer'
  BY <1>1, <1>2, Distinct DEF Receive, TypeOK
<1>3. ASSUME NEW w \in Workers, Search(w)
      PROVE  HasAnswer'
  <2>1. req[w].cmd \in {"set", "get", "delete"}
    BY <1>3, RequestFields DEF Search, Located, Knows
  <2>2. req' = req /\ reply' = reply /\ pc' = [pc EXCEPT ![w] = req[w].cmd]
    BY <1>3 DEF Search
  <2>3. req[w] # Nothing /\ reply[w] = Nothing
    BY <1>3 DEF Search
  <2> QED
    BY <1>1, <2>1, <2>2, <2>3 DEF TypeOK
<1>4. ASSUME NEW w \in Workers, NEW r \in Result, Finish(w, r), pc[w] # "idle"
      PROVE  HasAnswer'
  BY <1>1, <1>4, Distinct DEF Finish, TypeOK
<1>5. ASSUME NEW w \in Workers, SetOld(w) \/ SetNew(w) \/ SetFull(w) \/ DeleteMiss(w) \/ DeleteDrop(w)
      PROVE  HasAnswer'
  <2>1. Finish(w, Done(0)) \/ Finish(w, Failed)
    BY <1>5 DEF SetOld, SetNew, SetFull, DeleteMiss, DeleteDrop
  <2>2. pc[w] # "idle"
    BY <1>5 DEF SetOld, SetNew, SetFull, DeleteMiss, DeleteDrop, Deleting
  <2> QED
    BY <1>4, <2>1, <2>2, Records
<1>6. ASSUME NEW w \in Workers, Get(w)
      PROVE  HasAnswer'
  <2> DEFINE r == IF pos[w] = NotFound THEN Failed ELSE Done(slot[pos[w]].value)
  <2>1. r \in Result
    <3>1. pos[w] # NotFound => slot[pos[w]].value \in Int
      BY <1>1, <1>6 DEF Get, TypeOK, Entry
    <3> QED
      BY <3>1, Records
  <2>2. Finish(w, r) /\ pc[w] # "idle"
    BY <1>6 DEF Get
  <2> HIDE DEF r
  <2> QED
    BY <1>4, <2>1, <2>2
<1>7. ASSUME NEW w \in Workers, DeleteShift(w)
      PROVE  HasAnswer'
  BY <1>7 DEF DeleteShift
<1>8. ASSUME CleanCall \/ CleanBegin \/ CleanScan
      PROVE  HasAnswer'
  BY <1>1, <1>8 DEF CleanCall, CleanBegin, CleanScan, TypeOK
<1>9. ASSUME NEW p \in Procs, SemWait(p)
      PROVE  HasAnswer'
  BY <1>1, <1>9 DEF SemWait, TypeOK
<1>10. ASSUME NEW p \in Procs, SemPost(p)
       PROVE  HasAnswer'
  BY <1>1, <1>10 DEF SemPost, TypeOK
<1>11. CASE Tick \/ UNCHANGED vars
  BY <1>11 DEF Tick, vars
<1> QED
  BY <1>2, <1>3, <1>5, <1>6, <1>7, <1>8, <1>9, <1>10, <1>11 DEF Next, RunCommand

\* With one entry per key, the map is what the entries hold.
LEMMA MapAt ==
  KeysUnique =>
    /\ \A i \in Used : slot[i].key \in Keys => StoredMap[slot[i].key] = Held(slot[i].value)
    /\ \A k \in Keys : ~Present(k) => StoredMap[k] = Absent
<1> SUFFICES ASSUME KeysUnique
             PROVE  /\ \A i \in Used : slot[i].key \in Keys =>
                         StoredMap[slot[i].key] = Held(slot[i].value)
                    /\ \A k \in Keys : ~Present(k) => StoredMap[k] = Absent
  OBVIOUS
<1>1. ASSUME NEW i \in Used, slot[i].key \in Keys
      PROVE  StoredMap[slot[i].key] = Held(slot[i].value)
  <2>1. Present(slot[i].key)
    BY DEF Present
  <2>2. EntryOf(slot[i].key) \in Used /\ slot[EntryOf(slot[i].key)].key = slot[i].key
    BY <2>1, Zenon DEF Present, EntryOf
  <2>3. EntryOf(slot[i].key) = i
    BY <2>2 DEF KeysUnique
  <2> QED
    BY <1>1, <2>1, <2>3 DEF StoredMap, Held
<1>2. ASSUME NEW k \in Keys, ~Present(k)
      PROVE  StoredMap[k] = Absent
  BY <1>2 DEF StoredMap, Absent
<1> QED
  BY <1>1, <1>2

\* The same of the state after a step.
LEMMA MapAtNext ==
  ASSUME KeysUnique'
  PROVE  /\ \A i \in Used' : slot'[i].key \in Keys =>
              StoredMap'[slot'[i].key] = Held(slot'[i].value)
         /\ \A k \in Keys : ~Present(k)' => StoredMap'[k] = Absent
<1>1. (KeysUnique =>
        /\ \A i \in Used : slot[i].key \in Keys => StoredMap[slot[i].key] = Held(slot[i].value)
        /\ \A k \in Keys : ~Present(k) => StoredMap[k] = Absent)'
  BY MapAt, PTL
<1> QED
  BY <1>1 DEF Held, Absent

\* When no delete is under way, the map has as many keys as there are entries.
LEMMA StoredCount ==
  ASSUME KvAssumption, TypeOK, KeysUnique, Used = {i \in Slots : i < count}
  PROVE  Cardinality(KvMapOf!Stored(StoredMap)) = count
<1> DEFINE S == {k \in Keys : StoredMap[k] # Absent}
           f == [i \in 0 .. count - 1 |-> slot[i].key]
<1>1. count \in Nat /\ Used = 0 .. count - 1
  BY DEF TypeOK, Slots, KvAssumption
<1>2. \A i \in 0 .. count - 1 : slot[i].key \in Keys
  BY <1>1 DEF TypeOK, Used
<1>3. f \in [0 .. count - 1 -> S]
  <2>1. \A i \in 0 .. count - 1 : StoredMap[slot[i].key] = Held(slot[i].value)
    BY <1>1, <1>2, MapAt
  <2> QED
    BY <1>2, <2>1, Distinct
<1>4. \A i, j \in 0 .. count - 1 : f[i] = f[j] => i = j
  BY <1>1 DEF KeysUnique
<1>5. ASSUME NEW k \in S
      PROVE  \E i \in 0 .. count - 1 : f[i] = k
  <2>1. Present(k)
    BY MapAt
  <2> QED
    BY <1>1, <2>1 DEF Present
<1> HIDE DEF f, S
<1>6. f \in Bijection(0 .. count - 1, S)
  BY <1>3, <1>4, <1>5 DEF Bijection, Injection, Surjection, IsInjective
<1>7. ExistsBijection(0 .. count - 1, S)
  BY <1>6 DEF ExistsBijection
<1>8. IsFiniteSet(0 .. count - 1) /\ Cardinality(0 .. count - 1) = count
  BY <1>1, FS_Interval
<1>9. Cardinality(S) = count
  BY <1>7, <1>8, FS_Bijection
<1>10. S = KvMapOf!Stored(StoredMap)
  BY DEF S, KvMapOf!Stored, KvMapOf!Absent, Absent, StoredMap
<1> QED
  BY <1>9, <1>10

\* Two maps that agree on every key are one.
LEMMA SameMap ==
  ASSUME \A k \in Keys : StoredMap'[k] = StoredMap[k]
  PROVE  StoredMap' = StoredMap
BY DEF StoredMap

LEMMA MapChange ==
  ASSUME NEW k \in Keys, NEW v, StoredMap'[k] = v,
         \A j \in Keys \ {k} : StoredMap'[j] = StoredMap[j]
  PROVE  StoredMap' = [StoredMap EXCEPT ![k] = v]
<1>1. \A j \in Keys : StoredMap'[j] = IF j = k THEN v ELSE StoredMap[j]
  OBVIOUS
<1>2. StoredMap' = [j \in Keys |-> StoredMap'[j]]
  BY DEF StoredMap
<1> QED
  BY <1>1, <1>2 DEF StoredMap

\* Entries that keep key and value, wherever they are, leave the key as it is.
LEMMA KeyStays ==
  ASSUME TypeOK, KeysUnique, KeysUnique', NEW k \in Keys,
         \A i \in Used : slot[i].key = k =>
           \E j \in Used' : slot'[j].key = k /\ slot'[j].value = slot[i].value,
         \A j \in Used' : slot'[j].key = k => \E i \in Used : slot[i].key = k
  PROVE  StoredMap'[k] = StoredMap[k]
<1>1. CASE Present(k)
  <2>1. PICK i \in Used : slot[i].key = k
    BY <1>1 DEF Present
  <2>2. PICK j \in Used' : slot'[j].key = k /\ slot'[j].value = slot[i].value
    BY <2>1
  <2> QED
    BY <2>1, <2>2, MapAt, MapAtNext
<1>2. CASE ~Present(k)
  <2>1. ~Present(k)'
    BY <1>2 DEF Present
  <2> QED
    BY <1>2, <2>1, MapAt, MapAtNext
<1> QED
  BY <1>1, <1>2

\* One worker's answer is fixed.
LEMMA AnswerChange ==
  ASSUME NEW w \in Workers, NEW r, Answers'[w] = r,
         \A v \in Workers \ {w} : Answers'[v] = Answers[v]
  PROVE  Answers' = [Answers EXCEPT ![w] = r]
<1>1. \A v \in Workers : Answers'[v] = IF v = w THEN r ELSE Answers[v]
  OBVIOUS
<1>2. Answers' = [v \in Workers |-> Answers'[v]]
  BY DEF Answers
<1> QED
  BY <1>1, <1>2 DEF Answers

LEMMA SameAnswers ==
  ASSUME \A w \in Workers : Answers'[w] = Answers[w]
  PROVE  Answers' = Answers
BY DEF Answers

\* A worker that finishes with a result fixes that answer and no other.
LEMMA FinishAnswers ==
  ASSUME KvAssumption, TypeOK, NEW w \in Workers, NEW r, Finish(w, r), pos' = pos
  PROVE  /\ Answers'[w] = r
         /\ \A v \in Workers \ {w} : Answers'[v] = Answers[v]
BY DEF Finish, Answers, Deleting, TypeOK, Procs

\* The step of KvMap in the words of this module.
Perform(w) ==
  /\ req[w] # Nothing /\ Answers[w] = Nothing
  /\ LET r == req[w] IN
       \/ /\ r.cmd = "set"
          /\ StoredMap[r.key] # Absent \/ Cardinality(KvMapOf!Stored(StoredMap)) < Capacity
          /\ StoredMap' = [StoredMap EXCEPT ![r.key] = Held(r.value)]
          /\ Answers' = [Answers EXCEPT ![w] = Done(0)]
       \/ /\ r.cmd = "set"
          /\ StoredMap[r.key] = Absent /\ Cardinality(KvMapOf!Stored(StoredMap)) = Capacity
          /\ Answers' = [Answers EXCEPT ![w] = Failed]
          /\ StoredMap' = StoredMap
       \/ /\ r.cmd = "get"
          /\ Answers' = [Answers EXCEPT ![w] =
               IF StoredMap[r.key] = Absent THEN Failed ELSE Done(StoredMap[r.key].value)]
          /\ StoredMap' = StoredMap
       \/ /\ r.cmd = "delete"
          /\ StoredMap' = [StoredMap EXCEPT ![r.key] = Absent]
          /\ Answers' = [Answers EXCEPT ![w] =
               IF StoredMap[r.key] = Absent THEN Failed ELSE Done(0)]
  /\ req' = req

LEMMA CountsAlike == \A S : KvMapOf!Cardinality(S) = Cardinality(S)
BY DEF KvMapOf!Cardinality, Cardinality

LEMMA PerformIs ==
  ASSUME NEW w \in Workers, Perform(w)
  PROVE  KvMapOf!Perform(w)
BY CountsAlike DEF Perform, KvMapOf!Perform, KvMapOf!Done, KvMapOf!Failed, KvMapOf!Held, KvMapOf!Absent,
       KvMapOf!Nothing, Done, Failed, Held, Absent, Nothing, StoredMap, Answers

\* The updates of "set" are the step of KvMap.
LEMMA SetRefines ==
  ASSUME KvAssumption, LInv, MutualExclusion', KeysUnique', NEW w \in Workers,
         SetOld(w) \/ SetNew(w) \/ SetFull(w)
  PROVE  Perform(w)
<1> USE DEF LInv, IInv
<1> DEFINE k == req[w].key
<1>1. /\ pc[w] = "set" /\ req' = req /\ pos' = pos
      /\ req[w] \in Request /\ req[w].cmd = "set" /\ k \in Keys
    BY RequestFields DEF SetOld, SetNew, SetFull, Finish, Located, Knows
<1>2. w \in Procs /\ Inside(w) /\ ~Deleting(w)
  BY <1>1 DEF Procs, Inside, Deleting
<1>3. req[w] # Nothing /\ Answers[w] = Nothing
  BY <1>1, <1>2, Distinct DEF HasAnswer, Answers
<1>4. Used = {i \in Slots : i < count}
  BY <1>2, UsedAlone
<1>5. Cardinality(KvMapOf!Stored(StoredMap)) = count
  BY <1>4, StoredCount
<1>6. ASSUME SetOld(w) \/ SetNew(w)
      PROVE  Answers' = [Answers EXCEPT ![w] = Done(0)]
  BY <1>1, <1>6, FinishAnswers, AnswerChange DEF SetOld, SetNew
<1>7. CASE SetOld(w)
  <2> DEFINE i == pos[w]
  <2>1. /\ i \in Used /\ Used' = Used
        /\ slot[i].key = k /\ slot'[i].key = k /\ slot'[i].value = req[w].value
        /\ \A j \in Used \ {i} : slot'[j] = slot[j]
    BY <1>7, SetOldEffect
  <2>2. StoredMap[k] # Absent
    BY <1>1, <2>1, MapAt, Distinct
  <2>3. StoredMap'[k] = Held(req[w].value)
    BY <1>1, <2>1, MapAtNext
  <2>4. ASSUME NEW j \in Keys \ {k}
        PROVE  StoredMap'[j] = StoredMap[j]
    BY <2>1, KeyStays
  <2>5. StoredMap' = [StoredMap EXCEPT ![k] = Held(req[w].value)]
    BY <1>1, <2>3, <2>4, MapChange
  <2> QED
    BY <1>1, <1>3, <1>6, <1>7, <2>2, <2>5
       DEF Perform
<1>8. ASSUME SetNew(w) \/ SetFull(w)
      PROVE  StoredMap[k] = Absent
  <2>1. ~Present(k)
    BY <1>1, <1>4, <1>8 DEF SetNew, SetFull, Located, Knows, Present
  <2> QED
    BY <1>1, <2>1, MapAt
<1>9. CASE SetNew(w)
  <2>1. /\ count \notin Used /\ Used' = Used \cup {count}
        /\ \A j \in Used : slot[j].key # k /\ slot'[j] = slot[j]
        /\ slot'[count].key = k /\ slot'[count].value = req[w].value
    BY <1>9, SetNewEffect
  <2>2. count < Capacity
    BY <1>9 DEF SetNew, HasRoom
  <2>3. StoredMap'[k] = Held(req[w].value)
    BY <1>1, <2>1, MapAtNext
  <2>4. ASSUME NEW j \in Keys \ {k}
        PROVE  StoredMap'[j] = StoredMap[j]
    BY <2>1, KeyStays
  <2>5. StoredMap' = [StoredMap EXCEPT ![k] = Held(req[w].value)]
    BY <1>1, <2>3, <2>4, MapChange
  <2> QED
    BY <1>1, <1>3, <1>5, <1>6, <1>9, <2>2, <2>5
       DEF Perform
<1>10. CASE SetFull(w)
  <2>1. count = Capacity
    BY <1>10 DEF SetFull, HasRoom, TypeOK, KvAssumption
  <2>2. Answers' = [Answers EXCEPT ![w] = Failed]
    BY <1>1, <1>10, FinishAnswers, AnswerChange DEF SetFull
  <2>3. slot' = slot /\ Used' = Used
    <3>1. \A v \in Workers : Deleting(v)' <=> Deleting(v)
      BY <1>1, <1>10 DEF SetFull, Finish, Deleting, TypeOK, Procs
    <3> QED
      BY <1>1, <1>10, <3>1, SameUsed DEF SetFull
  <2>4. StoredMap' = StoredMap
    BY <2>3, KeyStays, SameMap
  <2> QED
    BY <1>1, <1>3, <1>5, <1>8, <1>10, <2>1, <2>2, <2>4
       DEF Perform
<1> QED
  BY <1>7, <1>9, <1>10

\* Of the searches, the one that finds the entry to delete is the step of KvMap.
LEMMA SearchRefines ==
  ASSUME KvAssumption, LInv, MutualExclusion', KeysUnique', NEW w \in Workers, Search(w)
  PROVE  Perform(w) \/ UNCHANGED <<StoredMap, req, Answers>>
<1> USE DEF LInv, IInv
<1> DEFINE k == req[w].key
<1>1. /\ pc[w] = "search" /\ req' = req /\ reply' = reply /\ slot' = slot /\ count' = count
      /\ pc' = [pc EXCEPT ![w] = req[w].cmd]
      /\ req[w] \in Request /\ req[w].cmd \in {"set", "get", "delete"} /\ k \in Keys
  BY RequestFields DEF Search, Located, Knows
<1>2. /\ w \in Procs /\ Inside(w) /\ Inside(w)' /\ ~Deleting(w)
      /\ \A v \in Workers \ {w} : Deleting(v)' <=> Deleting(v)
  BY <1>1 DEF Search, Procs, Inside, Deleting, TypeOK
<1>3. req[w] # Nothing /\ Answers[w] = Nothing
  BY <1>1, <1>2, Distinct DEF HasAnswer, Answers
<1>4. Used = {i \in Slots : i < count}
  BY <1>2, UsedAlone
<1>5. \A v \in Workers \ {w} : Answers'[v] = Answers[v]
  BY <1>1, <1>2 DEF Answers
<1>6. CASE Deleting(w)'
  <2>1. req[w].cmd = "delete" /\ pos'[w] # NotFound
    BY <1>1, <1>2, <1>6 DEF Deleting, TypeOK
  <2>2. pos'[w] \in Used /\ slot[pos'[w]].key = k
    BY <1>2, <1>4, <2>1 DEF Search, Hits, TypeOK
  <2>3. Used' = Used \ {pos'[w]}
    BY <1>1, <1>2, <1>4, <1>6, UsedAloneNext
  <2>4. StoredMap[k] # Absent
    BY <1>1, <2>2, MapAt, Distinct
  <2>5. ~Present(k)'
    BY <1>1, <2>2, <2>3 DEF Present, KeysUnique
  <2>6. StoredMap'[k] = Absent
    BY <1>1, <2>5, MapAtNext
  <2>7. ASSUME NEW j \in Keys \ {k}
        PROVE  StoredMap'[j] = StoredMap[j]
    BY <1>1, <2>2, <2>3, KeyStays
  <2>8. StoredMap' = [StoredMap EXCEPT ![k] = Absent]
    BY <1>1, <2>6, <2>7, MapChange
  <2>9. Answers' = [Answers EXCEPT ![w] = Done(0)]
    <3>1. Answers'[w] = Done(0)
      BY <1>6 DEF Answers
    <3> QED
      BY <1>5, <3>1, AnswerChange
  <2> QED
    BY <1>1, <1>3, <2>1, <2>4, <2>8, <2>9 DEF Perform
<1>7. CASE ~Deleting(w)'
  <2>1. Used' = Used
    BY <1>1, <1>2, <1>4, <1>7, UsedAloneNext
  <2>2. StoredMap' = StoredMap
    BY <1>1, <2>1, KeyStays, SameMap
  <2>3. Answers'[w] = Answers[w]
    BY <1>1, <1>2, <1>7 DEF Answers
  <2> QED
    BY <1>1, <1>5, <2>2, <2>3, SameAnswers
<1> QED
  BY <1>6, <1>7

\* "get", and "delete" of a key that is not there, are the step of KvMap.
LEMMA ReadRefines ==
  ASSUME KvAssumption, LInv, KeysUnique', NEW w \in Workers, Get(w) \/ DeleteMiss(w)
  PROVE  Perform(w)
<1> USE DEF LInv, IInv
<1> DEFINE k == req[w].key
<1>1. /\ req' = req /\ pos' = pos /\ slot' = slot /\ count' = count
      /\ pc[w] \in {"get", "delete"} /\ pc' = [pc EXCEPT ![w] = "post"]
      /\ pc[w] = "delete" => pos[w] = NotFound
      /\ req[w] \in Request /\ req[w].cmd = pc[w] /\ k \in Keys
  BY RequestFields DEF Get, DeleteMiss, Finish, Located, Knows
<1>2. /\ w \in Procs /\ Inside(w) /\ ~Deleting(w)
      /\ \A v \in Workers : Deleting(v)' <=> Deleting(v)
  BY <1>1 DEF Procs, Inside, Deleting, TypeOK
<1>3. req[w] # Nothing /\ Answers[w] = Nothing
  BY <1>1, <1>2, Distinct DEF HasAnswer, Answers
<1>4. Used = {i \in Slots : i < count} /\ Used' = Used
  BY <1>1, <1>2, UsedAlone, SameUsed
<1>5. StoredMap' = StoredMap
  BY <1>1, <1>4, KeyStays, SameMap
<1>6. CASE pos[w] = NotFound
  <2>1. ~Present(k)
    BY <1>1, <1>4, <1>6 DEF Located, Knows, Present
  <2>2. StoredMap[k] = Absent
    BY <1>1, <2>1, MapAt
  <2>3. Answers' = [Answers EXCEPT ![w] = Failed]
    BY <1>1, <1>6, FinishAnswers, AnswerChange DEF Get, DeleteMiss
  <2>4. [StoredMap EXCEPT ![k] = Absent] = StoredMap
    BY <2>2 DEF StoredMap
  <2> QED
    BY <1>1, <1>3, <1>5, <2>2, <2>3, <2>4 DEF Perform
<1>7. CASE pos[w] # NotFound
  <2>1. pc[w] = "get" /\ pos[w] \in Used /\ slot[pos[w]].key = k
    BY <1>1, <1>2, <1>4, <1>7 DEF Located, Knows, TypeOK
  <2>2. StoredMap[k] = Held(slot[pos[w]].value)
    BY <1>1, <2>1, MapAt
  <2>3. StoredMap[k] # Absent /\ StoredMap[k].value = slot[pos[w]].value
    BY <2>2, Distinct DEF Held
  <2>4. Answers' = [Answers EXCEPT ![w] = Done(slot[pos[w]].value)]
    BY <1>1, <1>7, <2>1, FinishAnswers, AnswerChange DEF Get, DeleteMiss
  <2> QED
    BY <1>1, <1>3, <1>5, <2>1, <2>3, <2>4 DEF Perform
<1> QED
  BY <1>6, <1>7

\* The loop of "delete" changes nothing that a client could see.
LEMMA DeleteRefines ==
  ASSUME KvAssumption, LInv, MutualExclusion', KeysUnique', NEW w \in Workers,
         DeleteShift(w) \/ DeleteDrop(w)
  PROVE  UNCHANGED <<StoredMap, req, Answers>>
<1> USE DEF LInv, IInv
<1>1. req' = req /\ w \in Procs /\ pc[w] = "delete" /\ Deleting(w)
  BY DEF DeleteShift, DeleteDrop, Finish, Deleting, Procs
<1>2. CASE DeleteShift(w)
  <2> DEFINE i == pos[w]
  <2>1. /\ i \notin Used /\ i + 1 \in Used
        /\ Used' = (Used \ {i + 1}) \cup {i}
        /\ slot'[i].key = slot[i + 1].key /\ slot'[i].value = slot[i + 1].value
        /\ \A j \in Used \ {i + 1} : slot'[j] = slot[j]
    BY <1>2, ShiftEffect
  <2> HIDE DEF i
  <2>2. ASSUME NEW k \in Keys
        PROVE  StoredMap'[k] = StoredMap[k]
    <3>1. \A j \in Used : \E m \in Used' : slot'[m].key = slot[j].key /\ slot'[m].value = slot[j].value
      BY <2>1
    <3>2. \A m \in Used' : \E j \in Used : slot'[m].key = slot[j].key
      BY <2>1
    <3> QED
      BY <3>1, <3>2, KeyStays
  <2>3. ASSUME NEW v \in Workers
        PROVE  Answers'[v] = Answers[v]
    BY <1>2 DEF DeleteShift, Deleting, Advance, Answers, TypeOK, NotFound, Slots, Procs
  <2> QED
    BY <1>1, <2>2, <2>3, SameMap, SameAnswers
<1>3. CASE DeleteDrop(w)
  <2>1. StoredMap' = StoredMap
    BY <1>3, DropEffect, KeyStays, SameMap
  <2>2. Answers'[w] = Done(0) /\ \A v \in Workers \ {w} : Answers'[v] = Answers[v]
    BY <1>3, FinishAnswers DEF DeleteDrop
  <2>3. Answers[w] = Done(0)
    BY <1>1 DEF Answers
  <2> QED
    BY <1>1, <2>1, <2>2, <2>3, SameAnswers
<1> QED
  BY <1>2, <1>3

\* A worker that starts or answers changes its command and its answer only.
LEMMA DoorRefines ==
  ASSUME KvAssumption, LInv, KeysUnique', NEW w \in Workers, Receive(w) \/ SemPost(w)
  PROVE  /\ StoredMap' = StoredMap
         /\ \/ /\ req[w] = Nothing /\ Answers' = Answers
               /\ \E r \in Request : req' = [req EXCEPT ![w] = r]
            \/ /\ Answers[w] # Nothing
               /\ req' = [req EXCEPT ![w] = Nothing]
               /\ Answers' = [Answers EXCEPT ![w] = Nothing]
<1> USE DEF LInv, IInv
<1>1. /\ w \in Procs /\ w # Master /\ slot' = slot /\ count' = count
      /\ pc[w] \in {"idle", "post"} /\ pc'[w] \in {"lock", "idle"}
      /\ \A v \in Workers \ {w} : pc'[v] = pc[v] /\ pos'[v] = pos[v] /\ reply'[v] = reply[v]
  BY DEF Receive, SemPost, Procs, TypeOK, KvAssumption
<1>2. ~Deleting(w) /\ ~Deleting(w)' /\ \A v \in Workers \ {w} : Deleting(v)' <=> Deleting(v)
  BY <1>1 DEF Deleting
<1>3. Used' = Used
  BY <1>1, <1>2, SameUsed DEF Deleting
<1>4. StoredMap' = StoredMap
  BY <1>1, <1>3, KeyStays, SameMap
<1>5. \A v \in Workers \ {w} : Answers'[v] = Answers[v]
  BY <1>1, <1>2 DEF Answers
<1>6. Answers[w] = reply[w] /\ Answers'[w] = reply'[w]
  BY <1>2 DEF Answers
<1>7. CASE Receive(w)
  <2>1. reply' = reply /\ req[w] = Nothing
    BY <1>7 DEF Receive, HasAnswer
  <2> QED
    BY <1>4, <1>5, <1>6, <1>7, <2>1, SameAnswers DEF Receive
<1>8. CASE SemPost(w)
  <2>1. reply[w] # Nothing /\ reply'[w] = Nothing
    BY <1>8 DEF SemPost, HasAnswer
  <2>2. req' = [req EXCEPT ![w] = Nothing]
    BY <1>8 DEF SemPost, TypeOK
  <2> QED
    BY <1>4, <1>5, <1>6, <2>1, <2>2, AnswerChange
<1> QED
  BY <1>7, <1>8

\* The scan lets at most one key go.
LEMMA CleanRefines ==
  ASSUME KvAssumption, LInv, MutualExclusion', KeysUnique', CleanScan
  PROVE  /\ UNCHANGED <<req, Answers>>
         /\ \/ StoredMap' = StoredMap
            \/ \E k \in Keys : /\ StoredMap[k] # Absent
                               /\ StoredMap' = [StoredMap EXCEPT ![k] = Absent]
<1> USE DEF LInv, IInv
<1> DEFINE c == pos[Master]
<1>1. /\ req' = req /\ reply' = reply
      /\ \A v \in Workers : pc'[v] = pc[v] /\ pos'[v] = pos[v]
  BY DEF CleanScan, TypeOK, KvAssumption, Procs
<1>2. \A v \in Workers : (Deleting(v)' <=> Deleting(v)) /\ Answers'[v] = Answers[v]
  BY <1>1 DEF Deleting, Answers
<1>3. UNCHANGED <<req, Answers>>
  BY <1>1, <1>2, SameAnswers
<1>4. CASE Old(slot[c])
  <2> PICK k : k = slot[c].key
    OBVIOUS
  <2>1. /\ c \in Used /\ k \in Keys /\ slot[c].key = k
        /\ \A j \in Used' :
             \/ j < c /\ j \in Used /\ slot'[j] = slot[j]
             \/ j >= c /\ j + 1 \in Used /\ slot'[j] = slot[j + 1]
        /\ \A j \in Used \ {c} :
             \/ j \in Used' /\ slot'[j] = slot[j]
             \/ j - 1 \in Used' /\ slot'[j - 1] = slot[j]
    BY <1>4, ExpireEffect
  <2>2. c \in Int /\ Used' \subseteq Int
    BY <2>1 DEF Used, Slots
  <2> HIDE DEF c
  <2>3. ASSUME NEW j \in Used'
        PROVE  \E i \in Used \ {c} : slot'[j] = slot[i]
    <3>1. CASE j < c /\ j \in Used /\ slot'[j] = slot[j]
      <4>1. j # c
        BY <2>2, <3>1
      <4> QED
        BY <3>1, <4>1
    <3>2. CASE j >= c /\ j + 1 \in Used /\ slot'[j] = slot[j + 1]
      <4>1. j + 1 # c
        BY <2>2, <3>2
      <4> QED
        BY <3>2, <4>1
    <3> QED
      BY <2>1, <3>1, <3>2
  <2>4. StoredMap[k] # Absent
    BY <2>1, MapAt, Distinct
  <2>5. ~Present(k)'
    BY <2>1, <2>3 DEF Present, KeysUnique
  <2>6. StoredMap'[k] = Absent
    BY <2>1, <2>5, MapAtNext
  <2>7. ASSUME NEW m \in Keys \ {k}
        PROVE  StoredMap'[m] = StoredMap[m]
    <3>1. ASSUME NEW i \in Used, slot[i].key = m
          PROVE  \E j \in Used' : slot'[j].key = m /\ slot'[j].value = slot[i].value
      BY <2>1, <3>1
    <3>2. ASSUME NEW j \in Used', slot'[j].key = m
          PROVE  \E i \in Used : slot[i].key = m
      BY <2>3, <3>2
    <3> QED
      BY <3>1, <3>2, KeyStays
  <2>8. StoredMap' = [StoredMap EXCEPT ![k] = Absent]
    BY <2>1, <2>6, <2>7, MapChange
  <2> QED
    BY <1>3, <2>1, <2>4, <2>8
<1>5. CASE ~Old(slot[c])
  <2>1. slot' = slot /\ count' = count
    BY <1>5 DEF CleanScan
  <2>2. Used' = Used
    BY <1>1, <1>2, <2>1, SameUsed
  <2> QED
    BY <1>3, <2>1, <2>2, KeyStays, SameMap
<1> QED
  BY <1>4, <1>5

\* The other steps move a process along.
LEMMA IdleRefines ==
  ASSUME KvAssumption, LInv, KeysUnique',
         \/ CleanCall \/ CleanBegin \/ Tick \/ UNCHANGED vars \/ SemPost(Master)
         \/ \E p \in Procs : SemWait(p)
  PROVE  UNCHANGED <<StoredMap, req, Answers>>
<1> USE DEF LInv, IInv
<1>1. slot' = slot /\ count' = count /\ req' = req /\ reply' = reply
  BY DEF CleanCall, CleanBegin, Tick, vars, SemWait, SemPost, KvAssumption, TypeOK
<1>2. \A v \in Workers : (Deleting(v)' <=> Deleting(v)) /\ pos'[v] = pos[v]
  BY DEF CleanCall, CleanBegin, Tick, vars, SemWait, SemPost, KvAssumption, TypeOK, Procs, Deleting
<1>3. Used' = Used
  BY <1>1, <1>2, SameUsed
<1>4. StoredMap' = StoredMap
  BY <1>1, <1>3, KeyStays, SameMap
<1>5. Answers' = Answers
  BY <1>1, <1>2 DEF Answers
<1> QED
  BY <1>1, <1>4, <1>5

\* Every step of the storage is a step of the map or none.
LEMMA LinStep ==
  ASSUME KvAssumption, LInv, [Next]_vars
  PROVE  [KvMapOf!Next]_<<StoredMap, req, Answers>>
<1>1. MutualExclusion' /\ KeysUnique'
  BY LockStep, KeysUniqueStep DEF LInv, IInv
<1>2. ASSUME NEW w \in Workers, Perform(w)
      PROVE  KvMapOf!Next
  BY <1>2, PerformIs DEF KvMapOf!Next
<1>3. ASSUME NEW w \in Workers, RunCommand(w)
      PROVE  KvMapOf!Next \/ UNCHANGED <<StoredMap, req, Answers>>
  BY <1>1, <1>2, <1>3, SearchRefines, SetRefines, ReadRefines, DeleteRefines DEF RunCommand
<1>4. ASSUME NEW w \in Workers, Receive(w) \/ SemPost(w)
      PROVE  KvMapOf!Next
  <2>1. /\ StoredMap' = StoredMap
        /\ \/ /\ req[w] = Nothing /\ Answers' = Answers
              /\ \E r \in Request : req' = [req EXCEPT ![w] = r]
           \/ /\ Answers[w] # Nothing
              /\ req' = [req EXCEPT ![w] = Nothing]
              /\ Answers' = [Answers EXCEPT ![w] = Nothing]
    BY <1>1, <1>4, DoorRefines
  <2>2. KvMapOf!Invoke(w) \/ KvMapOf!Respond(w)
    BY <2>1 DEF KvMapOf!Invoke, KvMapOf!Respond, KvMapOf!Nothing, Nothing, StoredMap, Answers
  <2> QED
    BY <2>2 DEF KvMapOf!Next
<1>5. CASE CleanScan
  <2>1. CASE StoredMap' = StoredMap
    BY <1>1, <1>5, <2>1, CleanRefines
  <2>2. ASSUME NEW k \in Keys, StoredMap[k] # Absent, StoredMap' = [StoredMap EXCEPT ![k] = Absent]
        PROVE  KvMapOf!Expire(k)
    BY <1>1, <1>5, <2>2, CleanRefines
       DEF KvMapOf!Expire, KvMapOf!Absent, Absent, StoredMap, Answers
  <2> QED
    BY <1>1, <1>5, <2>1, <2>2, CleanRefines DEF KvMapOf!Next
<1>6. CASE \/ CleanCall \/ CleanBegin \/ Tick \/ UNCHANGED vars \/ SemPost(Master)
           \/ \E p \in Procs : SemWait(p)
  BY <1>1, <1>6, IdleRefines
<1> QED
  BY <1>3, <1>4, <1>5, <1>6 DEF Next, Procs

-----------------------------------------------------------------------------
(* The theorems.                                                            *)

\* An empty store satisfies everything.
LEMMA IInvInit ==
  ASSUME KvAssumption, Init
  PROVE  IInv
<1> USE DEF Init, KvAssumption
<1>1. TypeOK
  <2>1. ZeroEntry \in Entry /\ Never \in Times
    BY DEF ZeroEntry, Entry, Never, Times
  <2> QED
    BY <2>1 DEF TypeOK, Slots
<1>2. MutualExclusion
  BY DEF MutualExclusion, Inside
<1>3. Located
  BY DEF Located, Knows, Deleting, Procs
<1>4. Used = {}
  BY DEF Used, Slots
<1>5. KeysUnique /\ TtlExact
  BY <1>4 DEF KeysUnique, TtlExact
<1> QED
  BY <1>1, <1>2, <1>3, <1>5 DEF IInv

\* IInv is inductive.
LEMMA IInvStep ==
  ASSUME KvAssumption, IInv, [Next]_vars
  PROVE  IInv'
BY LockStep, TypeStep, LocatedStep, KeysUniqueStep, TtlExactStep DEF IInv

\* IInv holds at all times; every invariant below is part of it.
THEOREM Invariance == Spec => []IInv
BY IInvInit, IInvStep, KvAssumption, PTL DEF Spec

\* Types: every index used on the array is within it and the count never
\* leaves 0 .. Capacity, however commands and clean_old_entries interleave.
THEOREM TypeCorrect == Spec => []TypeOK
BY Invariance, PTL DEF IInv

\* One process at a time uses the storage.
THEOREM Exclusive == Spec => []MutualExclusion
BY Invariance, PTL DEF IInv

\* What run_command and clean_old_entries read before they update stays true
\* until they do.
THEOREM ReadsStayTrue == Spec => []Located
BY Invariance, PTL DEF IInv

\* No key is ever stored twice.
THEOREM Unique == Spec => []KeysUnique
BY Invariance, PTL DEF IInv

\* An entry that no delete has moved has the ttl its last "set" asked for, and
\* counts it from that "set".
THEOREM TtlKept == Spec => []TtlExact
BY Invariance, PTL DEF IInv

\* Entries leave only by a delete of their key or because they are over (or were
\* moved): neither the shifting loops nor the scan of the master lose others.
THEOREM NothingLost == Spec => EntriesLeave
<1>1. ASSUME KvAssumption, IInv, [Next]_vars
      PROVE  [\A k \in Keys : Present(k) /\ ~Present(k)' => MayLeave(k)]_vars
  BY <1>1, LeaveStep
<1> QED
  BY <1>1, Invariance, KvAssumption, PTL DEF Spec, EntriesLeave

\* HasAnswer, which only the refinement needs, is inductive beside IInv.
LEMMA LInvariance == Spec => []LInv
<1>1. ASSUME KvAssumption, Init
      PROVE  HasAnswer
  BY <1>1 DEF Init, HasAnswer, Procs
<1>2. ASSUME KvAssumption, LInv, [Next]_vars
      PROVE  LInv'
  BY <1>2, IInvStep, HasAnswerStep DEF LInv
<1> QED
  BY <1>1, <1>2, IInvInit, KvAssumption, PTL DEF Spec, LInv

\* The storage is a bounded map with indivisible commands: the searches, the
\* shifting loops and the scan of the master, in any interleaving, add up to one
\* step of the map per command or none (run_command, clean_old_entries).
THEOREM Linearized == Spec => Linearizable
<1>1. ASSUME KvAssumption, Init
      PROVE  KvMapOf!Init
  <2>1. \A k \in Keys : ~Present(k)
    BY <1>1 DEF Init, Present, Used, Slots, KvAssumption
  <2>2. \A w \in Workers : ~Deleting(w) /\ reply[w] = Nothing
    BY <1>1 DEF Init, Deleting, Procs
  <2> QED
    BY <1>1, <2>1, <2>2 DEF Init, KvMapOf!Init, KvMapOf!Absent, KvMapOf!Nothing, Nothing
<1>2. ASSUME KvAssumption, LInv, [Next]_vars
      PROVE  [KvMapOf!Next]_KvMapOf!vars
  BY <1>2, LinStep DEF KvMapOf!vars, StoredMap, Answers
<1> QED
  BY <1>1, <1>2, LInvariance, KvAssumption, PTL DEF Spec, Linearizable, KvMapOf!Spec
=============================================================================
