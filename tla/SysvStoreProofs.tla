--------------------------- MODULE SysvStoreProofs ---------------------------
(***************************************************************************)
(* Proofs about SysvStore, for any number of workers, keys, entries and      *)
(* servers: the memory and its lock are sound wherever workers are killed     *)
(* and whatever servers are started.                                          *)
(*                                                                          *)
(* LockSound is not inductive: that a killed worker's adjustment leaves the   *)
(* semaphore at 0 needs that it holds exactly what it took (Holds), and that  *)
(* every write is within the table needs what the worker has found out since  *)
(* it took the lock (Knows), as long as no server has emptied the table.      *)
(*                                                                          *)
(* What the clients see needs more: who owes an answer (Answering), what a    *)
(* worker knows of its key and has written (Sound), and, until somebody dies   *)
(* in a gap, one entry per key (KeysUnique).                                 *)
(***************************************************************************)
EXTENDS SysvStore, FiniteSetTheorems, FunctionTheorems, TLAPS

\* The adjustment of a worker is what it has added to the semaphore.
Holds ==
  \A w \in Workers : /\ Inside(w) => undo[w] = 1 /\ sem = 1
                     /\ ~Inside(w) => undo[w] = 0

Commands == {"search", "set", "set value", "set count", "get", "delete", "shift", "shift value"}

\* A worker that runs a command has one.
HasRequest ==
  \A w \in Workers :
    /\ pc[w] \in {"lock"} \cup Commands => req[w] \in Request
    /\ pc[w] \in {"set", "set value", "set count"} => req[w].cmd = "set"

\* What worker w knows of the table it has the lock of.
Knows(w) ==
  /\ pc[w] \in {"set value", "set count"} => count < Capacity
  /\ pc[w] \in {"set", "get", "delete"} /\ pos[w] # NotFound => pos[w] < count
  /\ pc[w] = "shift" => pos[w] # NotFound /\ pos[w] < count
  /\ pc[w] = "shift value" => pos[w] # NotFound /\ pos[w] < count - 1

IInv ==
  /\ LockSound
  /\ Holds
  /\ HasRequest
  /\ ~spoilt => \A w \in Workers : Knows(w)

-----------------------------------------------------------------------------
(* Records.                                                                 *)

LEMMA RequestFields ==
  ASSUME NEW r \in Request
  PROVE  /\ r.cmd \in {"set", "get", "delete"}
         /\ r.key \in Int
         /\ r.cmd = "set" => r.value \in Int
BY SysvAssumption DEF Request

LEMMA NothingIsNoResult ==
  /\ \A v \in Int : Done(v) \in Result
  /\ Failed \in Result
BY DEF Done, Failed, Result

\* One field of an entry is written.
LEMMA KeyWritten ==
  ASSUME NEW s \in [Slots -> Entry], NEW i \in Slots, NEW k \in Int
  PROVE  [s EXCEPT ![i].key = k] \in [Slots -> Entry]
<1>1. s[i] \in Entry
  OBVIOUS
<1>2. [s[i] EXCEPT !.key = k] \in Entry
  BY <1>1 DEF Entry
<1>3. [s EXCEPT ![i].key = k] = [s EXCEPT ![i] = [s[i] EXCEPT !.key = k]]
  BY Zenon
<1> QED
  BY <1>2, <1>3

LEMMA ValueWritten ==
  ASSUME NEW s \in [Slots -> Entry], NEW i \in Slots, NEW v \in Int
  PROVE  [s EXCEPT ![i].value = v] \in [Slots -> Entry]
<1>1. s[i] \in Entry
  OBVIOUS
<1>2. [s[i] EXCEPT !.value = v] \in Entry
  BY <1>1 DEF Entry
<1>3. [s EXCEPT ![i].value = v] = [s EXCEPT ![i] = [s[i] EXCEPT !.value = v]]
  BY Zenon
<1> QED
  BY <1>2, <1>3

\* The indices of the array.
LEMMA Indices ==
  ASSUME SysvAssumption
  PROVE  /\ \A i \in Int : i \in Slots <=> 0 <= i /\ i < Capacity
         /\ Slots \subseteq Nat /\ NotFound \notin Slots
BY DEF SysvAssumption, Slots, NotFound

LEMMA Bits == 0 .. 1 = {0, 1}
OBVIOUS

LEMMA Below ==
  \A n, i \in Nat : /\ i + 1 # i
                    /\ i < n => i < n + 1
                    /\ i < n /\ i # n - 1 => i < n - 1
                    /\ i < n /\ ~(i < n - 1) => i = n - 1
OBVIOUS

LEMMA IndexBelow ==
  ASSUME SysvAssumption, NEW i \in Nat, i < Capacity
  PROVE  i \in Slots
BY Indices

LEMMA NextIndex ==
  ASSUME SysvAssumption, NEW i \in Slots, NEW n \in Nat, n <= Capacity, i < n - 1
  PROVE  i + 1 \in Slots /\ i + 1 < n /\ i + 1 # NotFound
<1>1. i \in Nat /\ Capacity \in Nat
  BY Indices DEF SysvAssumption
<1>2. i + 1 \in Nat /\ i + 1 < n /\ i + 1 < Capacity
  BY <1>1
<1> QED
  BY <1>2, IndexBelow, Indices

-----------------------------------------------------------------------------
(* Commands.                                                                *)

\* A step of the worker that has the lock, to another place where it has it.
LEMMA InsideStep ==
  ASSUME SysvAssumption, IInv, ~spoilt,
         NEW w \in Workers, NEW to \in Commands \cup {"unlock"},
         Inside(w), pc[w] # "unlock", pc' = [pc EXCEPT ![w] = to],
         UNCHANGED <<lock, req, server, hurt>>,
         count' \in 0 .. Capacity, slot' \in [Slots -> Entry],
         pos' \in [Workers -> Slots \cup {NotFound}],
         reply' \in [Workers -> Result \cup {Nothing}],
         to \in {"set", "set value", "set count"} => req[w].cmd = "set",
         Knows(w)'
  PROVE  IInv'
<1> USE DEF IInv, LockSound, lock, server
<1>1. TypeOK'
  BY DEF TypeOK, Commands
<1>2. \A v \in Workers : Inside(v)' <=> Inside(v)
  BY DEF Inside, TypeOK, Commands
<1>3. MutualExclusion' /\ Holds'
  BY <1>2 DEF MutualExclusion, Holds, Inside
<1>4. pc[w] \in Commands
  BY DEF TypeOK, Inside, Commands
<1>5. HasRequest'
  BY <1>4 DEF HasRequest, TypeOK
<1>6. \A v \in Workers : Knows(v)'
  <2> TAKE v \in Workers
  <2>1. CASE v = w
    BY <2>1
  <2>2. CASE v # w
    <3>1. ~Inside(v)
      BY <2>2 DEF MutualExclusion
    <3>2. pc'[v] = pc[v]
      BY <2>2 DEF TypeOK
    <3> QED
      BY <3>1, <3>2 DEF Inside, Knows
  <2> QED
    BY <2>1, <2>2
<1> QED
  BY <1>1, <1>3, <1>5, <1>6

\* The worker is inside and has a request.
LEMMA InCommand ==
  ASSUME SysvAssumption, IInv, NEW w \in Workers, pc[w] \in Commands
  PROVE  /\ Inside(w) /\ pc[w] # "unlock" /\ req[w] \in Request
         /\ TypeOK
         /\ count \in 0 .. Capacity /\ slot \in [Slots -> Entry]
         /\ pos \in [Workers -> Slots \cup {NotFound}] /\ pos[w] \in Slots \cup {NotFound}
         /\ reply \in [Workers -> Result \cup {Nothing}]
         /\ Capacity \in Nat \ {0} /\ count \in Nat /\ count <= Capacity
         /\ ~spoilt => Knows(w)
         /\ pc[w] \in {"set", "set value", "set count"} =>
              req[w].cmd = "set" /\ req[w].key \in Int /\ req[w].value \in Int
<1>1. pc[w] # "unlock" /\ Inside(w)
  BY DEF Commands, Inside
<1>2. TypeOK /\ req[w] \in Request
  BY DEF IInv, LockSound, HasRequest
<1>3. /\ count \in 0 .. Capacity /\ slot \in [Slots -> Entry]
      /\ pos \in [Workers -> Slots \cup {NotFound}] /\ pos[w] \in Slots \cup {NotFound}
      /\ reply \in [Workers -> Result \cup {Nothing}]
  BY <1>2 DEF TypeOK
<1>4. Capacity \in Nat \ {0}
  BY SysvAssumption
<1>5. count \in Nat /\ count <= Capacity
  BY <1>3, <1>4
<1>6. ~spoilt => Knows(w)
  BY DEF IInv
<1>7. pc[w] \in {"set", "set value", "set count"} =>
        req[w].cmd = "set" /\ req[w].key \in Int /\ req[w].value \in Int
  BY <1>2, RequestFields DEF IInv, HasRequest
<1> QED
  BY <1>1, <1>2, <1>3, <1>4, <1>5, <1>6, <1>7

LEMMA SearchStep ==
  ASSUME SysvAssumption, IInv, NEW w \in Workers, Search(w)
  PROVE  IInv'
<1>1. pc[w] \in Commands /\ ~spoilt /\ pc' = [pc EXCEPT ![w] = req[w].cmd]
      /\ UNCHANGED <<lock, req, server, hurt>> /\ UNCHANGED <<memory, reply>>
  BY DEF Search, Step, Commands
<1> USE InCommand, <1>1
<1>2. req[w].cmd \in {"set", "get", "delete"}
  BY RequestFields
<1>3. PICK i \in Slots \cup {NotFound} :
        /\ pos' = [pos EXCEPT ![w] = i]
        /\ i # NotFound => i < count
  BY DEF Search, Hits
<1>4. pos' \in [Workers -> Slots \cup {NotFound}] /\ pos'[w] = i
  BY <1>3
<1>5. pc'[w] = req[w].cmd
  BY DEF TypeOK
<1>6. Knows(w)'
  BY <1>2, <1>3, <1>4, <1>5 DEF Knows, memory
<1> QED
  BY <1>2, <1>4, <1>6, InsideStep DEF memory, Commands

\* The steps after which the worker only has to give the lock back.
LEMMA FinishStep ==
  ASSUME SysvAssumption, IInv, NEW w \in Workers, NEW from \in Commands,
         NEW result \in Result, Finish(w, from, result),
         count' \in 0 .. Capacity, slot' \in [Slots -> Entry]
  PROVE  IInv'
<1>1. pc[w] \in Commands /\ ~spoilt /\ pc' = [pc EXCEPT ![w] = "unlock"]
      /\ UNCHANGED <<lock, req, server, hurt>> /\ UNCHANGED pos
      /\ reply' = [reply EXCEPT ![w] = result]
  BY DEF Finish, Step, Commands
<1> USE InCommand, <1>1
<1>2. pc'[w] = "unlock"
  BY DEF TypeOK
<1>3. Knows(w)'
  BY <1>2 DEF Knows
<1>4. reply' \in [Workers -> Result \cup {Nothing}]
  OBVIOUS
<1> QED
  BY <1>3, <1>4, InsideStep

LEMMA SetOldStep ==
  ASSUME SysvAssumption, IInv, NEW w \in Workers, SetOld(w)
  PROVE  IInv'
<1>1. pc[w] = "set" /\ pc[w] \in Commands /\ pos[w] # NotFound
  BY DEF SetOld, Finish, Step, Commands
<1>2. pos[w] \in Slots /\ slot \in [Slots -> Entry] /\ count \in 0 .. Capacity
  BY <1>1, InCommand
<1>3. req[w].value \in Int
  BY <1>1, InCommand
<1>4. slot' \in [Slots -> Entry] /\ count' \in 0 .. Capacity
  BY <1>2, <1>3, ValueWritten DEF SetOld
<1> QED
  BY <1>1, <1>4, FinishStep, NothingIsNoResult DEF SetOld

LEMMA SetFullStep ==
  ASSUME SysvAssumption, IInv, NEW w \in Workers, SetFull(w)
  PROVE  IInv'
<1>1. pc[w] = "set" /\ pc[w] \in Commands
  BY DEF SetFull, Finish, Step, Commands
<1>2. slot' \in [Slots -> Entry] /\ count' \in 0 .. Capacity
  BY <1>1, InCommand DEF SetFull, memory
<1> QED
  BY <1>1, <1>2, FinishStep, NothingIsNoResult DEF SetFull

LEMMA SetKeyStep ==
  ASSUME SysvAssumption, IInv, NEW w \in Workers, SetKey(w)
  PROVE  IInv'
<1>1. pc[w] = "set" /\ pc[w] \in Commands /\ ~spoilt /\ pc' = [pc EXCEPT ![w] = "set value"]
      /\ UNCHANGED <<lock, req, server, hurt>> /\ UNCHANGED <<pos, reply>>
      /\ count < Capacity /\ count' = count
  BY DEF SetKey, Step, Commands, HasRoom, CountAfter
<1>2. count \in Nat /\ slot \in [Slots -> Entry] /\ req[w].key \in Int
  BY <1>1, InCommand
<1>3. count \in Slots
  <2>1. count < Capacity
    BY <1>1
  <2> QED
    BY <1>2, <2>1, IndexBelow
<1>4. slot' \in [Slots -> Entry]
  BY <1>2, <1>3, KeyWritten DEF SetKey
<1>5. pc'[w] = "set value"
  BY <1>1, InCommand DEF TypeOK
<1>6. Knows(w)'
  BY <1>1, <1>5 DEF Knows
<1>7. /\ pos' \in [Workers -> Slots \cup {NotFound}] /\ reply' \in [Workers -> Result \cup {Nothing}]
      /\ count' \in 0 .. Capacity /\ Inside(w) /\ req[w].cmd = "set"
  BY <1>1, InCommand
<1> QED
  BY <1>1, <1>4, <1>6, <1>7, InsideStep DEF Commands

LEMMA SetValueStep ==
  ASSUME SysvAssumption, IInv, NEW w \in Workers, SetValue(w)
  PROVE  IInv'
<1>1. pc[w] = "set value" /\ pc[w] \in Commands /\ ~spoilt /\ pc' = [pc EXCEPT ![w] = "set count"]
      /\ UNCHANGED <<lock, req, server, hurt>> /\ UNCHANGED <<pos, reply>>
      /\ count' = count
  BY DEF SetValue, Step, Commands, CountAfter
<1>2. count \in Nat /\ slot \in [Slots -> Entry] /\ req[w].value \in Int /\ count < Capacity
  BY <1>1, InCommand DEF Knows
<1>3. count \in Slots
  BY <1>2, IndexBelow
<1>4. slot' \in [Slots -> Entry]
  BY <1>2, <1>3, ValueWritten DEF SetValue
<1>5. pc'[w] = "set count"
  BY <1>1, InCommand DEF TypeOK
<1>6. Knows(w)'
  BY <1>1, <1>2, <1>5 DEF Knows
<1>7. /\ pos' \in [Workers -> Slots \cup {NotFound}] /\ reply' \in [Workers -> Result \cup {Nothing}]
      /\ count' \in 0 .. Capacity /\ Inside(w) /\ req[w].cmd = "set"
  BY <1>1, InCommand
<1> QED
  BY <1>1, <1>4, <1>6, <1>7, InsideStep DEF Commands

LEMMA SetCountStep ==
  ASSUME SysvAssumption, IInv, NEW w \in Workers, SetCount(w)
  PROVE  IInv'
<1>1. pc[w] = "set count" /\ pc[w] \in Commands /\ ~spoilt
  BY DEF SetCount, Finish, Step, Commands
<1>2. count' = count + 1 /\ slot' = slot
  BY DEF SetCount, CountAfter
<1>3. count \in Nat /\ count < Capacity /\ Capacity \in Nat /\ slot \in [Slots -> Entry]
  BY <1>1, InCommand DEF Knows
<1>4. slot' \in [Slots -> Entry] /\ count' \in 0 .. Capacity
  BY <1>2, <1>3
<1>5. Finish(w, "set count", Done(0))
  BY Zenon DEF SetCount
<1>6. Done(0) \in Result
  BY NothingIsNoResult
<1> QED
  BY <1>1, <1>4, <1>5, <1>6, FinishStep

LEMMA GetStep ==
  ASSUME SysvAssumption, IInv, NEW w \in Workers, Get(w)
  PROVE  IInv'
<1>1. pc[w] = "get" /\ pc[w] \in Commands
  BY DEF Get, Finish, Step, Commands
<1>2. slot' \in [Slots -> Entry] /\ count' \in 0 .. Capacity
  BY <1>1, InCommand DEF Get, memory
<1> DEFINE result == IF pos[w] = NotFound THEN Failed ELSE Done(slot[pos[w]].value)
<1>3. result \in Result
  <2>1. CASE pos[w] = NotFound
    BY <2>1, NothingIsNoResult
  <2>2. CASE pos[w] # NotFound
    <3>1. slot[pos[w]] \in Entry
      BY <2>2, <1>1, InCommand
    <3>2. slot[pos[w]].value \in Int
      BY <3>1 DEF Entry
    <3> QED
      BY <2>2, <3>2, NothingIsNoResult
  <2> QED
    BY <2>1, <2>2
<1>4. Finish(w, "get", result)
  BY DEF Get
<1> QED
  BY <1>1, <1>2, <1>3, <1>4, FinishStep

LEMMA DeleteMissStep ==
  ASSUME SysvAssumption, IInv, NEW w \in Workers, DeleteMiss(w)
  PROVE  IInv'
<1>1. pc[w] = "delete" /\ pc[w] \in Commands
  BY DEF DeleteMiss, Finish, Step, Commands
<1>2. slot' \in [Slots -> Entry] /\ count' \in 0 .. Capacity
  BY <1>1, InCommand DEF DeleteMiss, memory
<1> QED
  BY <1>1, <1>2, FinishStep, NothingIsNoResult DEF DeleteMiss

LEMMA ShiftKeyStep ==
  ASSUME SysvAssumption, IInv, NEW w \in Workers, ShiftKey(w)
  PROVE  IInv'
<1>1. pc[w] \in {"delete", "shift"} /\ pc[w] \in Commands /\ ~spoilt
      /\ pc' = [pc EXCEPT ![w] = "shift value"]
      /\ UNCHANGED <<lock, req, server, hurt>> /\ UNCHANGED <<count, pos, reply>>
      /\ pos[w] # NotFound /\ pos[w] < count - 1
  BY DEF ShiftKey, Step, Commands, MoreAfter
<1>2. pos[w] \in Slots /\ count \in Nat /\ count <= Capacity /\ Capacity \in Nat
      /\ slot \in [Slots -> Entry]
  BY <1>1, InCommand
<1>3. pos[w] + 1 \in Slots
  <2>1. pos[w] < count - 1
    BY <1>1
  <2> QED
    BY <1>2, <2>1, NextIndex
<1>4. slot[pos[w] + 1].key \in Int
  BY <1>2, <1>3 DEF Entry
<1>5. slot' \in [Slots -> Entry]
  BY <1>2, <1>4, KeyWritten DEF ShiftKey
<1>6. pc'[w] = "shift value"
  BY <1>1, InCommand DEF TypeOK
<1>7. Knows(w)'
  BY <1>1, <1>6 DEF Knows
<1>8. /\ pos' \in [Workers -> Slots \cup {NotFound}] /\ reply' \in [Workers -> Result \cup {Nothing}]
      /\ count' \in 0 .. Capacity /\ Inside(w)
  BY <1>1, InCommand
<1> QED
  BY <1>1, <1>5, <1>7, <1>8, InsideStep DEF Commands

LEMMA ShiftValueStep ==
  ASSUME SysvAssumption, IInv, NEW w \in Workers, ShiftValue(w)
  PROVE  IInv'
<1>1. pc[w] = "shift value" /\ pc[w] \in Commands /\ ~spoilt
      /\ pc' = [pc EXCEPT ![w] = "shift"]
      /\ UNCHANGED <<lock, req, server, hurt>> /\ UNCHANGED <<count, reply>>
      /\ pos' = [pos EXCEPT ![w] = pos[w] + 1]
  BY DEF ShiftValue, Step, Commands, Following
<1>2. pos[w] \in Slots /\ count \in Nat /\ count <= Capacity /\ Capacity \in Nat
      /\ slot \in [Slots -> Entry] /\ pos[w] < count - 1
  BY <1>1, InCommand DEF Knows
<1>3. pos[w] + 1 \in Slots /\ pos[w] + 1 < count /\ pos[w] + 1 # NotFound
  BY <1>2, NextIndex
<1>4. slot[pos[w] + 1].value \in Int
  BY <1>2, <1>3 DEF Entry
<1>5. slot' \in [Slots -> Entry]
  BY <1>2, <1>4, ValueWritten DEF ShiftValue
<1>6. pc'[w] = "shift"
  BY <1>1, InCommand DEF TypeOK
<1>7. pos' \in [Workers -> Slots \cup {NotFound}] /\ pos'[w] = pos[w] + 1
  BY <1>1, <1>3, InCommand
<1>8. Knows(w)'
  BY <1>1, <1>3, <1>6, <1>7 DEF Knows
<1>9. /\ reply' \in [Workers -> Result \cup {Nothing}]
      /\ count' \in 0 .. Capacity /\ Inside(w)
  BY <1>1, InCommand
<1> QED
  BY <1>1, <1>5, <1>7, <1>8, <1>9, InsideStep DEF Commands

LEMMA DropStep ==
  ASSUME SysvAssumption, IInv, NEW w \in Workers, Drop(w)
  PROVE  IInv'
<1>1. PICK from \in {"delete", "shift"} : Finish(w, from, Done(0))
  BY DEF Drop
<1>2. pc[w] = from /\ pc[w] \in Commands /\ ~spoilt /\ from \in Commands
      /\ pos[w] # NotFound /\ count' = count - 1 /\ slot' = slot
  BY <1>1 DEF Drop, Finish, Step, Commands
<1>3. pos[w] \in Nat /\ pos[w] < count
  BY <1>2, InCommand, Indices DEF Knows
<1>4. count \in Nat /\ count <= Capacity /\ Capacity \in Nat /\ slot \in [Slots -> Entry]
  BY <1>2, InCommand
<1>5. slot' \in [Slots -> Entry] /\ count' \in 0 .. Capacity
  BY <1>2, <1>3, <1>4
<1> QED
  BY <1>1, <1>2, <1>5, FinishStep, NothingIsNoResult

-----------------------------------------------------------------------------
(* The lock, and the life of a worker.                                      *)

\* A worker steps where it has no lock and knows nothing.
LEMMA OutsideStep ==
  ASSUME SysvAssumption, IInv, NEW w \in Workers,
         NEW to \in {"idle", "lock", "gone"}, ~Inside(w),
         pc' = [pc EXCEPT ![w] = to],
         UNCHANGED <<sem, undo, removed, memory, pos, reply, server, hurt>>,
         req' \in [Workers -> Request \cup {Nothing}],
         \A v \in Workers : v # w => req'[v] = req[v],
         to = "lock" => req'[w] \in Request
  PROVE  IInv'
<1> USE DEF IInv, LockSound, memory, server
<1>1. TypeOK'
  BY DEF TypeOK
<1>2. \A v \in Workers : Inside(v)' <=> Inside(v)
  BY DEF Inside, TypeOK
<1>3. MutualExclusion' /\ Holds'
  BY <1>2 DEF MutualExclusion, Holds
<1>4. HasRequest'
  BY DEF HasRequest, TypeOK, Commands
<1>5. ~spoilt => \A v \in Workers : Knows(v)'
  BY DEF Knows, TypeOK
<1> QED
  BY <1>1, <1>3, <1>4, <1>5

\* A worker leaves the storage and gives the lock back, or ends outside of it.
LEMMA ReleaseStep ==
  ASSUME SysvAssumption, IInv, NEW w \in Workers, NEW to \in {"idle", "gone"},
         pc' = [pc EXCEPT ![w] = to],
         sem' = sem - undo[w], undo' = [undo EXCEPT ![w] = 0],
         hurt' \in Nat, ForgetCommand(w), UNCHANGED <<removed, memory, server>>
  PROVE  IInv'
<1>1. TypeOK /\ IInv
  BY DEF IInv, LockSound
<1>2. /\ sem \in {0, 1} /\ undo \in [Workers -> {0, 1}]
      /\ Inside(w) => undo[w] = 1 /\ sem = 1
      /\ ~Inside(w) => undo[w] = 0
  <2>1. 0 .. 1 = {0, 1}
    OBVIOUS
  <2> QED
    BY <1>1, <2>1 DEF TypeOK, IInv, Holds
<1>3. sem' \in {0, 1} /\ undo' \in [Workers -> {0, 1}]
  BY <1>2
<1>4. TypeOK'
  <2>1. 0 .. 1 = {0, 1}
    OBVIOUS
  <2> QED
    BY <1>1, <1>3, <2>1 DEF TypeOK, ForgetCommand, memory, server
<1>5. /\ ~Inside(w)' /\ undo'[w] = 0
      /\ \A v \in Workers : v # w => (Inside(v)' <=> Inside(v)) /\ undo'[v] = undo[v]
  BY <1>1, <1>2 DEF Inside, TypeOK
<1>6. MutualExclusion' /\ Holds'
  <2>1. CASE Inside(w)
    <3>1. \A v \in Workers : v # w => ~Inside(v)
      BY <2>1 DEF IInv, LockSound, MutualExclusion
    <3>2. \A v \in Workers : ~Inside(v)' /\ undo'[v] = 0
      BY <1>5, <3>1 DEF IInv, Holds
    <3>3. sem' = 0
      BY <1>2, <2>1
    <3>4. Holds'
      BY <3>2 DEF Holds
    <3>5. MutualExclusion'
      BY <3>2, <3>3 DEF MutualExclusion
    <3> QED
      BY <3>4, <3>5
  <2>2. CASE ~Inside(w)
    <3>1. sem' = sem /\ removed' = removed
      BY <1>2, <2>2
    <3>2. \A v \in Workers : (Inside(v)' <=> Inside(v)) /\ undo'[v] = undo[v]
      BY <1>2, <1>5, <2>2
    <3>3. Holds'
      BY <3>1, <3>2 DEF IInv, Holds
    <3>4. MutualExclusion'
      BY <3>1, <3>2 DEF IInv, LockSound, MutualExclusion
    <3> QED
      BY <3>3, <3>4
  <2> QED
    BY <2>1, <2>2
<1>7. HasRequest'
  BY <1>1 DEF IInv, HasRequest, TypeOK, Commands, ForgetCommand
<1>8. ~spoilt' => \A v \in Workers : Knows(v)'
  BY <1>1 DEF IInv, Knows, TypeOK, ForgetCommand, memory, server
<1> QED
  BY <1>4, <1>6, <1>7, <1>8 DEF IInv, LockSound
LEMMA LockStep ==
  ASSUME SysvAssumption, IInv, NEW w \in Workers, Lock(w)
  PROVE  IInv'
<1>1. TypeOK /\ pc[w] = "lock" /\ sem = 0
  BY DEF Lock, SemFree, IInv, LockSound
<1>2. \A v \in Workers : ~Inside(v) /\ undo[v] = 0
  BY <1>1 DEF IInv, Holds
<1>3. sem' = 1 /\ undo' = [undo EXCEPT ![w] = 1] /\ pc' = [pc EXCEPT ![w] = "search"]
      /\ UNCHANGED <<removed, memory, pos, req, reply, server, hurt>>
  BY <1>1 DEF Lock
<1>4. TypeOK'
  BY <1>1, <1>3, Bits DEF TypeOK, memory, server
<1>5. \A v \in Workers : /\ Inside(v)' <=> v = w
                         /\ undo'[v] = IF v = w THEN 1 ELSE 0
  BY <1>1, <1>2, <1>3 DEF TypeOK, Inside
<1>6. MutualExclusion' /\ Holds'
  BY <1>3, <1>5 DEF MutualExclusion, Holds
<1>7. HasRequest'
  BY <1>1, <1>3 DEF IInv, HasRequest, TypeOK, Commands
<1>8. ~spoilt' => \A v \in Workers : Knows(v)'
  BY <1>1, <1>3 DEF IInv, Knows, TypeOK, memory, server
<1> QED
  BY <1>4, <1>6, <1>7, <1>8 DEF IInv, LockSound

LEMMA SemFailsStep ==
  ASSUME SysvAssumption, IInv, NEW w \in Workers, SemFails(w)
  PROVE  IInv'
<1>1. TypeOK /\ removed /\ removed' = removed /\ sem' = sem
      /\ undo' = [undo EXCEPT ![w] = 0] /\ pc' = [pc EXCEPT ![w] = "gone"]
      /\ UNCHANGED <<memory, server, hurt>> /\ ForgetCommand(w)
  BY DEF SemFails, IInv, LockSound
<1>2. TypeOK'
  BY <1>1, Bits DEF TypeOK, ForgetCommand, memory, server
<1>3. /\ ~Inside(w)' /\ undo'[w] = 0
      /\ \A v \in Workers : v # w => (Inside(v)' <=> Inside(v)) /\ undo'[v] = undo[v]
  BY <1>1 DEF Inside, TypeOK
<1>4. MutualExclusion' /\ Holds'
  BY <1>1, <1>3 DEF IInv, LockSound, MutualExclusion, Holds
<1>5. HasRequest'
  BY <1>1 DEF IInv, HasRequest, TypeOK, Commands, ForgetCommand
<1>6. ~spoilt' => \A v \in Workers : Knows(v)'
  BY <1>1 DEF IInv, Knows, TypeOK, ForgetCommand, memory, server
<1> QED
  BY <1>2, <1>4, <1>5, <1>6 DEF IInv, LockSound

LEMMA BlindStep ==
  ASSUME SysvAssumption, IInv, NEW w \in Workers, Blind(w)
  PROVE  IInv'
<1>1. TypeOK /\ spoilt /\ Inside(w) /\ pc[w] # "unlock" /\ ForgetCommand(w)
      /\ UNCHANGED <<removed, memory, server, hurt>>
  BY DEF Blind, IInv, LockSound
<1>2. CASE pc' = [pc EXCEPT ![w] = "unlock"] /\ UNCHANGED <<sem, undo>>
  <2>1. TypeOK'
    BY <1>1, <1>2 DEF TypeOK, ForgetCommand, memory, server
  <2>2. \A v \in Workers : Inside(v)' <=> Inside(v)
    BY <1>1, <1>2 DEF Inside, TypeOK
  <2>3. MutualExclusion' /\ Holds'
    BY <1>1, <1>2, <2>2 DEF IInv, LockSound, MutualExclusion, Holds
  <2>4. HasRequest'
    BY <1>1, <1>2 DEF IInv, HasRequest, TypeOK, Commands, ForgetCommand
  <2>5. spoilt'
    BY <1>1 DEF server
  <2> QED
    BY <2>1, <2>3, <2>4, <2>5 DEF IInv, LockSound
<1>3. CASE /\ pc' = [pc EXCEPT ![w] = "gone"]
           /\ sem' = Undone(w)
           /\ undo' = [undo EXCEPT ![w] = 0]
  <2>1. hurt' \in Nat
    BY <1>1 DEF TypeOK
  <2> QED
    BY <1>1, <1>3, <2>1, ReleaseStep DEF Undone
<1> QED
  BY <1>2, <1>3 DEF Blind

LEMMA UnlockStep ==
  ASSUME SysvAssumption, IInv, NEW w \in Workers, Unlock(w)
  PROVE  IInv'
<1>1. pc[w] = "unlock" /\ TypeOK
  BY DEF Unlock, IInv, LockSound
<1>2. Inside(w)
  BY <1>1 DEF Inside
<1>3. undo[w] = 1
  BY <1>2 DEF IInv, Holds
<1>4. hurt' \in Nat
  BY <1>1 DEF Unlock, TypeOK
<1> QED
  BY <1>3, <1>4, ReleaseStep DEF Unlock

LEMMA KillStep ==
  ASSUME SysvAssumption, IInv, NEW w \in Workers, Kill(w)
  PROVE  IInv'
<1>1. hurt' \in Nat
  <2>1. hurt \in Nat
    BY DEF IInv, LockSound, TypeOK
  <2>2. hurt' = hurt + 1 \/ hurt' = hurt
    BY DEF Kill
  <2> QED
    BY <2>1, <2>2
<1> QED
  BY <1>1, ReleaseStep DEF Kill, Undone

LEMMA ForkReceiveLeaveStep ==
  ASSUME SysvAssumption, IInv, NEW w \in Workers, Fork(w) \/ Receive(w) \/ Leave(w)
  PROVE  IInv'
<1>1. TypeOK
  BY DEF IInv, LockSound
<1>2. CASE Receive(w)
  <2>1. PICK r \in Request : req' = [req EXCEPT ![w] = r]
    BY <1>2 DEF Receive
  <2>2. /\ req' \in [Workers -> Request \cup {Nothing}] /\ req'[w] \in Request
        /\ \A v \in Workers : v # w => req'[v] = req[v]
    BY <1>1, <2>1 DEF TypeOK
  <2>3. ~Inside(w) /\ pc' = [pc EXCEPT ![w] = "lock"]
        /\ UNCHANGED <<sem, undo, removed, memory, pos, reply, server, hurt>>
    BY <1>2 DEF Receive, Inside, lock
  <2> QED
    BY <2>2, <2>3, OutsideStep
<1>3. CASE Fork(w)
  <2>1. ~Inside(w) /\ pc' = [pc EXCEPT ![w] = "idle"] /\ req' = req
        /\ UNCHANGED <<sem, undo, removed, memory, pos, reply, server, hurt>>
    BY <1>3 DEF Fork, Inside, lock
  <2>2. req' \in [Workers -> Request \cup {Nothing}]
    BY <1>1, <2>1 DEF TypeOK
  <2> QED
    BY <2>1, <2>2, OutsideStep
<1>4. CASE Leave(w)
  <2>1. ~Inside(w) /\ pc' = [pc EXCEPT ![w] = "gone"] /\ req' = req
        /\ UNCHANGED <<sem, undo, removed, memory, pos, reply, server, hurt>>
    BY <1>4 DEF Leave, Inside, lock
  <2>2. req' \in [Workers -> Request \cup {Nothing}]
    BY <1>1, <2>1 DEF TypeOK
  <2> QED
    BY <2>1, <2>2, OutsideStep
<1> QED
  BY <1>2, <1>3, <1>4

-----------------------------------------------------------------------------
(* Servers.                                                                 *)

LEMMA ZeroTableFits == ZeroTable \in [Slots -> Entry]
BY DEF ZeroTable, ZeroEntry, Entry

\* A step that leaves the workers alone, and the semaphore unless it was removed.
LEMMA ServerStep ==
  ASSUME SysvAssumption, IInv, TypeOK', UNCHANGED <<undo, pc, pos, req, reply>>,
         \/ UNCHANGED sem /\ (removed' \/ removed' = removed)
         \/ removed' \in BOOLEAN /\ (UNCHANGED sem \/ sem' = 0)
            /\ (~removed => UNCHANGED sem)
            /\ \A w \in Workers : ~Inside(w),
         ~removed' /\ removed => sem' = 0,
         ~spoilt' => \/ ~spoilt /\ UNCHANGED count
                     \/ \A w \in Workers : ~Inside(w)
  PROVE  IInv'
<1>1. TypeOK
  BY DEF IInv, LockSound
<1>2. \A w \in Workers : Inside(w)' <=> Inside(w)
  BY DEF Inside
<1>3. Holds'
  BY <1>2 DEF IInv, Holds
<1>4. MutualExclusion'
  <2>1. \A v, w \in Workers : Inside(v)' /\ Inside(w)' => v = w
    BY <1>2 DEF IInv, LockSound, MutualExclusion
  <2>2. ASSUME ~removed'
        PROVE  sem' = 1 <=> \E w \in Workers : Inside(w)'
    <3>1. CASE removed
      <4>1. sem' = 0
        BY <2>2, <3>1
      <4>2. removed' # removed
        BY <2>2, <3>1
      <4>3. \A w \in Workers : ~Inside(w)
        BY <2>2, <4>2
      <4> QED
        BY <1>2, <4>1, <4>3
    <3>2. CASE ~removed
      BY <1>2, <2>2, <3>2 DEF IInv, LockSound, MutualExclusion
    <3> QED
      BY <3>1, <3>2
  <2> QED
    BY <2>1, <2>2 DEF MutualExclusion
<1>5. HasRequest'
  BY DEF IInv, HasRequest
<1>6. ~spoilt' => \A w \in Workers : Knows(w)'
  BY DEF IInv, Knows, Inside
<1> QED
  BY <1>3, <1>4, <1>5, <1>6 DEF IInv, LockSound

LEMMA LivingInside ==
  ASSUME Living = {}, NEW w \in Workers
  PROVE  ~Inside(w)
BY DEF Living, Inside

LEMMA ServerSteps ==
  ASSUME SysvAssumption, IInv, MasterKilled \/ ServerInit \/ ServerFails \/ ServerListens
  PROVE  IInv'
<1>1. TypeOK
  BY DEF IInv, LockSound
<1>2. CASE MasterKilled
  <2>1. TypeOK'
    BY <1>1, <1>2 DEF MasterKilled, TypeOK, lock, memory
  <2> QED
    BY <1>2, <2>1, ServerStep DEF MasterKilled, lock, memory
<1>3. CASE ServerInit
  <2>1. count' \in 0 .. Capacity /\ starts' \in 0 .. MaxStarts
    <3>1. Capacity \in Nat /\ MaxStarts \in Nat
      BY DEF SysvAssumption
    <3>2. count \in 0 .. Capacity /\ starts \in 0 .. MaxStarts
      BY <1>1 DEF TypeOK
    <3>3. (count' = count \/ count' = 0) /\ starts' = starts + 1 /\ starts < MaxStarts
      BY <1>3 DEF ServerInit, Emptied
    <3> QED
      BY <3>1, <3>2, <3>3
  <2>2. spoilt' \in BOOLEAN /\ hurt' \in Nat
    BY <1>1, <1>3 DEF ServerInit, TypeOK
  <2>3. slot' \in [Slots -> Entry]
    BY <1>1, <1>3, ZeroTableFits DEF ServerInit, TypeOK
  <2>4. TypeOK'
    BY <1>1, <1>3, <2>1, <2>2, <2>3 DEF ServerInit, TypeOK, lock
  <2>5. ~spoilt' => ~spoilt /\ (UNCHANGED count \/ Living = {})
    BY <1>3 DEF ServerInit
  <2>6. UNCHANGED <<sem, removed, undo, pc, pos, req, reply>>
    BY <1>3 DEF ServerInit, lock
  <2>7. ~spoilt' => \/ ~spoilt /\ UNCHANGED count
                    \/ \A w \in Workers : ~Inside(w)
    BY <2>5, LivingInside
  <2> QED
    BY <2>4, <2>6, <2>7, ServerStep
<1>4. CASE ServerFails
  <2>1. TypeOK'
    BY <1>1, <1>4 DEF ServerFails, TypeOK, memory
  <2> QED
    BY <1>4, <2>1, ServerStep DEF ServerFails, memory
<1>5. CASE ServerListens
  <2>1. TypeOK'
    <3>1. 0 \in 0 .. Capacity /\ 0 \in {0, 1} /\ 0 \in Nat
      BY DEF SysvAssumption
    <3> QED
      BY <1>1, <1>5, <3>1, Bits, ZeroTableFits DEF ServerListens, TypeOK, memory
  <2>2. \A w \in Workers : ~Inside(w)
    BY <1>5, LivingInside DEF ServerListens
  <2> QED
    BY <1>5, <2>1, <2>2, ServerStep DEF ServerListens, memory
<1> QED
  BY <1>2, <1>3, <1>4, <1>5

-----------------------------------------------------------------------------
LEMMA Start ==
  ASSUME SysvAssumption, Init
  PROVE  IInv
<1>1. TypeOK
  <2>1. 0 \in 0 .. Capacity /\ 0 \in 0 .. MaxStarts /\ 0 \in {0, 1} /\ 0 \in Nat
    BY DEF SysvAssumption
  <2> QED
    BY <2>1, Bits, ZeroTableFits DEF Init, TypeOK
<1>2. \A w \in Workers : pc[w] = "none" /\ undo[w] = 0
  BY DEF Init
<1>3. \A w \in Workers : ~Inside(w)
  BY <1>2 DEF Inside
<1>4. MutualExclusion
  BY <1>3 DEF Init, MutualExclusion
<1>5. Holds
  BY <1>2, <1>3 DEF Holds
<1>6. HasRequest
  BY <1>2 DEF HasRequest, Commands
<1>7. \A w \in Workers : Knows(w)
  BY <1>2 DEF Knows
<1> QED
  BY <1>1, <1>4, <1>5, <1>6, <1>7 DEF IInv, LockSound

LEMMA Stays ==
  ASSUME SysvAssumption, IInv, [Next]_vars
  PROVE  IInv'
<1>1. ASSUME NEW w \in Workers,
             Fork(w) \/ Receive(w) \/ Leave(w) \/ Kill(w) \/ Lock(w) \/ RunCommand(w)
      PROVE  IInv'
  BY <1>1, ForkReceiveLeaveStep, KillStep, LockStep, SearchStep, SetOldStep, SetFullStep,
     SetKeyStep, SetValueStep, SetCountStep, GetStep, DeleteMissStep, ShiftKeyStep,
     ShiftValueStep, DropStep, BlindStep, UnlockStep, SemFailsStep DEF RunCommand
<1>2. CASE UNCHANGED vars
  BY <1>2 DEF vars, lock, memory, server, IInv, LockSound, TypeOK, MutualExclusion, Holds,
     HasRequest, Knows, Inside
<1> QED
  BY <1>1, <1>2, ServerSteps DEF Next

\* The invariant that carries the others.
THEOREM Invariance == Spec => []IInv
BY Start, Stays, SysvAssumption, PTL DEF Spec

\* However workers are killed and servers started, the memory keeps its shape, the
\* semaphore is up exactly while one living worker is in the storage, and no two
\* workers are in it (the operations of run_command carry SEM_UNDO).
THEOREM LockAlwaysSound == Spec => []LockSound
<1>1. IInv => LockSound
  BY DEF IInv
<1> QED
  BY <1>1, Invariance, PTL
-----------------------------------------------------------------------------
(* No key is lost.                                                          *)

\* What a deleting worker knows of the keys it handles.
KeysKnown ==
  \A w \in Workers :
    /\ pc[w] = "delete" /\ pos[w] # NotFound => slot[pos[w]].key = req[w].key
    /\ pc[w] = "shift value" => slot[pos[w]].key = slot[pos[w] + 1].key

\* A server that has found a storage nobody uses has it empty and to itself.
Fresh == second /\ ~removed /\ ~spoilt => ~master /\ Living = {} /\ count = 0

LInv ==
  /\ IInv
  /\ ~spoilt => KeysKnown
  /\ Fresh

\* Only a worker inside writes to the table, and the others do not handle keys.
LEMMA KeysKnownKept ==
  ASSUME SysvAssumption, IInv, ~spoilt => KeysKnown, NEW w \in Workers,
         NEW to, pc' = [pc EXCEPT ![w] = to], UNCHANGED spoilt,
         \A v \in Workers : v # w => pos'[v] = pos[v] /\ req'[v] = req[v],
         slot' = slot \/ Inside(w),
         ~spoilt => /\ to = "delete" /\ pos'[w] # NotFound => slot'[pos'[w]].key = req'[w].key
                    /\ to = "shift value" => slot'[pos'[w]].key = slot'[pos'[w] + 1].key
  PROVE  ~spoilt' => KeysKnown'
<1> SUFFICES ASSUME ~spoilt, NEW v \in Workers
             PROVE /\ pc'[v] = "delete" /\ pos'[v] # NotFound => slot'[pos'[v]].key = req'[v].key
                   /\ pc'[v] = "shift value" => slot'[pos'[v]].key = slot'[pos'[v] + 1].key
  BY DEF KeysKnown
<1>1. pc \in [Workers -> {"none", "idle", "lock", "search", "set", "set value",
               "set count", "get", "delete", "shift", "shift value", "unlock", "gone"}]
  BY DEF IInv, LockSound, TypeOK
<1>2. CASE v = w
  BY <1>1, <1>2
<1>3. CASE v # w
  <2>1. pc'[v] = pc[v] /\ pos'[v] = pos[v] /\ req'[v] = req[v]
    BY <1>1, <1>3
  <2>2. CASE slot' = slot
    BY <2>1, <2>2 DEF KeysKnown
  <2>3. CASE Inside(w)
    <3>1. ~Inside(v)
      BY <1>3, <2>3 DEF IInv, LockSound, MutualExclusion
    <3> QED
      BY <2>1, <3>1 DEF Inside
  <2> QED
    BY <2>2, <2>3
<1> QED
  BY <1>2, <1>3

PutKey(e, k) == [e EXCEPT !.key = k]
PutValue(e, v) == [e EXCEPT !.value = v]

LEMMA Puts ==
  ASSUME NEW e \in Entry, NEW n \in Int
  PROVE  PutKey(e, n).key = n /\ PutValue(e, n).key = e.key
BY DEF Entry, PutKey, PutValue

LEMMA KeysKnownStays ==
  ASSUME SysvAssumption, LInv, [Next]_vars
  PROVE  ~spoilt' => KeysKnown'
<1>1. IInv /\ (~spoilt => KeysKnown) /\ TypeOK
  BY DEF LInv, IInv, LockSound
<1>2. ASSUME NEW w \in Workers, Fork(w) \/ Receive(w) \/ Leave(w) \/ Kill(w) \/ Lock(w)
                                \/ Unlock(w) \/ SemFails(w) \/ Blind(w)
      PROVE  ~spoilt' => KeysKnown'
  <2>1. /\ UNCHANGED <<slot, spoilt>>
        /\ \E to \in {"idle", "lock", "gone", "search", "unlock"} : pc' = [pc EXCEPT ![w] = to]
    BY <1>2 DEF Fork, Receive, Leave, Kill, Lock, Unlock, SemFails, Blind, memory, server
  <2>2. \A v \in Workers : v # w => pos'[v] = pos[v] /\ req'[v] = req[v]
    BY <1>1, <1>2 DEF Fork, Receive, Leave, Kill, Lock, Unlock, SemFails, Blind, ForgetCommand, TypeOK
  <2> QED
    BY <1>1, <2>1, <2>2, KeysKnownKept
<1>3. ASSUME NEW w \in Workers, Search(w)
      PROVE  ~spoilt' => KeysKnown'
  <2>1. /\ pc' = [pc EXCEPT ![w] = req[w].cmd] /\ UNCHANGED <<slot, spoilt, req>>
    BY <1>3 DEF Search, Step, memory, server
  <2>2. PICK i : /\ pos' = [pos EXCEPT ![w] = i]
                 /\ i # NotFound => slot[i].key = req[w].key
    BY <1>3 DEF Search, Hits
  <2>3. pos'[w] = i /\ \A v \in Workers : v # w => pos'[v] = pos[v]
    BY <1>1, <2>2 DEF TypeOK
  <2>4. req[w].cmd # "shift value"
    <3>1. req[w] \in Request
      BY <1>1, <1>3 DEF Search, Step, IInv, HasRequest, Commands
    <3> QED
      BY <3>1, RequestFields
  <2> QED
    BY <1>1, <2>1, <2>2, <2>3, <2>4, KeysKnownKept
<1>4. ASSUME NEW w \in Workers,
             SetOld(w) \/ SetFull(w) \/ SetKey(w) \/ SetValue(w) \/ SetCount(w) \/ Get(w)
             \/ DeleteMiss(w) \/ ShiftValue(w) \/ Drop(w)
      PROVE  ~spoilt' => KeysKnown'
  <2>1. /\ UNCHANGED <<spoilt, req>> /\ pc[w] \in Commands
        /\ \E to \in {"unlock", "set value", "set count", "shift"} : pc' = [pc EXCEPT ![w] = to]
    BY <1>4 DEF SetOld, SetFull, SetKey, SetValue, SetCount, Get, DeleteMiss, ShiftValue, Drop,
       Finish, Step, Commands, server
  <2>2. \A v \in Workers : v # w => pos'[v] = pos[v]
    BY <1>1, <1>4 DEF SetOld, SetFull, SetKey, SetValue, SetCount, Get, DeleteMiss, ShiftValue,
       Drop, Finish, TypeOK
  <2>3. Inside(w)
    BY <2>1 DEF Inside, Commands
  <2> QED
    BY <1>1, <2>1, <2>2, <2>3, KeysKnownKept
<1>5. ASSUME NEW w \in Workers, ShiftKey(w)
      PROVE  ~spoilt' => KeysKnown'
  <2>1. /\ UNCHANGED <<spoilt, req, pos, count>> /\ pc[w] \in Commands
        /\ pc' = [pc EXCEPT ![w] = "shift value"] /\ pos[w] # NotFound
        /\ pos[w] < count - 1
        /\ slot' = [slot EXCEPT ![pos[w]].key = slot[pos[w] + 1].key]
    BY <1>5 DEF ShiftKey, Step, Commands, server, MoreAfter
  <2>2. pos[w] \in Slots /\ slot \in [Slots -> Entry] /\ Inside(w)
        /\ count \in Nat /\ count <= Capacity
    BY <1>1, <2>1, InCommand
  <2>3. pos[w] < count - 1
    BY <2>1
  <2>4. pos[w] + 1 \in Slots
    BY <2>2, <2>3, NextIndex
  <2>5. pos[w] + 1 # pos[w]
    BY <2>2, Indices
  <2>6. slot[pos[w] + 1].key \in Int
    BY <2>2, <2>4 DEF Entry
  <2>7. slot'[pos[w]].key = slot[pos[w] + 1].key /\ slot'[pos[w] + 1] = slot[pos[w] + 1]
    <3>1. slot[pos[w]] \in Entry
      BY <2>2
    <3>2. slot' = [slot EXCEPT ![pos[w]] = PutKey(slot[pos[w]], slot[pos[w] + 1].key)]
      BY <2>1, Zenon DEF PutKey
    <3> QED
      BY <2>2, <2>4, <2>5, <2>6, <3>1, <3>2, Puts
  <2> QED
    BY <1>1, <2>1, <2>2, <2>7, KeysKnownKept
<1>6. CASE MasterKilled \/ ServerInit \/ ServerFails \/ ServerListens \/ UNCHANGED vars
  <2> SUFFICES ASSUME ~spoilt' PROVE KeysKnown'
    OBVIOUS
  <2>1. UNCHANGED <<pc, pos, req>>
    BY <1>6 DEF MasterKilled, ServerInit, ServerFails, ServerListens, vars
  <2>2. Living = {} \/ (~spoilt /\ slot' = slot)
    BY <1>6 DEF MasterKilled, ServerInit, ServerFails, ServerListens, vars, memory, server
  <2>3. CASE Living = {}
    <3>1. \A w \in Workers : pc[w] \in {"none", "gone"}
      BY <2>3 DEF Living
    <3> QED
      BY <2>1, <3>1 DEF KeysKnown
  <2>4. CASE ~spoilt /\ slot' = slot
    BY <1>1, <2>1, <2>4 DEF KeysKnown
  <2> QED
    BY <2>2, <2>3, <2>4
<1> QED
  BY <1>2, <1>3, <1>4, <1>5, <1>6 DEF Next, RunCommand
LEMMA FreshStays ==
  ASSUME Fresh, [Next]_vars
  PROVE  Fresh'
<1>1. ASSUME NEW w \in Workers,
             Fork(w) \/ Receive(w) \/ Leave(w) \/ Kill(w) \/ Lock(w) \/ RunCommand(w)
      PROVE  Fresh'
  <2>1. UNCHANGED <<second, removed, spoilt, master>>
    BY <1>1 DEF Fork, Receive, Leave, Kill, Lock, RunCommand, Search, SetOld, SetFull, SetKey,
       SetValue, SetCount, Get, DeleteMiss, ShiftKey, ShiftValue, Drop, Blind, Unlock, SemFails,
       Finish, Step, lock, server
  <2>2. master \/ w \in Living
    BY <1>1 DEF Fork, Receive, Leave, Kill, Lock, RunCommand, Search, SetOld, SetFull, SetKey,
       SetValue, SetCount, Get, DeleteMiss, ShiftKey, ShiftValue, Drop, Blind, Unlock, SemFails,
       Finish, Step, Living, Inside
  <2> QED
    BY <2>1, <2>2 DEF Fresh
<1>2. CASE MasterKilled
  BY <1>2 DEF MasterKilled, Fresh, Living, lock, memory
<1>3. CASE ServerInit
  BY <1>3 DEF ServerInit, Fresh, Living, Emptied, lock
<1>4. CASE ServerFails \/ ServerListens
  BY <1>4 DEF ServerFails, ServerListens, Fresh
<1>5. CASE UNCHANGED vars
  BY <1>5 DEF vars, Fresh, Living, lock, memory, server
<1> QED
  BY <1>1, <1>2, <1>3, <1>4, <1>5 DEF Next

LEMMA LInvariance == Spec => []LInv
<1>1. Init => LInv
  BY Start, SysvAssumption DEF Init, LInv, KeysKnown, Fresh
<1>2. LInv /\ [Next]_vars => LInv'
  BY Stays, KeysKnownStays, FreshStays, SysvAssumption DEF LInv
<1> QED
  BY <1>1, <1>2, PTL DEF Spec

\* The entries of a table are still there when none of them is written over or
\* dropped, and no worker begins to close a gap.
LEMMA StillPresent ==
  ASSUME NEW k, Present(k),
         \A i \in Used : i < count' /\ slot'[i].key = slot[i].key,
         \A v \in Workers : Shifting(v)' => Shifting(v) /\ pos'[v] = pos[v]
  PROVE  Present(k)'
<1>1. PICK i \in Used : slot[i].key = k
  BY DEF Present
<1>2. i \in Used'
  BY DEF Used
<1> QED
  BY <1>1, <1>2 DEF Present

\* A step of a worker outside of the writes.
LEMMA PresentUnwritten ==
  ASSUME TypeOK, NEW w \in Workers, UNCHANGED memory,
         NEW to \in {"idle", "lock", "search", "set", "get", "delete", "unlock", "gone"},
         pc' = [pc EXCEPT ![w] = to],
         \A v \in Workers : v # w => pos'[v] = pos[v],
         NEW k, Present(k)
  PROVE  Present(k)'
<1>1. \A i \in Used : i < count' /\ slot'[i].key = slot[i].key
  BY DEF memory, Used
<1>2. \A v \in Workers : Shifting(v)' => Shifting(v) /\ pos'[v] = pos[v]
  BY DEF Shifting, TypeOK
<1> QED
  BY <1>1, <1>2, StillPresent

\* The worker inside is the only one that may be closing a gap.
LEMMA OneShifts ==
  ASSUME IInv, NEW w \in Workers, Inside(w), NEW to, pc' = [pc EXCEPT ![w] = to]
  PROVE  /\ \A v \in Workers : v # w => ~Shifting(v) /\ ~Shifting(v)'
         /\ Shifting(w)' <=> to \in {"shift", "shift value"}
<1>1. pc \in [Workers -> {"none", "idle", "lock", "search", "set", "set value",
               "set count", "get", "delete", "shift", "shift value", "unlock", "gone"}]
  BY DEF IInv, LockSound, TypeOK
<1>2. \A v \in Workers : v # w => ~Inside(v) /\ pc'[v] = pc[v]
  BY <1>1 DEF IInv, LockSound, MutualExclusion
<1> QED
  BY <1>1, <1>2 DEF Shifting, Inside

LEMMA PresentSet ==
  ASSUME SysvAssumption, IInv, NEW w \in Workers,
         SetOld(w) \/ SetKey(w) \/ SetValue(w) \/ SetCount(w),
         NEW k, Present(k)
  PROVE  Present(k)'
<1>1. /\ pc[w] \in Commands /\ ~spoilt
      /\ pc[w] \in {"set", "set value", "set count"}
      /\ \E to \in {"unlock", "set value", "set count"} : pc' = [pc EXCEPT ![w] = to]
  BY DEF SetOld, SetKey, SetValue, SetCount, Finish, Step, Commands
<1>2. /\ slot \in [Slots -> Entry] /\ count \in Nat /\ Inside(w)
      /\ pos[w] \in Slots \cup {NotFound}
      /\ req[w].key \in Int /\ req[w].value \in Int
      /\ pc[w] \in {"set value", "set count"} => count < Capacity
  BY <1>1, InCommand DEF Knows
<1>3. \A v \in Workers : Shifting(v)' => Shifting(v) /\ pos'[v] = pos[v]
  <2>1. \A v \in Workers : ~Shifting(v)'
    BY <1>1, <1>2, OneShifts
  <2> QED
    BY <2>1
<1>4. \A i \in Used : i \in Slots /\ i \in Nat /\ i < count
  BY Indices DEF Used
<1>5. CASE SetOld(w)
  <2>1. pos[w] # NotFound /\ count' = count
        /\ slot' = [slot EXCEPT ![pos[w]].value = req[w].value]
    BY <1>5 DEF SetOld
  <2>2. \A i \in Slots : slot'[i].key = slot[i].key
    <3>1. pos[w] \in Slots /\ slot[pos[w]] \in Entry
      BY <1>2, <2>1
    <3>2. slot' = [slot EXCEPT ![pos[w]] = PutValue(slot[pos[w]], req[w].value)]
      BY <2>1, Zenon DEF PutValue
    <3>3. PutValue(slot[pos[w]], req[w].value).key = slot[pos[w]].key
      BY <1>2, <3>1, Puts
    <3>4. slot \in [Slots -> Entry]
      BY <1>2
    <3> QED
      BY <3>1, <3>2, <3>3, <3>4
  <2>3. \A i \in Used : i < count' /\ slot'[i].key = slot[i].key
    BY <1>4, <2>1, <2>2
  <2> QED
    BY <1>3, <2>3, StillPresent
<1>6. CASE SetKey(w)
  <2>1. count < Capacity /\ count' = count /\ slot' = [slot EXCEPT ![count].key = req[w].key]
    BY <1>6 DEF SetKey, HasRoom, CountAfter
  <2>2. count \in Slots
    <3>1. count < Capacity
      BY <2>1
    <3> QED
      BY <1>2, <3>1, IndexBelow
  <2>3. \A i \in Slots : i # count => slot'[i] = slot[i]
    BY <1>2, <2>1, <2>2
  <2>4. \A i \in Used : i # count
    <3>1. count \in Nat
      BY <1>2
    <3> QED
      BY <1>4, <3>1
  <2>5. \A i \in Used : i < count' /\ slot'[i].key = slot[i].key
    BY <1>4, <2>1, <2>3, <2>4
  <2> QED
    BY <1>3, <2>5, StillPresent
<1>7. CASE SetValue(w)
  <2>1. count' = count /\ slot' = [slot EXCEPT ![count].value = req[w].value]
        /\ pc[w] = "set value"
    BY <1>7 DEF SetValue, CountAfter, Step
  <2>2. count < Capacity
    BY <1>2, <2>1
  <2>3. count \in Slots
    BY <1>2, <2>2, IndexBelow
  <2>4. \A i \in Slots : slot'[i].key = slot[i].key
    <3>1. slot[count] \in Entry
      BY <1>2, <2>3
    <3>2. slot' = [slot EXCEPT ![count] = PutValue(slot[count], req[w].value)]
      BY <2>1, Zenon DEF PutValue
    <3>3. req[w].value \in Int
      BY <1>2, <2>1
    <3>4. PutValue(slot[count], req[w].value).key = slot[count].key
      BY <3>1, <3>3, Puts
    <3>5. slot \in [Slots -> Entry]
      BY <1>2
    <3> QED
      BY <2>3, <3>2, <3>4, <3>5
  <2>5. \A i \in Used : i < count' /\ slot'[i].key = slot[i].key
    BY <1>4, <2>1, <2>4
  <2> QED
    BY <1>3, <2>5, StillPresent
<1>8. CASE SetCount(w)
  <2>1. count' = count + 1 /\ slot' = slot
    BY <1>8 DEF SetCount, CountAfter
  <2>2. \A i \in Used : i < count' /\ slot'[i].key = slot[i].key
    <3>1. count \in Nat
      BY <1>2
    <3>2. \A i \in Used : i < count + 1
      BY <1>4, <3>1, Below
    <3> QED
      BY <2>1, <3>2
  <2> QED
    BY <1>3, <2>2, StillPresent
<1> QED
  BY <1>5, <1>6, <1>7, <1>8
\* The worker that closes a gap moves the entry behind it into the gap.
LEMMA PresentShift ==
  ASSUME SysvAssumption, IInv, KeysKnown, NEW w \in Workers,
         \/ pc[w] = "shift" /\ (ShiftKey(w) \/ Drop(w))
         \/ ShiftValue(w),
         NEW k, Present(k)
  PROVE  Present(k)'
<1>1. /\ pc[w] \in {"shift", "shift value"} /\ pc[w] \in Commands /\ ~spoilt
      /\ \E to \in {"unlock", "shift", "shift value"} : pc' = [pc EXCEPT ![w] = to]
  BY DEF ShiftKey, ShiftValue, Drop, Finish, Step, Commands
<1>2. /\ slot \in [Slots -> Entry] /\ count \in Nat /\ count <= Capacity /\ Inside(w)
      /\ pos \in [Workers -> Slots \cup {NotFound}]
      /\ pos[w] \in Slots /\ pos[w] < count
      /\ pc[w] = "shift value" => pos[w] < count - 1
  <2>1. pos[w] \in Slots
    BY <1>1, InCommand DEF Knows
  <2>2. pos[w] \in Nat /\ count \in Nat /\ Knows(w)
    BY <1>1, <2>1, InCommand, Indices
  <2>3. pos[w] < count \/ pos[w] < count - 1
    BY <1>1, <2>2 DEF Knows
  <2>4. pos[w] < count
    BY <2>2, <2>3
  <2> QED
    BY <1>1, <2>1, <2>2, <2>4, InCommand DEF Knows
<1>3. Shifting(w) /\ \A v \in Workers : v # w => ~Shifting(v) /\ ~Shifting(v)'
  BY <1>1, <1>2, OneShifts DEF Shifting
<1>4. \A i \in Used : i \in Slots /\ i \in Nat /\ i < count /\ i # pos[w]
  BY <1>3, Indices DEF Used
<1>5. pos[w] \in Nat
  BY <1>2, Indices
<1>6. CASE pc[w] = "shift" /\ ShiftKey(w)
  <2>1. /\ UNCHANGED <<count, pos>> /\ pos[w] < count - 1
        /\ slot' = [slot EXCEPT ![pos[w]].key = slot[pos[w] + 1].key]
    BY <1>6 DEF ShiftKey, MoreAfter
  <2>2. pos[w] + 1 \in Slots
    <3>1. pos[w] < count - 1
      BY <2>1
    <3> QED
      BY <1>2, <3>1, NextIndex
  <2>3. slot[pos[w] + 1].key \in Int
    BY <1>2, <2>2 DEF Entry
  <2>4. \A i \in Slots : i # pos[w] => slot'[i] = slot[i]
    BY <1>2, <2>1
  <2>5. \A i \in Used : i < count' /\ slot'[i].key = slot[i].key
    BY <1>4, <2>1, <2>4
  <2>6. \A v \in Workers : Shifting(v)' => Shifting(v) /\ pos'[v] = pos[v]
    BY <1>3, <2>1
  <2> QED
    BY <2>5, <2>6, StillPresent
<1>7. CASE pc[w] = "shift" /\ Drop(w)
  <2>1. count' = count - 1 /\ slot' = slot /\ pos' = pos /\ ~(pos[w] < count - 1)
    BY <1>7 DEF Drop, MoreAfter, Finish
  <2>2. pos[w] = count - 1
    BY <1>2, <1>5, <2>1, Below
  <2>3. \A i \in Used : i < count - 1
    <3>1. count \in Nat
      BY <1>2
    <3> QED
      BY <1>4, <2>2, <3>1, Below
  <2>4. \A i \in Used : i < count' /\ slot'[i].key = slot[i].key
    BY <2>1, <2>3
  <2>5. \A v \in Workers : Shifting(v)' => Shifting(v) /\ pos'[v] = pos[v]
    BY <1>3, <2>1
  <2> QED
    BY <2>4, <2>5, StillPresent
<1>8. CASE ShiftValue(w)
  <2>1. /\ pc[w] = "shift value" /\ count' = count
        /\ slot' = [slot EXCEPT ![pos[w]].value = slot[pos[w] + 1].value]
        /\ pos' = [pos EXCEPT ![w] = pos[w] + 1]
    BY <1>8 DEF ShiftValue, Step, Following
  <2>2. pos[w] < count - 1 /\ slot[pos[w]].key = slot[pos[w] + 1].key
    BY <1>2, <2>1 DEF KeysKnown
  <2>3. pos[w] + 1 \in Slots
    BY <1>2, <2>2, NextIndex
  <2>4. slot[pos[w] + 1].value \in Int
    BY <1>2, <2>3 DEF Entry
  <2>5. \A i \in Slots : slot'[i].key = slot[i].key
    <3>1. slot[pos[w]] \in Entry
      BY <1>2
    <3>2. slot' = [slot EXCEPT ![pos[w]] = PutValue(slot[pos[w]], slot[pos[w] + 1].value)]
      BY <2>1, Zenon DEF PutValue
    <3>3. PutValue(slot[pos[w]], slot[pos[w] + 1].value).key = slot[pos[w]].key
      BY <2>4, <3>1, Puts
    <3>4. slot \in [Slots -> Entry] /\ pos[w] \in Slots
      BY <1>2
    <3> QED
      BY <3>1, <3>2, <3>3, <3>4
  <2>6. pos'[w] = pos[w] + 1
    BY <1>2, <2>1
  <2>7. \A i \in Slots : i < count' /\ i # pos[w] + 1 => i \in Used'
    BY <1>3, <2>6 DEF Used
  <2>8. PICK i \in Used : slot[i].key = k
    BY DEF Present
  <2>9. CASE i = pos[w] + 1
    <3>1. pos[w] < count /\ pos[w] # pos[w] + 1
      BY <1>2, <1>5, Below
    <3>2. pos[w] \in Used'
      BY <1>2, <2>1, <2>7, <3>1
    <3>3. slot'[pos[w]].key = k
      BY <1>2, <2>2, <2>5, <2>8, <2>9
    <3> QED
      BY <3>2, <3>3 DEF Present
  <2>10. CASE i # pos[w] + 1
    <3>1. i \in Used' /\ slot'[i].key = k
      BY <1>4, <2>1, <2>5, <2>7, <2>8, <2>10
    <3> QED
      BY <3>1 DEF Present
  <2> QED
    BY <2>9, <2>10
<1> QED
  BY <1>6, <1>7, <1>8

\* The first step of the deletion takes the key the client named, and no other.
LEMMA PresentDelete ==
  ASSUME SysvAssumption, IInv, KeysKnown, NEW w \in Workers,
         pc[w] = "delete", ShiftKey(w) \/ Drop(w),
         NEW k, Present(k), k # req[w].key
  PROVE  Present(k)'
<1>1. /\ pc[w] \in Commands /\ ~spoilt /\ pos[w] # NotFound /\ pos' = pos
      /\ \E to \in {"unlock", "shift value"} : pc' = [pc EXCEPT ![w] = to]
  BY DEF ShiftKey, Drop, Finish, Step, Commands
<1>2. /\ slot \in [Slots -> Entry] /\ count \in Nat /\ count <= Capacity /\ Inside(w)
      /\ pos[w] \in Slots /\ pos[w] < count
  BY <1>1, InCommand DEF Knows
<1>3. /\ \A v \in Workers : v # w => ~Shifting(v) /\ ~Shifting(v)'
  BY <1>1, <1>2, OneShifts
<1>4. PICK i \in Used : slot[i].key = k
  BY DEF Present
<1>5. i \in Slots /\ i \in Nat /\ i < count /\ pos[w] \in Nat
  BY <1>2, Indices DEF Used
<1>6. i # pos[w]
  BY <1>1, <1>4 DEF KeysKnown
<1>7. i < count' /\ slot'[i].key = k
  <2>1. CASE ShiftKey(w)
    <3>1. /\ count' = count /\ pos[w] < count - 1
          /\ slot' = [slot EXCEPT ![pos[w]].key = slot[pos[w] + 1].key]
      BY <2>1 DEF ShiftKey, MoreAfter
    <3>2. pos[w] + 1 \in Slots
      <4>1. pos[w] < count - 1
        BY <3>1
      <4> QED
        BY <1>2, <4>1, NextIndex
    <3>3. slot[pos[w] + 1].key \in Int
      BY <1>2, <3>2 DEF Entry
    <3>4. slot'[i] = slot[i]
      BY <1>2, <1>5, <1>6, <3>1
    <3> QED
      BY <1>4, <1>5, <3>1, <3>4
  <2>2. CASE Drop(w)
    <3>1. count' = count - 1 /\ slot' = slot /\ ~(pos[w] < count - 1)
      BY <2>2 DEF Drop, MoreAfter
    <3>2. pos[w] = count - 1
      BY <1>2, <1>5, <3>1
    <3> QED
      BY <1>2, <1>4, <1>5, <1>6, <3>1, <3>2
  <2> QED
    BY <2>1, <2>2
<1>8. i \in Used'
  <2>1. \A v \in Workers : Shifting(v)' => pos'[v] # i
    BY <1>1, <1>3, <1>6
  <2> QED
    BY <1>5, <1>7, <2>1 DEF Used
<1> QED
  BY <1>7, <1>8 DEF Present
LEMMA PresentStays ==
  ASSUME SysvAssumption, LInv, [Next]_vars, ~spoilt', second' = second,
         NEW k, Present(k), ~Present(k)'
  PROVE  \E w \in Workers : pc[w] = "delete" /\ pc'[w] # "delete" /\ req[w].key = k
<1>1. IInv /\ TypeOK /\ (~spoilt => KeysKnown)
  BY DEF LInv, IInv, LockSound
<1>2. ASSUME NEW w \in Workers, Fork(w) \/ Receive(w) \/ Leave(w) \/ Kill(w) \/ Lock(w)
                                \/ Unlock(w) \/ SemFails(w)
      PROVE  FALSE
  <2>1. /\ UNCHANGED memory
        /\ \E to \in {"idle", "lock", "gone", "search"} : pc' = [pc EXCEPT ![w] = to]
    BY <1>2 DEF Fork, Receive, Leave, Kill, Lock, Unlock, SemFails
  <2>2. \A v \in Workers : v # w => pos'[v] = pos[v]
    BY <1>1, <1>2 DEF Fork, Receive, Leave, Kill, Lock, Unlock, SemFails, ForgetCommand, TypeOK
  <2> QED
    BY <1>1, <2>1, <2>2, PresentUnwritten
<1>3. ASSUME NEW w \in Workers, Search(w) \/ SetFull(w) \/ Get(w) \/ DeleteMiss(w)
      PROVE  FALSE
  <2>1. /\ UNCHANGED memory
        /\ \E to \in {req[w].cmd, "unlock"} : pc' = [pc EXCEPT ![w] = to]
        /\ pc[w] \in Commands
    BY <1>3 DEF Search, SetFull, Get, DeleteMiss, Finish, Step, Commands
  <2>2. \A v \in Workers : v # w => pos'[v] = pos[v]
    BY <1>1, <1>3 DEF Search, SetFull, Get, DeleteMiss, Finish, TypeOK
  <2>3. req[w].cmd \in {"set", "get", "delete"}
    BY <1>1, <2>1, InCommand, RequestFields
  <2> QED
    BY <1>1, <2>1, <2>2, <2>3, PresentUnwritten
<1>4. ASSUME NEW w \in Workers, SetOld(w) \/ SetKey(w) \/ SetValue(w) \/ SetCount(w)
      PROVE  FALSE
  BY <1>1, <1>4, PresentSet
<1>5. ASSUME NEW w \in Workers, ShiftValue(w)
      PROVE  FALSE
  <2>1. ~spoilt
    BY <1>5 DEF ShiftValue, Step
  <2> QED
    BY <1>1, <1>5, <2>1, PresentShift
<1>6. ASSUME NEW w \in Workers, ShiftKey(w) \/ Drop(w)
      PROVE  pc[w] = "delete" /\ pc'[w] # "delete" /\ req[w].key = k
  <2>1. /\ pc[w] \in {"delete", "shift"} /\ ~spoilt
        /\ \E to \in {"unlock", "shift value"} : pc' = [pc EXCEPT ![w] = to]
    BY <1>6 DEF ShiftKey, Drop, Finish, Step
  <2>2. pc[w] # "shift"
    BY <1>1, <1>6, <2>1, PresentShift
  <2>3. req[w].key = k
    BY <1>1, <1>6, <2>1, <2>2, PresentDelete
  <2>4. pc'[w] # "delete"
    BY <1>1, <2>1 DEF TypeOK
  <2> QED
    BY <2>1, <2>2, <2>3, <2>4
<1>7. ASSUME NEW w \in Workers, Blind(w)
      PROVE  FALSE
  BY <1>7 DEF Blind, server
<1>8. CASE MasterKilled \/ UNCHANGED vars
  <2>1. UNCHANGED <<pc, pos, count, slot>>
    BY <1>8 DEF MasterKilled, vars, memory
  <2> QED
    BY <2>1 DEF Present, Used, Shifting
<1>9. CASE ServerInit \/ ServerFails \/ ServerListens
  BY <1>9 DEF ServerInit, ServerFails, ServerListens
<1> QED
  BY <1>2, <1>3, <1>4, <1>5, <1>6, <1>7, <1>8, <1>9 DEF Next, RunCommand

LEMMA StartsEmpty ==
  ASSUME LInv, [Next]_vars, ~master, master'
  PROVE  count' = 0 \/ spoilt'
<1>1. ASSUME NEW w \in Workers,
             Fork(w) \/ Receive(w) \/ Leave(w) \/ Kill(w) \/ Lock(w) \/ RunCommand(w)
      PROVE  FALSE
  BY <1>1 DEF Fork, Receive, Leave, Kill, Lock, RunCommand, Search, SetOld, SetFull, SetKey,
     SetValue, SetCount, Get, DeleteMiss, ShiftKey, ShiftValue, Drop, Blind, Unlock, SemFails,
     Finish, Step, server
<1>2. ServerListens
  BY <1>1 DEF Next, MasterKilled, ServerInit, ServerFails, vars, server
<1>3. second /\ (removed => count' = 0) /\ (~removed => UNCHANGED <<count, spoilt>>)
  BY <1>2 DEF ServerListens, memory
<1> QED
  BY <1>3 DEF LInv, Fresh

\* No key leaves the table but by the delete its client asked for or with the whole
\* table when a server starts, and a server starts with an empty table: wherever
\* workers are killed, for any number of them.
THEOREM KeysStay == Spec => NothingLost
<1>1. LInv /\ [Next]_vars =>
        [/\ \A k \in Keys : ~spoilt' /\ Present(k) /\ ~Present(k)' =>
              \/ \E w \in Workers : /\ pc[w] = "delete" /\ pc'[w] # "delete"
                                    /\ req[w].key = k
              \/ second' # second
         /\ ~master /\ master' => count' = 0 \/ spoilt']_vars
  BY PresentStays, StartsEmpty, SysvAssumption
<1> QED
  BY <1>1, LInvariance, PTL DEF Spec, NothingLost

-----------------------------------------------------------------------------
(* What the clients see, as long as no worker was killed in a gap.           *)

\* A worker without a command has no answer either; it has one when it is to
\* unlock.
Answering ==
  \A w \in Workers :
    /\ pc[w] \in {"none", "idle", "gone"} => req[w] = Nothing /\ reply[w] = Nothing
    /\ pc[w] \in {"lock"} \cup Commands => reply[w] = Nothing
    /\ ~spoilt /\ pc[w] = "unlock" => req[w] \in Request /\ reply[w] \in Result

\* Every entry has a key of its own.
KeysUnique ==
  /\ \A i, j \in Used : slot[i].key = slot[j].key => i = j
  /\ \A i \in Used : slot[i].key \in Keys

\* What worker w has found out about its key since it took the lock, and written.
Sound(w) ==
  /\ pc[w] \in {"set", "get", "delete"} =>
       /\ req[w].cmd = pc[w]
       /\ pos[w] = NotFound => ~Present(req[w].key)
       /\ pos[w] # NotFound => slot[pos[w]].key = req[w].key
  /\ pc[w] \in {"set value", "set count"} => ~Present(req[w].key) /\ slot[count].key = req[w].key
  /\ pc[w] = "set count" => slot[count].value = req[w].value

Informed == \A w \in Workers : Sound(w)

WInv ==
  /\ LInv
  /\ Answering
  /\ ~spoilt => Informed
  /\ ~spoilt /\ hurt = 0 => KeysUnique

LEMMA Distinct ==
  /\ \A r \in Request : r # Nothing /\ r.key \in Keys
  /\ \A r \in Result : r # Nothing
BY DEF Request, Result, Nothing

\* A worker's step keeps Answering when it keeps it for the worker.
LEMMA AnsweringKept ==
  ASSUME TypeOK, Answering, NEW w \in Workers, NEW to, pc' = [pc EXCEPT ![w] = to],
         UNCHANGED spoilt, \A v \in Workers : v # w => req'[v] = req[v] /\ reply'[v] = reply[v],
         /\ to \in {"none", "idle", "gone"} => req'[w] = Nothing /\ reply'[w] = Nothing
         /\ to \in {"lock"} \cup Commands => reply'[w] = Nothing
         /\ ~spoilt /\ to = "unlock" => req'[w] \in Request /\ reply'[w] \in Result
  PROVE  Answering'
<1> SUFFICES ASSUME NEW v \in Workers
             PROVE /\ pc'[v] \in {"none", "idle", "gone"} => req'[v] = Nothing /\ reply'[v] = Nothing
                   /\ pc'[v] \in {"lock"} \cup Commands => reply'[v] = Nothing
                   /\ ~spoilt /\ pc'[v] = "unlock" => req'[v] \in Request /\ reply'[v] \in Result
  BY DEF Answering, Commands
<1>1. CASE v = w
  BY <1>1 DEF TypeOK
<1>2. CASE v # w
  BY <1>2 DEF TypeOK, Answering
<1> QED
  BY <1>1, <1>2

LEMMA AnsweringStays ==
  ASSUME SysvAssumption, IInv, Answering, [Next]_vars
  PROVE  Answering'
<1>1. TypeOK
  BY DEF IInv, LockSound
<1>2. ASSUME NEW w \in Workers, Fork(w) \/ Receive(w) \/ Leave(w) \/ Lock(w)
      PROVE  Answering'
  <2>1. /\ UNCHANGED <<spoilt, reply>> /\ reply[w] = Nothing
        /\ \E to \in {"idle", "lock", "gone", "search"} :
             /\ pc' = [pc EXCEPT ![w] = to]
             /\ to \in {"idle", "gone"} => req'[w] = Nothing
    BY <1>2 DEF Fork, Receive, Leave, Lock, server, Answering
  <2>2. \A v \in Workers : v # w => req'[v] = req[v]
    BY <1>1, <1>2 DEF Fork, Receive, Leave, Lock, TypeOK
  <2> QED
    BY <1>1, <2>1, <2>2, AnsweringKept DEF Commands
<1>3. ASSUME NEW w \in Workers, Kill(w) \/ Unlock(w) \/ SemFails(w) \/ Blind(w)
      PROVE  Answering'
  <2>1. /\ ForgetCommand(w) /\ UNCHANGED spoilt
        /\ \E to \in {"idle", "gone", "unlock"} :
             pc' = [pc EXCEPT ![w] = to] /\ (to = "unlock" => spoilt)
    BY <1>3 DEF Kill, Unlock, SemFails, Blind, server
  <2>2. /\ req'[w] = Nothing /\ reply'[w] = Nothing
        /\ \A v \in Workers : v # w => req'[v] = req[v] /\ reply'[v] = reply[v]
    BY <1>1, <2>1 DEF ForgetCommand, TypeOK
  <2> QED
    BY <1>1, <2>1, <2>2, AnsweringKept DEF Commands
<1>4. ASSUME NEW w \in Workers, NEW from, NEW to \in Commands, Step(w, from, to),
             from \in Commands, reply' = reply
      PROVE  Answering'
  <2>1. UNCHANGED <<spoilt, req>> /\ pc' = [pc EXCEPT ![w] = to] /\ reply[w] = Nothing
    BY <1>4 DEF Step, server, Answering
  <2> QED
    BY <1>1, <1>4, <2>1, AnsweringKept DEF Commands
<1>5. ASSUME NEW w \in Workers,
             Search(w) \/ SetKey(w) \/ SetValue(w) \/ ShiftKey(w) \/ ShiftValue(w)
      PROVE  Answering'
  <2>1. PICK from \in Commands, to \in Commands \cup {req[w].cmd} : Step(w, from, to)
    BY <1>5 DEF Search, SetKey, SetValue, ShiftKey, ShiftValue, Commands
  <2>2. pc[w] \in Commands
    BY <2>1 DEF Step
  <2>3. req[w].cmd \in Commands
    BY <2>2, InCommand, RequestFields DEF Commands
  <2> QED
    BY <1>4, <1>5, <2>1, <2>3 DEF Search, SetKey, SetValue, ShiftKey, ShiftValue
<1>6. ASSUME NEW w \in Workers, NEW from \in Commands, NEW r \in Result, Finish(w, from, r)
      PROVE  Answering'
  <2>1. UNCHANGED <<spoilt, req>> /\ pc' = [pc EXCEPT ![w] = "unlock"] /\ pc[w] \in Commands
        /\ reply' = [reply EXCEPT ![w] = r]
    BY <1>6 DEF Finish, Step, server
  <2>2. req[w] \in Request
    BY <2>1, InCommand
  <2>3. reply'[w] = r /\ \A v \in Workers : v # w => reply'[v] = reply[v]
    BY <1>1, <2>1 DEF TypeOK
  <2> QED
    BY <1>1, <2>1, <2>2, <2>3, AnsweringKept DEF Commands
<1>7. ASSUME NEW w \in Workers, SetOld(w) \/ SetFull(w) \/ SetCount(w) \/ DeleteMiss(w) \/ Drop(w)
      PROVE  Answering'
  <2>1. \E from \in Commands, r \in {Done(0), Failed} : Finish(w, from, r)
    BY <1>7, Zenon DEF SetOld, SetFull, SetCount, DeleteMiss, Drop, Commands
  <2> QED
    BY <1>6, <2>1, NothingIsNoResult
<1>8. ASSUME NEW w \in Workers, Get(w)
      PROVE  Answering'
  <2> DEFINE r == IF pos[w] = NotFound THEN Failed ELSE Done(slot[pos[w]].value)
  <2>1. pc[w] \in Commands
    BY <1>8 DEF Get, Finish, Step, Commands
  <2>2. pos[w] # NotFound => slot[pos[w]].value \in Int
    BY <2>1, InCommand DEF Entry
  <2>3. r \in Result
    BY <2>2, NothingIsNoResult
  <2>4. Finish(w, "get", r)
    BY <1>8 DEF Get
  <2> HIDE DEF r
  <2> QED
    BY <1>6, <2>3, <2>4 DEF Commands
<1>9. CASE MasterKilled \/ ServerInit \/ ServerFails \/ ServerListens \/ UNCHANGED vars
  <2>1. UNCHANGED <<pc, req, reply>>
    BY <1>9 DEF MasterKilled, ServerInit, ServerFails, ServerListens, vars
  <2>2. (spoilt => spoilt') \/ Living = {}
    BY <1>9 DEF MasterKilled, ServerInit, ServerFails, ServerListens, vars, server
  <2> QED
    BY <2>1, <2>2 DEF Answering, Living
<1> QED
  BY <1>2, <1>3, <1>5, <1>7, <1>8, <1>9 DEF Next, RunCommand

-----------------------------------------------------------------------------
(* What the steps do to the entries.                                         *)

\* What there is to know of a worker at a step of its command.
LEMMA AtStep ==
  ASSUME SysvAssumption, WInv, NEW w \in Workers, pc[w] \in Commands, ~spoilt
  PROVE  /\ Inside(w) /\ TypeOK /\ req[w] \in Request /\ req[w].key \in Keys /\ Knows(w)
         /\ slot \in [Slots -> Entry] /\ count \in Nat /\ count <= Capacity /\ Capacity \in Nat
         /\ pos \in [Workers -> Slots \cup {NotFound}] /\ pos[w] \in Slots \cup {NotFound}
         /\ \A i \in Slots : i \in Nat
         /\ \A v \in Workers : v # w => ~Shifting(v)
         /\ ~Shifting(w) => Used = {i \in Slots : i < count}
         /\ Shifting(w) => Used = {i \in Slots : i < count /\ i # pos[w]}
         /\ Sound(w) /\ (hurt = 0 => KeysUnique)
<1>1. IInv
  BY DEF WInv, LInv
<1>2. \A v \in Workers : v # w => ~Inside(v)
  BY <1>1, InCommand DEF IInv, LockSound, MutualExclusion
<1>3. \A v \in Workers : v # w => ~Shifting(v)
  BY <1>2 DEF Inside, Shifting
<1>4. /\ ~Shifting(w) => Used = {i \in Slots : i < count}
      /\ Shifting(w) => Used = {i \in Slots : i < count /\ i # pos[w]}
  BY <1>3 DEF Used
<1>5. \A i \in Slots : i \in Nat
  BY Indices
<1>6. Sound(w) /\ (hurt = 0 => KeysUnique)
  BY DEF WInv, Informed
<1> QED
  BY <1>1, <1>3, <1>4, <1>5, <1>6, InCommand, Distinct

\* The same of the entries after its step.
LEMMA UsedNext ==
  ASSUME SysvAssumption, WInv, NEW w \in Workers, pc[w] \in Commands, ~spoilt,
         NEW to, pc' = [pc EXCEPT ![w] = to]
  PROVE  /\ pc'[w] = to
         /\ \A v \in Workers : v # w => pc'[v] = pc[v] /\ ~Shifting(v)'
         /\ to \notin {"shift", "shift value"} => Used' = {i \in Slots : i < count'}
         /\ to \in {"shift", "shift value"} => Used' = {i \in Slots : i < count' /\ i # pos'[w]}
<1>1. TypeOK /\ \A v \in Workers : v # w => ~Shifting(v)
  BY AtStep
<1>2. pc'[w] = to /\ \A v \in Workers : v # w => pc'[v] = pc[v]
  BY <1>1 DEF TypeOK
<1>3. \A v \in Workers : v # w => ~Shifting(v)'
  BY <1>1, <1>2 DEF Shifting
<1> QED
  BY <1>2, <1>3 DEF Used, Shifting

\* "set" on a stored key rewrites its value.
LEMMA SetOldEffect ==
  ASSUME SysvAssumption, WInv, NEW w \in Workers, SetOld(w)
  PROVE  /\ Used' = Used /\ pos[w] \in Used
         /\ slot[pos[w]].key = req[w].key
         /\ slot'[pos[w]].key = req[w].key /\ slot'[pos[w]].value = req[w].value
         /\ \A i \in Used : i # pos[w] => slot'[i] = slot[i]
<1>1. /\ pc[w] = "set" /\ pc[w] \in Commands /\ ~spoilt /\ pos[w] # NotFound /\ count' = count
      /\ slot' = [slot EXCEPT ![pos[w]].value = req[w].value]
      /\ pc' = [pc EXCEPT ![w] = "unlock"]
  BY DEF SetOld, Finish, Step, Commands
<1>2. Used = {i \in Slots : i < count} /\ Used' = Used
  BY <1>1, AtStep, UsedNext DEF Shifting
<1>3. pos[w] \in Slots /\ pos[w] < count /\ slot[pos[w]].key = req[w].key
  BY <1>1, AtStep DEF Knows, Sound
<1>4. pos[w] \in Used
  BY <1>2, <1>3
<1>5. slot' = [slot EXCEPT ![pos[w]] = PutValue(slot[pos[w]], req[w].value)]
  BY <1>1, Zenon DEF PutValue
<1>6. slot[pos[w]] \in Entry /\ req[w].value \in Int
  BY <1>1, <1>2, AtStep, InCommand DEF WInv, LInv
<1>7. /\ PutValue(slot[pos[w]], req[w].value).key = slot[pos[w]].key
      /\ PutValue(slot[pos[w]], req[w].value).value = req[w].value
  BY <1>6 DEF PutValue, Entry
<1>8. slot \in [Slots -> Entry]
  BY <1>1, AtStep
<1> QED
  BY <1>2, <1>5, <1>7, <1>3, <1>4, <1>8

\* The writes behind the last entry touch no entry.
LEMMA Behind ==
  ASSUME SysvAssumption, NEW n \in Nat, n \in Slots, NEW f, f \in [Slots -> Entry], NEW e
  PROVE  /\ [f EXCEPT ![n] = e][n] = e
         /\ n \notin {i \in Slots : i < n}
         /\ {i \in Slots : i < n + 1} = {i \in Slots : i < n} \cup {n}
         /\ \A i \in Slots : i < n => [f EXCEPT ![n] = e][i] = f[i]
<1>1. Slots \subseteq Nat
  BY Indices
<1>2. \A i \in Slots : (i < n + 1 <=> i < n \/ i = n) /\ (i < n => i # n)
  BY <1>1
<1> QED
  BY <1>2

LEMMA SetKeyEffect ==
  ASSUME SysvAssumption, WInv, NEW w \in Workers, SetKey(w)
  PROVE  /\ Used' = Used /\ count' = count
         /\ \A i \in Used : slot'[i] = slot[i]
         /\ ~Present(req[w].key) /\ slot'[count].key = req[w].key
<1>1. /\ pc[w] = "set" /\ pc[w] \in Commands /\ ~spoilt /\ pos[w] = NotFound /\ count' = count
      /\ count < Capacity
      /\ slot' = [slot EXCEPT ![count].key = req[w].key]
      /\ pc' = [pc EXCEPT ![w] = "set value"]
  BY DEF SetKey, Step, Commands, HasRoom, CountAfter
<1>2. Used' = Used /\ Used = {i \in Slots : i < count} /\ ~Present(req[w].key)
  BY <1>1, AtStep, UsedNext DEF Shifting, Sound
<1>3. slot' = [slot EXCEPT ![count] = PutKey(slot[count], req[w].key)]
  BY <1>1, Zenon DEF PutKey
<1>4. count \in Slots
  BY <1>1, AtStep, IndexBelow
<1>5. slot[count] \in Entry /\ req[w].key \in Int
  BY <1>1, <1>4, AtStep, RequestFields
<1>6. PutKey(slot[count], req[w].key).key = req[w].key
  BY <1>5, Puts
<1>7. slot \in [Slots -> Entry] /\ count \in Nat
  BY <1>1, AtStep
<1>8. slot'[count].key = req[w].key /\ \A i \in {i \in Slots : i < count} : slot'[i] = slot[i]
  BY <1>3, <1>4, <1>6, <1>7, Behind
<1> QED
  BY <1>1, <1>2, <1>8

LEMMA SetValueEffect ==
  ASSUME SysvAssumption, WInv, NEW w \in Workers, SetValue(w)
  PROVE  /\ Used' = Used /\ count' = count
         /\ \A i \in Used : slot'[i] = slot[i]
         /\ ~Present(req[w].key)
         /\ slot'[count].key = req[w].key /\ slot'[count].value = req[w].value
<1>1. /\ pc[w] = "set value" /\ pc[w] \in Commands /\ ~spoilt /\ count' = count
      /\ slot' = [slot EXCEPT ![count].value = req[w].value]
      /\ pc' = [pc EXCEPT ![w] = "set count"]
  BY DEF SetValue, Step, Commands, CountAfter
<1>2. /\ Used' = Used /\ Used = {i \in Slots : i < count}
      /\ ~Present(req[w].key) /\ slot[count].key = req[w].key /\ count < Capacity
  BY <1>1, AtStep, UsedNext DEF Shifting, Sound, Knows
<1>3. slot' = [slot EXCEPT ![count] = PutValue(slot[count], req[w].value)]
  BY <1>1, Zenon DEF PutValue
<1>4. count \in Slots
  BY <1>1, <1>2, AtStep, IndexBelow
<1>5. slot[count] \in Entry /\ req[w].value \in Int
  BY <1>1, <1>4, AtStep, InCommand DEF WInv, LInv
<1>6. /\ PutValue(slot[count], req[w].value).key = slot[count].key
      /\ PutValue(slot[count], req[w].value).value = req[w].value
  BY <1>5 DEF PutValue, Entry
<1>7. slot \in [Slots -> Entry] /\ count \in Nat
  BY <1>1, AtStep
<1> DEFINE e == PutValue(slot[count], req[w].value)
<1>8. slot'[count] = e /\ \A i \in Slots : i < count => slot'[i] = slot[i]
  <2> HIDE DEF e
  <2>1. slot' = [slot EXCEPT ![count] = e]
    BY <1>3 DEF e
  <2>2. /\ [slot EXCEPT ![count] = e][count] = e
        /\ \A i \in Slots : i < count => [slot EXCEPT ![count] = e][i] = slot[i]
    BY <1>4, <1>7, Behind
  <2> QED
    BY <2>1, <2>2
<1>9. slot'[count].key = req[w].key /\ slot'[count].value = req[w].value
  BY <1>2, <1>6, <1>8
<1>10. \A i \in Used : slot'[i] = slot[i]
  BY <1>2, <1>8
<1> QED
  BY <1>1, <1>2, <1>9, <1>10

\* The count makes an entry of what is written.
LEMMA SetCountEffect ==
  ASSUME SysvAssumption, WInv, NEW w \in Workers, SetCount(w)
  PROVE  /\ Used = {i \in Slots : i < count} /\ count < Capacity
         /\ count \notin Used /\ Used' = Used \cup {count} /\ slot' = slot
         /\ ~Present(req[w].key)
         /\ slot[count].key = req[w].key /\ slot[count].value = req[w].value
<1>1. /\ pc[w] = "set count" /\ pc[w] \in Commands /\ ~spoilt /\ count' = count + 1 /\ slot' = slot
      /\ pc' = [pc EXCEPT ![w] = "unlock"]
  BY DEF SetCount, Finish, Step, Commands, CountAfter
<1>2. /\ Used' = {i \in Slots : i < count + 1} /\ Used = {i \in Slots : i < count}
      /\ ~Present(req[w].key) /\ count < Capacity
      /\ slot[count].key = req[w].key /\ slot[count].value = req[w].value
  BY <1>1, AtStep, UsedNext DEF Shifting, Sound, Knows
<1>3. count \in Slots
  BY <1>1, <1>2, AtStep, IndexBelow
<1>4. slot \in [Slots -> Entry] /\ count \in Nat
  BY <1>1, AtStep
<1> QED
  BY <1>1, <1>2, <1>3, <1>4, Behind

\* The first turn of the loop takes the key away; a later one changes nothing yet.
LEMMA ShiftKeyEffect ==
  ASSUME SysvAssumption, WInv, NEW w \in Workers, ShiftKey(w)
  PROVE  /\ Used' = Used \ {pos[w]} /\ \A i \in Used' : slot'[i] = slot[i]
         /\ pc[w] = "delete" => pos[w] \in Used /\ slot[pos[w]].key = req[w].key
         /\ pc[w] = "shift" => Used' = Used
<1>1. /\ pc[w] \in {"delete", "shift"} /\ pc[w] \in Commands /\ ~spoilt
      /\ pos[w] # NotFound /\ count' = count /\ pos' = pos
      /\ slot' = [slot EXCEPT ![pos[w]].key = slot[pos[w] + 1].key]
      /\ pc' = [pc EXCEPT ![w] = "shift value"]
  BY DEF ShiftKey, Step, Commands
<1>2. Used' = {i \in Slots : i < count /\ i # pos[w]}
  BY <1>1, UsedNext
<1>3. \A i \in Slots : i # pos[w] => slot'[i] = slot[i]
  BY <1>1, AtStep
<1>4. CASE pc[w] = "delete"
  <2>1. Used = {i \in Slots : i < count}
    BY <1>1, <1>4, AtStep DEF Shifting
  <2>2. pos[w] \in Slots /\ pos[w] < count /\ slot[pos[w]].key = req[w].key
    BY <1>1, <1>4, AtStep DEF Knows, Sound
  <2> QED
    BY <1>2, <1>4, <1>3, <2>1, <2>2
<1>5. CASE pc[w] = "shift"
  <2>1. Used = {i \in Slots : i < count /\ i # pos[w]}
    BY <1>1, <1>5, AtStep DEF Shifting
  <2> QED
    BY <1>2, <1>5, <1>3, <2>1
<1> QED
  BY <1>1, <1>4, <1>5

\* The second write of a turn moves an entry to the gap before it.
LEMMA ShiftValueEffect ==
  ASSUME SysvAssumption, WInv, NEW w \in Workers, ShiftValue(w)
  PROVE  /\ pos[w] \notin Used /\ pos[w] + 1 \in Used
         /\ Used' = (Used \ {pos[w] + 1}) \cup {pos[w]}
         /\ slot'[pos[w]].key = slot[pos[w] + 1].key
         /\ slot'[pos[w]].value = slot[pos[w] + 1].value
         /\ \A i \in Used : slot'[i] = slot[i]
<1>1. /\ pc[w] = "shift value" /\ pc[w] \in Commands /\ ~spoilt /\ count' = count
      /\ slot' = [slot EXCEPT ![pos[w]].value = slot[pos[w] + 1].value]
      /\ pos' = [pos EXCEPT ![w] = pos[w] + 1]
      /\ pc' = [pc EXCEPT ![w] = "shift"]
  BY DEF ShiftValue, Step, Commands, Following
<1>2. /\ pos[w] \in Slots /\ pos[w] < count - 1
      /\ slot[pos[w]].key = slot[pos[w] + 1].key
      /\ count \in Nat /\ count <= Capacity /\ slot \in [Slots -> Entry]
      /\ pos'[w] = pos[w] + 1
  BY <1>1, AtStep DEF Knows, WInv, LInv, KeysKnown
<1>3. pos[w] + 1 \in Slots /\ pos[w] + 1 < count
  BY <1>2, NextIndex
<1>4. pos[w] \in Nat /\ pos[w] < count /\ pos[w] # pos[w] + 1
  BY <1>2, Indices
<1>5. /\ Used = {i \in Slots : i < count /\ i # pos[w]}
      /\ Used' = {i \in Slots : i < count /\ i # pos[w] + 1}
  BY <1>1, <1>2, AtStep, UsedNext DEF Shifting
<1>6. slot[pos[w]] \in Entry /\ slot[pos[w] + 1].value \in Int
  BY <1>2, <1>3 DEF Entry
<1>7. slot' = [slot EXCEPT ![pos[w]] = PutValue(slot[pos[w]], slot[pos[w] + 1].value)]
  BY <1>1, Zenon DEF PutValue
<1>8. /\ slot'[pos[w]].key = slot[pos[w]].key
      /\ slot'[pos[w]].value = slot[pos[w] + 1].value
      /\ \A i \in Slots : i # pos[w] => slot'[i] = slot[i]
  BY <1>2, <1>6, <1>7 DEF PutValue, Entry
<1> QED
  BY <1>2, <1>3, <1>4, <1>5, <1>8

\* The end of the loop drops the gap - or, without a turn, the entry itself.
LEMMA DropEffect ==
  ASSUME SysvAssumption, WInv, NEW w \in Workers, Drop(w)
  PROVE  /\ Used' = Used \ {pos[w]} /\ slot' = slot
         /\ pc[w] = "delete" => pos[w] \in Used /\ slot[pos[w]].key = req[w].key
         /\ pc[w] = "shift" => Used' = Used
<1>1. /\ pc[w] \in {"delete", "shift"} /\ pc[w] \in Commands /\ ~spoilt
      /\ pos[w] # NotFound /\ ~(pos[w] < count - 1) /\ count' = count - 1 /\ slot' = slot
      /\ pc' = [pc EXCEPT ![w] = "unlock"]
  BY DEF Drop, Finish, Step, Commands, MoreAfter
<1>2. /\ pos[w] \in Slots /\ pos[w] < count /\ count \in Nat /\ pos[w] \in Nat
      /\ pc[w] = "delete" => slot[pos[w]].key = req[w].key
  BY <1>1, AtStep DEF Knows, Sound
<1>3. pos[w] = count - 1
  BY <1>1, <1>2
<1>4. \A i \in Slots : i < count - 1 <=> i < count /\ i # pos[w]
  BY <1>2, <1>3, Indices
<1>5. Used' = {i \in Slots : i < count'}
  <2>1. "unlock" \notin {"shift", "shift value"}
    OBVIOUS
  <2> QED
    BY <1>1, <2>1, UsedNext, Zenon
<1>6. CASE pc[w] = "delete"
  <2>1. Used = {i \in Slots : i < count}
    BY <1>1, <1>6, AtStep DEF Shifting
  <2> QED
    BY <1>1, <1>2, <1>4, <1>5, <1>6, <2>1
<1>7. CASE pc[w] = "shift"
  <2>1. Used = {i \in Slots : i < count /\ i # pos[w]}
    BY <1>1, <1>7, AtStep DEF Shifting
  <2> QED
    BY <1>1, <1>4, <1>5, <1>7, <2>1
<1> QED
  BY <1>1, <1>6, <1>7

-----------------------------------------------------------------------------
(* What a worker has found out stays true.                                   *)

\* Entries that keep their keys.
LEMMA SameKeys ==
  ASSUME Used' = Used, \A i \in Used : slot'[i].key = slot[i].key
  PROVE  /\ KeysUnique => KeysUnique'
         /\ \A k : Present(k)' <=> Present(k)
         /\ Stored' = Stored
BY DEF KeysUnique, Present, Stored

\* Outside of a command there is nothing to know.
LEMMA SoundElsewhere ==
  ASSUME NEW w \in Workers,
         pc'[w] \notin {"set", "get", "delete", "set value", "set count"}
  PROVE  Sound(w)'
BY DEF Sound

\* A worker that is inside may write what it likes: the others are not.
LEMMA InformedKept ==
  ASSUME SysvAssumption, IInv, NEW w \in Workers, Inside(w),
         NEW to, pc' = [pc EXCEPT ![w] = to], Sound(w)'
  PROVE  Informed'
<1>1. ASSUME NEW v \in Workers, v # w
      PROVE  Sound(v)'
  <2>1. TypeOK /\ ~Inside(v)
    BY <1>1 DEF IInv, LockSound, MutualExclusion
  <2>2. pc'[v] = pc[v]
    BY <1>1, <2>1 DEF TypeOK
  <2>3. pc'[v] \notin {"set", "get", "delete", "set value", "set count"}
    BY <2>1, <2>2 DEF Inside
  <2> QED
    BY <2>3, SoundElsewhere
<1> QED
  BY <1>1 DEF Informed

\* The steps around the commands leave the entries alone, but for a worker that
\* is killed in a gap.
LEMMA AroundEffect ==
  ASSUME SysvAssumption, WInv, NEW w \in Workers,
         Fork(w) \/ Receive(w) \/ Leave(w) \/ Lock(w) \/ Kill(w) \/ Unlock(w) \/ SemFails(w)
  PROVE  /\ slot' = slot /\ count' = count
         /\ ~Shifting(w) => Used' = Used
         /\ ~spoilt => Informed'
<1>1. TypeOK /\ IInv
  BY DEF WInv, LInv, IInv, LockSound
<1>2. /\ slot' = slot /\ count' = count
      /\ \E to \in {"idle", "lock", "search", "gone"} : pc' = [pc EXCEPT ![w] = to]
  BY DEF Fork, Receive, Leave, Lock, Kill, Unlock, SemFails, memory
<1>3. \A v \in Workers : v # w => pos'[v] = pos[v] /\ req'[v] = req[v] /\ pc'[v] = pc[v]
  BY <1>1 DEF Fork, Receive, Leave, Lock, Kill, Unlock, SemFails, ForgetCommand, TypeOK
<1>4. pc'[w] \in {"idle", "lock", "search", "gone"}
  BY <1>1, <1>2 DEF TypeOK
<1>5. Sound(w)' /\ ~Shifting(w)'
  BY <1>4, SoundElsewhere DEF Shifting
<1>6. ASSUME ~Shifting(w)
      PROVE  Used' = Used
  BY <1>2, <1>3, <1>5, <1>6 DEF Used, Shifting
<1>7. ASSUME ~spoilt
      PROVE  Informed'
  <2>1. CASE Inside(w)
    BY <1>1, <1>2, <1>5, <2>1, InformedKept
  <2>2. CASE ~Inside(w)
    <3>1. Used' = Used
      BY <1>6, <2>2 DEF Inside, Shifting
    <3>2. \A k : Present(k)' <=> Present(k)
      BY <1>2, <3>1, SameKeys
    <3>3. ASSUME NEW v \in Workers, v # w
          PROVE  Sound(v)'
      <4>1. Sound(v)
        BY <1>7 DEF WInv, Informed
      <4> QED
        BY <1>2, <1>3, <3>2, <3>3, <4>1 DEF Sound
    <3> QED
      BY <1>5, <3>3 DEF Informed
  <2> QED
    BY <2>1, <2>2
<1> QED
  BY <1>2, <1>6, <1>7

\* A gap that is left is counted.
LEMMA NotHurt ==
  ASSUME SysvAssumption, WInv, NEW w \in Workers, ~spoilt, hurt' = hurt,
         Fork(w) \/ Receive(w) \/ Leave(w) \/ Lock(w) \/ Kill(w) \/ Unlock(w) \/ SemFails(w)
  PROVE  ~Shifting(w)
<1>1. CASE Kill(w)
  <2>1. hurt' = IF Shifting(w) /\ ~spoilt THEN hurt + 1 ELSE hurt
    BY <1>1 DEF Kill
  <2>2. hurt + 1 # hurt
    <3>1. hurt \in Nat
      BY DEF WInv, LInv, IInv, LockSound, TypeOK
    <3> QED
      BY <3>1
  <2> QED
    BY <2>1, <2>2
<1>2. CASE ~Kill(w)
  BY <1>2 DEF Fork, Receive, Leave, Lock, Unlock, SemFails, Shifting
<1> QED
  BY <1>1, <1>2

\* The search finds the key if it is there.
LEMMA SearchEffect ==
  ASSUME SysvAssumption, WInv, NEW w \in Workers, Search(w)
  PROVE  Used' = Used /\ slot' = slot /\ Informed'
<1>1. /\ pc[w] = "search" /\ pc[w] \in Commands /\ ~spoilt /\ count' = count /\ slot' = slot
      /\ req' = req /\ pc' = [pc EXCEPT ![w] = req[w].cmd]
  BY DEF Search, Step, Commands, memory
<1>2. /\ IInv /\ Inside(w) /\ req[w].cmd \in {"set", "get", "delete"}
      /\ pos \in [Workers -> Slots \cup {NotFound}]
  BY <1>1, AtStep, RequestFields DEF WInv, LInv
<1>3. Used = {i \in Slots : i < count}
  BY <1>1, AtStep DEF Shifting
<1>4. Used' = {i \in Slots : i < count'}
  BY <1>1, <1>2, UsedNext
<1>5. \A k : Present(k)' <=> Present(k)
  BY <1>1, <1>3, <1>4, SameKeys
<1>6. pc'[w] = req[w].cmd
  BY <1>1, UsedNext
<1>7. pos'[w] = NotFound => ~Present(req[w].key)
  BY <1>2, <1>3, Indices DEF Search, Hits, Present
<1>8. pos'[w] # NotFound => slot[pos'[w]].key = req[w].key
  BY <1>2 DEF Search, Hits
<1>9. Sound(w)'
  BY <1>1, <1>2, <1>5, <1>6, <1>7, <1>8 DEF Sound
<1> QED
  BY <1>1, <1>2, <1>3, <1>4, <1>9, InformedKept

\* Commands that only read change nothing.
LEMMA ReadEffect ==
  ASSUME SysvAssumption, WInv, NEW w \in Workers, SetFull(w) \/ Get(w) \/ DeleteMiss(w)
  PROVE  /\ Used' = Used /\ slot' = slot /\ req' = req /\ pos' = pos /\ count' = count
         /\ Used = {i \in Slots : i < count}
         /\ pc[w] \in {"set", "get", "delete"} /\ pc' = [pc EXCEPT ![w] = "unlock"] /\ ~spoilt
<1>1. /\ pc[w] \in {"set", "get", "delete"} /\ ~spoilt /\ count' = count /\ slot' = slot
      /\ req' = req /\ pos' = pos /\ pc' = [pc EXCEPT ![w] = "unlock"]
  BY DEF SetFull, Get, DeleteMiss, Finish, Step, memory
<1>2. pc[w] \in Commands
  BY <1>1 DEF Commands
<1>3. Used = {i \in Slots : i < count} /\ Used' = {i \in Slots : i < count'}
  BY <1>1, <1>2, AtStep, UsedNext DEF Shifting
<1> QED
  BY <1>1, <1>3

\* A worker within a command.
LEMMA InformedCommand ==
  ASSUME SysvAssumption, WInv, NEW w \in Workers, ~spoilt,
         SetOld(w) \/ SetFull(w) \/ SetKey(w) \/ SetValue(w) \/ SetCount(w) \/ Get(w)
         \/ DeleteMiss(w) \/ ShiftKey(w) \/ ShiftValue(w) \/ Drop(w)
  PROVE  Informed'
<1>1. /\ pc[w] \in Commands /\ req' = req
      /\ \E to \in {"unlock", "shift", "shift value", "set value", "set count"} :
           /\ pc' = [pc EXCEPT ![w] = to]
           /\ to = "set value" => SetKey(w)
           /\ to = "set count" => SetValue(w)
  BY DEF SetOld, SetFull, SetKey, SetValue, SetCount, Get, DeleteMiss, ShiftKey, ShiftValue, Drop,
     Finish, Step, Commands
<1>2. IInv /\ TypeOK /\ Inside(w)
  BY <1>1, AtStep DEF WInv, LInv
<1>3. /\ pc'[w] \in {"unlock", "shift", "shift value", "set value", "set count"}
      /\ pc'[w] = "set value" => SetKey(w)
      /\ pc'[w] = "set count" => SetValue(w)
  BY <1>1, <1>2 DEF TypeOK
<1>4. CASE pc'[w] = "set value"
  <2>1. /\ Used' = Used /\ count' = count /\ \A i \in Used : slot'[i].key = slot[i].key
        /\ ~Present(req[w].key) /\ slot'[count].key = req[w].key
    BY <1>3, <1>4, SetKeyEffect
  <2>2. Sound(w)'
    BY <1>1, <1>4, <2>1, SameKeys DEF Sound
  <2> QED
    BY <1>1, <1>2, <2>2, InformedKept
<1>5. CASE pc'[w] = "set count"
  <2>1. /\ Used' = Used /\ count' = count /\ \A i \in Used : slot'[i].key = slot[i].key
        /\ ~Present(req[w].key)
        /\ slot'[count].key = req[w].key /\ slot'[count].value = req[w].value
    BY <1>3, <1>5, SetValueEffect
  <2>2. Sound(w)'
    BY <1>1, <1>5, <2>1, SameKeys DEF Sound
  <2> QED
    BY <1>1, <1>2, <2>2, InformedKept
<1>6. CASE pc'[w] \in {"unlock", "shift", "shift value"}
  <2>1. Sound(w)'
    BY <1>6, SoundElsewhere
  <2> QED
    BY <1>1, <1>2, <2>1, InformedKept
<1> QED
  BY <1>3, <1>4, <1>5, <1>6

\* A server finds the table as it was left, or empties one that nobody uses.
LEMMA ServerEffect ==
  ASSUME SysvAssumption, WInv, ~spoilt',
         MasterKilled \/ ServerInit \/ ServerFails \/ ServerListens \/ UNCHANGED vars
  PROVE  /\ Informed'
         /\ \/ Used' = {} /\ count' = 0
            \/ ~spoilt /\ hurt' = hurt /\ Used' = Used /\ slot' = slot
<1>1. UNCHANGED <<pc, pos, req>>
  BY DEF MasterKilled, ServerInit, ServerFails, ServerListens, vars
<1>2. \/ UNCHANGED <<slot, count, hurt>> /\ ~spoilt
      \/ Living = {} /\ count' = 0
  <2>1. CASE ServerInit
    BY <2>1 DEF ServerInit, Emptied
  <2>2. CASE ServerListens
    BY <2>2 DEF ServerListens, memory
  <2>3. CASE MasterKilled \/ ServerFails \/ UNCHANGED vars
    BY <2>3 DEF MasterKilled, ServerFails, vars, memory, server
  <2> QED
    BY <2>1, <2>2, <2>3
<1>3. CASE UNCHANGED <<slot, count, hurt>> /\ ~spoilt
  <2>1. Used' = Used
    BY <1>1, <1>3 DEF Used, Shifting
  <2>2. \A k : Present(k)' <=> Present(k)
    BY <1>3, <2>1, SameKeys
  <2>3. Informed
    BY <1>3 DEF WInv
  <2>4. Informed'
    BY <1>1, <1>3, <2>2, <2>3 DEF Informed, Sound
  <2> QED
    BY <1>3, <2>1, <2>4
<1>4. CASE Living = {} /\ count' = 0
  <2>1. Used' = {}
    BY <1>4, Indices DEF Used
  <2>2. \A w \in Workers : pc'[w] \in {"none", "gone"}
    BY <1>1, <1>4 DEF Living
  <2>3. \A w \in Workers : Sound(w)'
    BY <2>2, SoundElsewhere
  <2> QED
    BY <1>4, <2>1, <2>3 DEF Informed
<1> QED
  BY <1>2, <1>3, <1>4

\* The steps of a worker leave the history alone, but for its death in a gap.
LEMMA History ==
  ASSUME NEW w \in Workers,
         Fork(w) \/ Receive(w) \/ Leave(w) \/ Kill(w) \/ Lock(w) \/ RunCommand(w)
  PROVE  /\ spoilt' = spoilt /\ second' = second
         /\ RunCommand(w) => hurt' = hurt
         /\ hurt' = hurt \/ hurt' = hurt + 1
BY DEF Fork, Receive, Leave, Kill, Lock, RunCommand, Search, SetOld, SetFull, SetKey,
   SetValue, SetCount, Get, DeleteMiss, ShiftKey, ShiftValue, Drop, Blind, Unlock, SemFails,
   Finish, Step, server

LEMMA InformedStays ==
  ASSUME SysvAssumption, WInv, [Next]_vars, ~spoilt'
  PROVE  Informed'
<1>1. ASSUME NEW w \in Workers,
             Fork(w) \/ Receive(w) \/ Leave(w) \/ Kill(w) \/ Lock(w) \/ RunCommand(w)
      PROVE  Informed'
  <2>1. ~spoilt
    BY <1>1, History
  <2>2. ~Blind(w)
    BY <2>1 DEF Blind
  <2> QED
    BY <1>1, <2>1, <2>2, AroundEffect, SearchEffect, InformedCommand DEF RunCommand
<1>2. CASE MasterKilled \/ ServerInit \/ ServerFails \/ ServerListens \/ UNCHANGED vars
  BY <1>2, ServerEffect
<1> QED
  BY <1>1, <1>2 DEF Next

\* No key is entered twice, as long as no gap is left.
LEMMA KeysUniqueStays ==
  ASSUME SysvAssumption, WInv, [Next]_vars, hurt' = 0, ~spoilt'
  PROVE  KeysUnique'
<1>1. hurt \in Nat
  BY DEF WInv, LInv, IInv, LockSound, TypeOK
<1>2. ASSUME NEW w \in Workers,
             Fork(w) \/ Receive(w) \/ Leave(w) \/ Kill(w) \/ Lock(w) \/ RunCommand(w)
      PROVE  KeysUnique'
  <2>1. hurt = 0 /\ hurt' = hurt /\ ~spoilt /\ ~Blind(w)
    <3>1. hurt + 1 # 0
      BY <1>1
    <3> QED
      BY <1>2, <3>1, History DEF Blind
  <2>2. KeysUnique
    BY <2>1 DEF WInv
  <2>3. CASE Fork(w) \/ Receive(w) \/ Leave(w) \/ Lock(w) \/ Kill(w) \/ Unlock(w) \/ SemFails(w)
    BY <2>1, <2>2, <2>3, NotHurt, AroundEffect, SameKeys
  <2>4. CASE Search(w) \/ SetFull(w) \/ Get(w) \/ DeleteMiss(w)
    BY <2>2, <2>4, SearchEffect, ReadEffect, SameKeys
  <2>5. CASE SetOld(w) \/ SetKey(w) \/ SetValue(w)
    <3>1. Used' = Used /\ \A i \in Used : slot'[i].key = slot[i].key
      BY <2>5, SetOldEffect, SetKeyEffect, SetValueEffect
    <3> QED
      BY <2>2, <3>1, SameKeys
  <2>6. CASE SetCount(w)
    <3>1. /\ Used' = Used \cup {count} /\ slot' = slot
          /\ ~Present(req[w].key) /\ slot[count].key = req[w].key
      BY <2>6, SetCountEffect
    <3>2. req[w].key \in Keys
      BY <2>1, <2>6, AtStep DEF SetCount, Finish, Step, Commands
    <3> QED
      BY <2>2, <3>1, <3>2 DEF KeysUnique, Present
  <2>7. CASE ShiftKey(w) \/ Drop(w)
    <3>1. Used' \subseteq Used /\ \A i \in Used' : slot'[i] = slot[i]
      BY <2>7, ShiftKeyEffect, DropEffect
    <3> QED
      BY <2>2, <3>1 DEF KeysUnique
  <2>8. CASE ShiftValue(w)
    <3>1. /\ pos[w] + 1 \in Used /\ Used' = (Used \ {pos[w] + 1}) \cup {pos[w]}
          /\ slot'[pos[w]].key = slot[pos[w] + 1].key
          /\ \A i \in Used : slot'[i] = slot[i]
      BY <2>8, ShiftValueEffect
    <3> QED
      BY <2>2, <3>1 DEF KeysUnique
  <2> QED
    BY <1>2, <2>1, <2>3, <2>4, <2>5, <2>6, <2>7, <2>8 DEF RunCommand
<1>3. CASE MasterKilled \/ ServerInit \/ ServerFails \/ ServerListens \/ UNCHANGED vars
  <2>1. CASE Used' = {}
    BY <2>1 DEF KeysUnique
  <2>2. CASE ~spoilt /\ hurt' = hurt /\ Used' = Used /\ slot' = slot
    BY <2>2, SameKeys DEF WInv
  <2> QED
    BY <1>3, <2>1, <2>2, ServerEffect
<1> QED
  BY <1>2, <1>3 DEF Next

LEMMA WInvariance == Spec => []WInv
<1>1. ASSUME SysvAssumption, Init
      PROVE  Answering /\ Informed /\ KeysUnique
  <2>1. Used = {}
    BY <1>1, Indices DEF Init, Used
  <2> QED
    BY <1>1, <2>1 DEF Init, Answering, Informed, KeysUnique, Sound, Commands
<1>2. ASSUME SysvAssumption, WInv, LInv', [Next]_vars
      PROVE  WInv'
  BY <1>2, AnsweringStays, InformedStays, KeysUniqueStays DEF WInv, LInv
<1> QED
  BY <1>1, <1>2, LInvariance, SysvAssumption, PTL DEF Spec, WInv

-----------------------------------------------------------------------------
(* The storage implements KvMap.                                             *)

Held(v) == [present |-> TRUE, value |-> v]
Absent == [present |-> FALSE]

\* The map and the answers that SysvStore stands for.
StoredMap ==
  [k \in Keys |-> IF Present(k) THEN [present |-> TRUE, value |-> slot[EntryOf(k)].value]
                  ELSE [present |-> FALSE]]
Answers == [w \in Workers |-> IF Shifting(w) THEN Done(0) ELSE reply[w]]

LEMMA HeldIsPresent == \A v : Held(v) # Absent
BY DEF Held, Absent

\* With one entry per key, the map is what the entries hold.
LEMMA MapAt ==
  KeysUnique =>
    /\ \A i \in Used : StoredMap[slot[i].key] = Held(slot[i].value)
    /\ \A k \in Keys : ~Present(k) => StoredMap[k] = Absent
<1> SUFFICES ASSUME KeysUnique
             PROVE  /\ \A i \in Used : StoredMap[slot[i].key] = Held(slot[i].value)
                    /\ \A k \in Keys : ~Present(k) => StoredMap[k] = Absent
  OBVIOUS
<1>1. ASSUME NEW i \in Used
      PROVE  StoredMap[slot[i].key] = Held(slot[i].value)
  <2>1. Present(slot[i].key) /\ slot[i].key \in Keys
    BY DEF Present, KeysUnique
  <2>2. EntryOf(slot[i].key) \in Used /\ slot[EntryOf(slot[i].key)].key = slot[i].key
    BY <2>1, Zenon DEF Present, EntryOf
  <2>3. EntryOf(slot[i].key) = i
    BY <2>2 DEF KeysUnique
  <2> QED
    BY <2>1, <2>3 DEF StoredMap, Held
<1>2. ASSUME NEW k \in Keys, ~Present(k)
      PROVE  StoredMap[k] = Absent
  BY <1>2 DEF StoredMap, Absent
<1> QED
  BY <1>1, <1>2

\* The same of the state after a step.
LEMMA MapAtNext ==
  ASSUME KeysUnique'
  PROVE  /\ \A i \in Used' : StoredMap'[slot'[i].key] = Held(slot'[i].value)
         /\ \A k \in Keys : ~Present(k)' => StoredMap'[k] = Absent
<1>1. (KeysUnique =>
        /\ \A i \in Used : StoredMap[slot[i].key] = Held(slot[i].value)
        /\ \A k \in Keys : ~Present(k) => StoredMap[k] = Absent)'
  BY MapAt, PTL
<1> QED
  BY <1>1 DEF Held, Absent

\* When no gap is open, the map has as many keys as there are entries.
LEMMA StoredCount ==
  ASSUME SysvAssumption, KeysUnique, Used = {i \in Slots : i < count},
         count \in Nat, count <= Capacity
  PROVE  Cardinality(KvMapOf!Stored(StoredMap)) = count
<1> DEFINE S == {k \in Keys : StoredMap[k] # Absent}
           f == [i \in 0 .. count - 1 |-> slot[i].key]
<1>1. Used = 0 .. count - 1
  BY DEF Slots, SysvAssumption
<1>2. \A i \in 0 .. count - 1 : slot[i].key \in Keys
  BY <1>1 DEF KeysUnique
<1>3. f \in [0 .. count - 1 -> S]
  <2>1. \A i \in 0 .. count - 1 : StoredMap[slot[i].key] = Held(slot[i].value)
    BY <1>1, <1>2, MapAt
  <2> QED
    BY <1>2, <2>1, HeldIsPresent
<1>4. \A i, j \in 0 .. count - 1 : f[i] = f[j] => i = j
  BY <1>1 DEF KeysUnique
<1>5. ASSUME NEW k \in S
      PROVE  \E i \in 0 .. count - 1 : f[i] = k
  <2>1. Present(k)
    BY MapAt
  <2> QED
    BY <1>1, <2>1 DEF Present
<1> HIDE DEF f, S
<1>6. f \in Bijection(0 .. count - 1, S)
  BY <1>3, <1>4, <1>5 DEF Bijection, Injection, Surjection, IsInjective
<1>7. ExistsBijection(0 .. count - 1, S)
  BY <1>6 DEF ExistsBijection
<1>8. IsFiniteSet(0 .. count - 1) /\ Cardinality(0 .. count - 1) = count
  BY <1>1, FS_Interval
<1>9. Cardinality(S) = count
  BY <1>7, <1>8, FS_Bijection
<1>10. S = KvMapOf!Stored(StoredMap)
  BY DEF S, KvMapOf!Stored, KvMapOf!Absent, Absent, StoredMap
<1> QED
  BY <1>9, <1>10

\* Entries that keep key and value, wherever they are, leave the key as it is.
LEMMA KeyStays ==
  ASSUME KeysUnique, KeysUnique', NEW k \in Keys,
         \A i \in Used : slot[i].key = k =>
           \E j \in Used' : slot'[j].key = k /\ slot'[j].value = slot[i].value,
         \A j \in Used' : slot'[j].key = k => \E i \in Used : slot[i].key = k
  PROVE  StoredMap'[k] = StoredMap[k]
<1>1. CASE Present(k)
  <2>1. PICK i \in Used : slot[i].key = k
    BY <1>1 DEF Present
  <2>2. PICK j \in Used' : slot'[j].key = k /\ slot'[j].value = slot[i].value
    BY <2>1
  <2> QED
    BY <2>1, <2>2, MapAt, MapAtNext
<1>2. CASE ~Present(k)
  <2>1. ~Present(k)'
    BY <1>2 DEF Present
  <2> QED
    BY <1>2, <2>1, MapAt, MapAtNext
<1> QED
  BY <1>1, <1>2

\* Two maps that agree on every key are one, and so are answers.
LEMMA SameMap ==
  ASSUME \A k \in Keys : StoredMap'[k] = StoredMap[k]
  PROVE  StoredMap' = StoredMap
BY DEF StoredMap

LEMMA MapChange ==
  ASSUME NEW k \in Keys, NEW v, StoredMap'[k] = v,
         \A j \in Keys \ {k} : StoredMap'[j] = StoredMap[j]
  PROVE  StoredMap' = [StoredMap EXCEPT ![k] = v]
<1>1. \A j \in Keys : StoredMap'[j] = IF j = k THEN v ELSE StoredMap[j]
  OBVIOUS
<1>2. StoredMap' = [j \in Keys |-> StoredMap'[j]]
  BY DEF StoredMap
<1> QED
  BY <1>1, <1>2 DEF StoredMap

LEMMA SameAnswers ==
  ASSUME \A w \in Workers : Answers'[w] = Answers[w]
  PROVE  Answers' = Answers
BY DEF Answers

LEMMA AnswerChange ==
  ASSUME NEW w \in Workers, NEW r, Answers'[w] = r,
         \A v \in Workers \ {w} : Answers'[v] = Answers[v]
  PROVE  Answers' = [Answers EXCEPT ![w] = r]
<1>1. \A v \in Workers : Answers'[v] = IF v = w THEN r ELSE Answers[v]
  OBVIOUS
<1>2. Answers' = [v \in Workers |-> Answers'[v]]
  BY DEF Answers
<1> QED
  BY <1>1, <1>2 DEF Answers

\* What a step from the label "at" to "to" does to the answers.
LEMMA AnswersAfter ==
  ASSUME TypeOK, NEW w \in Workers, NEW to, pc' = [pc EXCEPT ![w] = to],
         \A v \in Workers \ {w} : reply'[v] = reply[v]
  PROVE  /\ to \in {"shift", "shift value"} => Answers'[w] = Done(0)
         /\ to \notin {"shift", "shift value"} => Answers'[w] = reply'[w]
         /\ \A v \in Workers \ {w} : Answers'[v] = Answers[v]
<1>1. pc'[w] = to /\ \A v \in Workers \ {w} : pc'[v] = pc[v]
  BY DEF TypeOK
<1> QED
  BY <1>1 DEF Answers, Shifting

\* A worker that has its result.
LEMMA FinishAnswers ==
  ASSUME TypeOK, NEW w \in Workers, pc' = [pc EXCEPT ![w] = "unlock"],
         NEW r, reply' = [reply EXCEPT ![w] = r]
  PROVE  Answers'[w] = r /\ Answers' = [Answers EXCEPT ![w] = r]
<1>1. reply'[w] = r /\ \A v \in Workers \ {w} : reply'[v] = reply[v]
  BY DEF TypeOK
<1>2. "unlock" \notin {"shift", "shift value"}
  OBVIOUS
<1>3. Answers'[w] = r /\ \A v \in Workers \ {w} : Answers'[v] = Answers[v]
  BY <1>1, <1>2, AnswersAfter, Zenon
<1> QED
  BY <1>3, AnswerChange

\* The step of KvMap in the words of this module.
Perform(w) ==
  /\ req[w] # Nothing /\ Answers[w] = Nothing
  /\ LET r == req[w] IN
       \/ /\ r.cmd = "set"
          /\ StoredMap[r.key] # Absent \/ Cardinality(KvMapOf!Stored(StoredMap)) < Capacity
          /\ StoredMap' = [StoredMap EXCEPT ![r.key] = Held(r.value)]
          /\ Answers' = [Answers EXCEPT ![w] = Done(0)]
       \/ /\ r.cmd = "set"
          /\ StoredMap[r.key] = Absent /\ Cardinality(KvMapOf!Stored(StoredMap)) = Capacity
          /\ Answers' = [Answers EXCEPT ![w] = Failed]
          /\ StoredMap' = StoredMap
       \/ /\ r.cmd = "get"
          /\ Answers' = [Answers EXCEPT ![w] =
               IF StoredMap[r.key] = Absent THEN Failed ELSE Done(StoredMap[r.key].value)]
          /\ StoredMap' = StoredMap
       \/ /\ r.cmd = "delete"
          /\ StoredMap' = [StoredMap EXCEPT ![r.key] = Absent]
          /\ Answers' = [Answers EXCEPT ![w] =
               IF StoredMap[r.key] = Absent THEN Failed ELSE Done(0)]
  /\ req' = req

LEMMA CountsAlike == \A S : KvMapOf!Cardinality(S) = Cardinality(S)
BY DEF KvMapOf!Cardinality, Cardinality

LEMMA PerformIs ==
  ASSUME NEW w \in Workers, Perform(w)
  PROVE  KvMapOf!Perform(w)
BY CountsAlike DEF Perform, KvMapOf!Perform, KvMapOf!Done, KvMapOf!Failed, KvMapOf!Held, KvMapOf!Absent,
       KvMapOf!Nothing, Done, Failed, Held, Absent, Nothing, StoredMap, Answers

\* A worker that runs a command owes the answer, unless it has begun to delete.
LEMMA Owes ==
  ASSUME SysvAssumption, WInv, NEW w \in Workers, pc[w] \in Commands, ~spoilt
  PROVE  /\ TypeOK /\ req[w] # Nothing /\ req[w].key \in Keys
         /\ hurt = 0 => KeysUnique
         /\ Answers[w] = IF Shifting(w) THEN Done(0) ELSE Nothing
<1>1. reply[w] = Nothing
  BY DEF WInv, Answering
<1> QED
  BY <1>1, AtStep, Distinct DEF Answers

\* A "set" takes effect with its last write, or finds the table full.
LEMMA SetRefines ==
  ASSUME SysvAssumption, WInv, KeysUnique', NEW w \in Workers, hurt = 0,
         SetOld(w) \/ SetCount(w) \/ SetFull(w)
  PROVE  Perform(w)
<1> DEFINE k == req[w].key
<1>1. /\ pc[w] \in {"set", "set count"} /\ pc[w] \in Commands /\ ~spoilt /\ req' = req
      /\ pc' = [pc EXCEPT ![w] = "unlock"]
      /\ SetOld(w) \/ SetCount(w) => reply' = [reply EXCEPT ![w] = Done(0)]
      /\ SetFull(w) => reply' = [reply EXCEPT ![w] = Failed]
  BY DEF SetOld, SetCount, SetFull, Finish, Step, Commands
<1>2. /\ TypeOK /\ KeysUnique /\ req[w] # Nothing /\ k \in Keys /\ req[w].cmd = "set"
      /\ count \in Nat /\ count <= Capacity /\ Capacity \in Nat
  BY <1>1, AtStep, Owes, InCommand DEF WInv, LInv
<1>3. Answers[w] = Nothing
  BY <1>1, Owes DEF Shifting
<1>4. Used = {i \in Slots : i < count}
  BY <1>1, AtStep DEF Shifting
<1>5. Cardinality(KvMapOf!Stored(StoredMap)) = count
  BY <1>2, <1>4, StoredCount
<1>6. /\ SetOld(w) \/ SetCount(w) => Answers' = [Answers EXCEPT ![w] = Done(0)]
      /\ SetFull(w) => Answers' = [Answers EXCEPT ![w] = Failed]
  BY <1>1, <1>2, FinishAnswers
<1>7. CASE SetOld(w)
  <2> DEFINE i == pos[w]
  <2>1. /\ i \in Used /\ Used' = Used
        /\ slot[i].key = k /\ slot'[i].key = k /\ slot'[i].value = req[w].value
        /\ \A j \in Used : j # i => slot'[j] = slot[j]
    BY <1>7, SetOldEffect
  <2>2. StoredMap[k] # Absent
    BY <1>2, <2>1, MapAt, HeldIsPresent
  <2>3. StoredMap'[k] = Held(req[w].value)
    BY <2>1, MapAtNext
  <2>4. ASSUME NEW j \in Keys \ {k}
        PROVE  StoredMap'[j] = StoredMap[j]
    BY <1>2, <2>1, KeyStays
  <2>5. StoredMap' = [StoredMap EXCEPT ![k] = Held(req[w].value)]
    BY <1>2, <2>3, <2>4, MapChange
  <2> QED
    BY <1>1, <1>2, <1>3, <1>6, <1>7, <2>2, <2>5 DEF Perform
<1>8. CASE SetCount(w)
  <2>1. /\ count \notin Used /\ Used' = Used \cup {count} /\ slot' = slot
        /\ ~Present(k) /\ count < Capacity
        /\ slot[count].key = k /\ slot[count].value = req[w].value
    BY <1>8, SetCountEffect
  <2>2. StoredMap'[k] = Held(req[w].value)
    BY <2>1, MapAtNext
  <2>3. ASSUME NEW j \in Keys \ {k}
        PROVE  StoredMap'[j] = StoredMap[j]
    BY <1>2, <2>1, KeyStays
  <2>4. StoredMap' = [StoredMap EXCEPT ![k] = Held(req[w].value)]
    BY <1>2, <2>2, <2>3, MapChange
  <2> QED
    BY <1>1, <1>2, <1>3, <1>5, <1>6, <1>8, <2>1, <2>4 DEF Perform
<1>9. CASE SetFull(w)
  <2>1. pc[w] = "set" /\ pos[w] = NotFound /\ ~(count < Capacity)
    BY <1>9 DEF SetFull, Finish, Step, HasRoom
  <2>2. ~Present(k)
    BY <1>1, <2>1, AtStep DEF Sound
  <2>3. StoredMap[k] = Absent
    BY <1>2, <2>2, MapAt
  <2>4. count = Capacity
    BY <1>2, <2>1
  <2>5. StoredMap' = StoredMap
    BY <1>2, <1>9, ReadEffect, KeyStays, SameMap
  <2> QED
    BY <1>1, <1>2, <1>3, <1>5, <1>6, <1>9, <2>3, <2>4, <2>5 DEF Perform
<1> QED
  BY <1>7, <1>8, <1>9

\* "get", and "delete" of a key that is not there, take effect with their result.
LEMMA ReadRefines ==
  ASSUME SysvAssumption, WInv, KeysUnique', NEW w \in Workers, hurt = 0,
         Get(w) \/ DeleteMiss(w)
  PROVE  Perform(w)
<1> DEFINE k == req[w].key
<1>1. /\ pc[w] \in {"get", "delete"} /\ pc[w] \in Commands /\ ~spoilt /\ req' = req
      /\ pc' = [pc EXCEPT ![w] = "unlock"]
      /\ Get(w) => pc[w] = "get"
      /\ DeleteMiss(w) => pc[w] = "delete" /\ pos[w] = NotFound
  BY DEF Get, DeleteMiss, Finish, Step, Commands
<1>2. /\ TypeOK /\ KeysUnique /\ req[w] # Nothing /\ k \in Keys /\ req[w].cmd = pc[w]
      /\ pos[w] = NotFound => ~Present(k)
      /\ pos[w] # NotFound => pos[w] \in Slots /\ pos[w] < count /\ slot[pos[w]].key = k
  BY <1>1, AtStep, Owes DEF Sound, Knows
<1>3. Answers[w] = Nothing
  BY <1>1, Owes DEF Shifting
<1>4. Used = {i \in Slots : i < count} /\ StoredMap' = StoredMap
  BY <1>2, ReadEffect, KeyStays, SameMap
<1>5. /\ pos[w] = NotFound => StoredMap[k] = Absent
      /\ pos[w] # NotFound => StoredMap[k] = Held(slot[pos[w]].value)
  BY <1>2, <1>4, MapAt
<1>6. ASSUME NEW r, Finish(w, pc[w], r)
      PROVE  Answers' = [Answers EXCEPT ![w] = r]
  BY <1>1, <1>2, <1>6, FinishAnswers DEF Finish
<1>7. CASE Get(w)
  <2> DEFINE r == IF pos[w] = NotFound THEN Failed ELSE Done(slot[pos[w]].value)
  <2>1. Finish(w, pc[w], r)
    BY <1>1, <1>7 DEF Get
  <2>2. r = IF StoredMap[k] = Absent THEN Failed ELSE Done(StoredMap[k].value)
    BY <1>5, HeldIsPresent DEF Held
  <2> HIDE DEF r
  <2> QED
    BY <1>1, <1>2, <1>3, <1>4, <1>6, <1>7, <2>1, <2>2 DEF Perform
<1>8. CASE DeleteMiss(w)
  <2>1. Answers' = [Answers EXCEPT ![w] = Failed]
    BY <1>1, <1>6, <1>8 DEF DeleteMiss
  <2>2. StoredMap[k] = Absent
    BY <1>1, <1>5, <1>8
  <2>3. StoredMap' = [StoredMap EXCEPT ![k] = Absent]
    BY <1>2, <1>4, <2>2, MapChange
  <2> QED
    BY <1>1, <1>2, <1>3, <1>8, <2>1, <2>2, <2>3 DEF Perform
<1> QED
  BY <1>7, <1>8

\* A "delete" takes effect with its first step, that takes the key out of the
\* table or, for the last entry, drops it.
LEMMA DeleteRefines ==
  ASSUME SysvAssumption, WInv, KeysUnique', NEW w \in Workers, hurt = 0,
         ShiftKey(w) \/ Drop(w), pc[w] = "delete"
  PROVE  Perform(w)
<1> DEFINE k == req[w].key
           i == pos[w]
<1>1. /\ pc[w] \in Commands /\ ~spoilt /\ req' = req
      /\ ShiftKey(w) => pc' = [pc EXCEPT ![w] = "shift value"] /\ reply' = reply
      /\ Drop(w) => /\ pc' = [pc EXCEPT ![w] = "unlock"]
                    /\ reply' = [reply EXCEPT ![w] = Done(0)]
  BY DEF ShiftKey, Drop, Finish, Step, Commands
<1>2. /\ TypeOK /\ KeysUnique /\ req[w] # Nothing /\ k \in Keys /\ req[w].cmd = "delete"
      /\ req' = req
  BY <1>1, AtStep, Owes DEF Sound
<1>3. Answers[w] = Nothing
  BY <1>1, Owes DEF Shifting
<1>4. /\ i \in Used /\ slot[i].key = k /\ Used' = Used \ {i}
      /\ \A j \in Used' : slot'[j] = slot[j]
  BY ShiftKeyEffect, DropEffect
<1> HIDE DEF i
<1>5. StoredMap[k] # Absent
  BY <1>2, <1>4, MapAt, HeldIsPresent
<1>6. ~Present(k)'
  BY <1>2, <1>4 DEF Present, KeysUnique
<1>7. StoredMap'[k] = Absent
  BY <1>2, <1>6, MapAtNext
<1>8. ASSUME NEW m \in Keys \ {k}
      PROVE  StoredMap'[m] = StoredMap[m]
  BY <1>2, <1>4, KeyStays
<1>9. StoredMap' = [StoredMap EXCEPT ![k] = Absent]
  BY <1>2, <1>7, <1>8, MapChange
<1>10. Answers' = [Answers EXCEPT ![w] = Done(0)]
  <2>1. CASE ShiftKey(w)
    <3>1. "shift value" \in {"shift", "shift value"}
      OBVIOUS
    <3>2. Answers'[w] = Done(0) /\ \A v \in Workers \ {w} : Answers'[v] = Answers[v]
      BY <1>1, <1>2, <2>1, <3>1, AnswersAfter, Zenon
    <3> QED
      BY <3>2, AnswerChange
  <2>2. CASE Drop(w)
    BY <1>1, <1>2, <2>2, FinishAnswers
  <2> QED
    BY <2>1, <2>2
<1> QED
  BY <1>1, <1>2, <1>3, <1>5, <1>9, <1>10 DEF Perform

\* The other steps of a command are not seen.
LEMMA QuietRefines ==
  ASSUME SysvAssumption, WInv, KeysUnique', NEW w \in Workers, hurt = 0,
         \/ Search(w) \/ SetKey(w) \/ SetValue(w) \/ ShiftValue(w)
         \/ (ShiftKey(w) \/ Drop(w)) /\ pc[w] # "delete"
  PROVE  UNCHANGED <<StoredMap, req, Answers>>
<1>1. pc[w] \in Commands /\ ~spoilt /\ req' = req
  BY DEF Search, SetKey, SetValue, ShiftKey, ShiftValue, Drop, Finish, Step, Commands
<1>2. TypeOK /\ KeysUnique /\ (Answers[w] = IF Shifting(w) THEN Done(0) ELSE Nothing)
  BY <1>1, Owes
<1>3. reply[w] = Nothing
  BY <1>1 DEF WInv, Answering
<1>4. CASE Search(w) \/ SetKey(w) \/ SetValue(w)
  <2>1. Used' = Used /\ \A i \in Used : slot'[i] = slot[i]
    BY <1>4, SearchEffect, SetKeyEffect, SetValueEffect
  <2>2. StoredMap' = StoredMap
    BY <1>2, <2>1, KeyStays, SameMap
  <2>3. PICK to : pc' = [pc EXCEPT ![w] = to] /\ to \notin {"shift", "shift value"}
    <3>1. CASE Search(w)
      <4>1. pc' = [pc EXCEPT ![w] = req[w].cmd]
        BY <3>1 DEF Search, Step
      <4>2. req[w].cmd \in {"set", "get", "delete"}
        BY <1>1, AtStep, RequestFields
      <4>3. req[w].cmd \notin {"shift", "shift value"}
        BY <4>2
      <4> QED
        BY <4>1, <4>3
    <3>2. "set value" \notin {"shift", "shift value"} /\ "set count" \notin {"shift", "shift value"}
      OBVIOUS
    <3>3. CASE SetKey(w)
      BY <3>2, <3>3, Zenon DEF SetKey, Step
    <3>4. CASE SetValue(w)
      BY <3>2, <3>4, Zenon DEF SetValue, Step
    <3> QED
      BY <1>4, <3>1, <3>3, <3>4
  <2>4. reply' = reply /\ ~Shifting(w)
    BY <1>4 DEF Search, SetKey, SetValue, Step, Shifting
  <2>5. Answers'[w] = reply'[w] /\ \A v \in Workers \ {w} : Answers'[v] = Answers[v]
    BY <1>2, <2>3, <2>4, AnswersAfter, Zenon
  <2> QED
    BY <1>1, <1>2, <1>3, <2>2, <2>4, <2>5, SameAnswers
<1>5. CASE ShiftValue(w) \/ (ShiftKey(w) /\ pc[w] # "delete")
  <2>1. StoredMap' = StoredMap
    <3>1. CASE ShiftValue(w)
      <4> DEFINE i == pos[w]
      <4>1. /\ i + 1 \in Used /\ Used' = (Used \ {i + 1}) \cup {i}
            /\ slot'[i].key = slot[i + 1].key /\ slot'[i].value = slot[i + 1].value
            /\ \A j \in Used : slot'[j] = slot[j]
        BY <3>1, ShiftValueEffect
      <4> HIDE DEF i
      <4>2. ASSUME NEW k \in Keys
            PROVE  StoredMap'[k] = StoredMap[k]
        <5>1. \A j \in Used : \E m \in Used' :
                slot'[m].key = slot[j].key /\ slot'[m].value = slot[j].value
          BY <4>1
        <5>2. \A m \in Used' : \E j \in Used : slot'[m].key = slot[j].key
          BY <4>1
        <5> QED
          BY <1>2, <5>1, <5>2, KeyStays
      <4> QED
        BY <4>2, SameMap
    <3>2. CASE ShiftKey(w) /\ pc[w] # "delete"
      <4>1. pc[w] = "shift"
        BY <3>2 DEF ShiftKey, Step
      <4>2. Used' = Used /\ \A i \in Used' : slot'[i] = slot[i]
        BY <3>2, <4>1, ShiftKeyEffect
      <4> QED
        BY <1>2, <4>2, KeyStays, SameMap
    <3> QED
      BY <1>5, <3>1, <3>2
  <2>2. /\ reply' = reply /\ Shifting(w)
        /\ \E to \in {"shift", "shift value"} : pc' = [pc EXCEPT ![w] = to]
    BY <1>5 DEF ShiftKey, ShiftValue, Step, Shifting
  <2>3. Answers'[w] = Done(0) /\ \A v \in Workers \ {w} : Answers'[v] = Answers[v]
    BY <1>2, <2>2, AnswersAfter, Zenon
  <2> QED
    BY <1>1, <1>2, <2>1, <2>2, <2>3, SameAnswers
<1>6. CASE Drop(w) /\ pc[w] # "delete"
  <2>1. /\ pc[w] = "shift" /\ pc' = [pc EXCEPT ![w] = "unlock"]
        /\ reply' = [reply EXCEPT ![w] = Done(0)]
    BY <1>6 DEF Drop, Finish, Step
  <2>2. Used' = Used /\ slot' = slot
    BY <1>6, <2>1, DropEffect
  <2>3. StoredMap' = StoredMap
    BY <1>2, <2>2, KeyStays, SameMap
  <2>4. Answers' = [Answers EXCEPT ![w] = Done(0)]
    BY <1>2, <2>1, FinishAnswers
  <2>5. Answers[w] = Done(0)
    BY <1>2, <2>1 DEF Shifting
  <2>6. \A v \in Workers : Answers'[v] = Answers[v]
    BY <2>4, <2>5 DEF Answers
  <2> QED
    BY <1>1, <2>3, <2>6, SameAnswers
<1> QED
  BY <1>4, <1>5, <1>6

\* Around its commands a worker begins, answers or dies.
LEMMA AroundRefines ==
  ASSUME SysvAssumption, WInv, KeysUnique', NEW w \in Workers, hurt = 0, hurt' = 0, ~spoilt,
         Fork(w) \/ Receive(w) \/ Leave(w) \/ Lock(w) \/ Kill(w) \/ Unlock(w) \/ SemFails(w)
  PROVE  /\ StoredMap' = StoredMap
         /\ \/ UNCHANGED <<req, Answers>>
            \/ /\ req[w] = Nothing /\ Answers' = Answers
               /\ \E r \in Request : req' = [req EXCEPT ![w] = r]
            \/ /\ req[w] # Nothing
               /\ req' = [req EXCEPT ![w] = Nothing]
               /\ Answers' = [Answers EXCEPT ![w] = Nothing]
<1>1. TypeOK /\ Answering /\ KeysUnique
  BY DEF WInv, LInv, IInv, LockSound
<1>2. StoredMap' = StoredMap
  BY <1>1, AroundEffect, NotHurt, KeyStays, SameMap
<1>3. PICK to \in {"idle", "lock", "search", "gone"} : pc' = [pc EXCEPT ![w] = to]
  BY DEF Fork, Receive, Leave, Lock, Kill, Unlock, SemFails
<1>4. to \notin {"shift", "shift value"}
  <2>1. /\ "idle" \notin {"shift", "shift value"} /\ "lock" \notin {"shift", "shift value"}
        /\ "search" \notin {"shift", "shift value"} /\ "gone" \notin {"shift", "shift value"}
    OBVIOUS
  <2> QED
    BY <1>3, <2>1, Zenon
<1>5. \A v \in Workers \ {w} : reply'[v] = reply[v]
  BY <1>1 DEF Fork, Receive, Leave, Lock, Kill, Unlock, SemFails, ForgetCommand, TypeOK
<1>6. Answers'[w] = reply'[w] /\ \A v \in Workers \ {w} : Answers'[v] = Answers[v]
  BY <1>1, <1>3, <1>4, <1>5, AnswersAfter, Zenon
<1>7. Answers[w] = reply[w]
  <2>1. ~Shifting(w)
    BY NotHurt
  <2> QED
    BY <2>1 DEF Answers
<1>8. CASE Fork(w) \/ Leave(w) \/ Lock(w)
  <2>1. reply' = reply /\ req' = req
    BY <1>8 DEF Fork, Leave, Lock
  <2> QED
    BY <1>2, <1>6, <1>7, <2>1, SameAnswers
<1>9. CASE Receive(w)
  <2>1. reply' = reply /\ \E r \in Request : req' = [req EXCEPT ![w] = r]
    BY <1>9 DEF Receive
  <2>2. req[w] = Nothing
    BY <1>1, <1>9 DEF Receive, Answering
  <2> QED
    BY <1>2, <1>6, <1>7, <2>1, <2>2, SameAnswers
<1>10. CASE Unlock(w) \/ Kill(w) \/ SemFails(w)
  <2>1. ForgetCommand(w)
    BY <1>10 DEF Unlock, Kill, SemFails
  <2>2. reply'[w] = Nothing /\ req' = [req EXCEPT ![w] = Nothing]
    BY <1>1, <2>1 DEF ForgetCommand, TypeOK
  <2>3. Answers' = [Answers EXCEPT ![w] = Nothing]
    BY <1>6, <2>2, AnswerChange
  <2>4. CASE req[w] # Nothing
    BY <1>2, <2>2, <2>3, <2>4
  <2>5. CASE req[w] = Nothing
    <3>1. pc[w] = "idle"
      BY <1>1, <1>10, <2>5, Distinct
         DEF Unlock, Kill, SemFails, Answering, TypeOK, WInv, LInv, IInv, HasRequest, Commands
    <3>2. reply[w] = Nothing
      BY <1>1, <3>1 DEF Answering
    <3>3. req' = req
      BY <1>1, <2>2, <2>5 DEF TypeOK
    <3>4. Answers' = Answers
      BY <1>6, <1>7, <2>2, <3>2, SameAnswers
    <3> QED
      BY <1>2, <3>3, <3>4
  <2> QED
    BY <2>4, <2>5
<1> QED
  BY <1>8, <1>9, <1>10

\* What a worker does is a step of the map, or its end, or not seen.
LEMMA LinStep ==
  ASSUME SysvAssumption, WInv, WInv', [Next]_vars, hurt' = 0, ~spoilt', second' = second
  PROVE  KvMapOf!Next \/ (\E w \in Workers : KvMapOf!Vanish(w))
         \/ UNCHANGED <<StoredMap, req, Answers>>
<1>1. KeysUnique' /\ hurt \in Nat
  BY DEF WInv, LInv, IInv, LockSound, TypeOK
<1>2. ASSUME NEW w \in Workers,
             Fork(w) \/ Receive(w) \/ Leave(w) \/ Kill(w) \/ Lock(w) \/ RunCommand(w)
      PROVE  hurt = 0 /\ hurt' = hurt /\ ~spoilt /\ ~Blind(w)
  <2>1. hurt + 1 # 0
    BY <1>1
  <2> QED
    BY <1>2, <2>1, History DEF Blind
<1>3. ASSUME NEW w \in Workers,
             Search(w) \/ SetOld(w) \/ SetFull(w) \/ SetKey(w) \/ SetValue(w) \/ SetCount(w)
             \/ Get(w) \/ DeleteMiss(w) \/ ShiftKey(w) \/ ShiftValue(w) \/ Drop(w)
      PROVE  KvMapOf!Next \/ UNCHANGED <<StoredMap, req, Answers>>
  <2>1. hurt = 0
    BY <1>2, <1>3 DEF RunCommand
  <2>2. Perform(w) \/ UNCHANGED <<StoredMap, req, Answers>>
    BY <1>1, <1>3, <2>1, SetRefines, ReadRefines, DeleteRefines, QuietRefines
  <2> QED
    BY <2>2, PerformIs DEF KvMapOf!Next
<1>4. ASSUME NEW w \in Workers,
             Fork(w) \/ Receive(w) \/ Leave(w) \/ Kill(w) \/ Lock(w) \/ Unlock(w) \/ SemFails(w)
      PROVE  KvMapOf!Next \/ KvMapOf!Vanish(w) \/ UNCHANGED <<StoredMap, req, Answers>>
  <2>1. hurt = 0 /\ ~spoilt
    BY <1>2, <1>4 DEF RunCommand
  <2>2. /\ StoredMap' = StoredMap
        /\ \/ UNCHANGED <<req, Answers>>
           \/ /\ req[w] = Nothing /\ Answers' = Answers
              /\ \E r \in Request : req' = [req EXCEPT ![w] = r]
           \/ /\ req[w] # Nothing
              /\ req' = [req EXCEPT ![w] = Nothing]
              /\ Answers' = [Answers EXCEPT ![w] = Nothing]
    BY <1>1, <1>4, <2>1, AroundRefines
  <2>3. KvMapOf!Invoke(w) \/ KvMapOf!Vanish(w) \/ UNCHANGED <<StoredMap, req, Answers>>
    BY <2>2 DEF KvMapOf!Invoke, KvMapOf!Vanish, KvMapOf!Nothing, Nothing,
       StoredMap, Answers
  <2> QED
    BY <2>3 DEF KvMapOf!Next
<1>5. CASE MasterKilled \/ ServerInit \/ ServerFails \/ ServerListens \/ UNCHANGED vars
  <2>1. second \in BOOLEAN
    BY DEF WInv, LInv, IInv, LockSound, TypeOK
  <2>2. MasterKilled \/ UNCHANGED vars
    BY <1>5, <2>1 DEF ServerInit, ServerFails, ServerListens
  <2>3. UNCHANGED <<slot, count, pc, pos, req, reply>>
    BY <2>2 DEF MasterKilled, vars, memory
  <2>4. Used' = Used
    BY <2>3 DEF Used, Shifting
  <2>5. UNCHANGED <<StoredMap, Answers>>
    BY <2>3, <2>4 DEF StoredMap, Answers, Present, EntryOf, Shifting
  <2> QED
    BY <2>3, <2>5
<1> QED
  BY <1>2, <1>3, <1>4, <1>5 DEF Next, RunCommand

\* Every command is one indivisible step to the clients, whoever is killed and
\* wherever, unless it is between the writes of a loop that closes a gap, or a
\* server is started (run_command, init_storage_main).
THEOREM Linearized == Spec => Linearizable
<1>1. ASSUME SysvAssumption, WInv, WInv', [Next]_vars
      PROVE  [hurt' = 0 /\ ~spoilt' /\ second' = second =>
                KvMapOf!Next \/ (\E w \in Workers : KvMapOf!Vanish(w)) \/ UNCHANGED KvMapOf!vars]_vars
  BY <1>1, LinStep DEF KvMapOf!vars, StoredMap, Answers
<1> QED
  BY <1>1, WInvariance, SysvAssumption, PTL DEF Spec, Linearizable

-----------------------------------------------------------------------------
(* What a death in a gap costs.                                              *)

LEMMA Finite ==
  ASSUME SysvAssumption
  PROVE  /\ IsFiniteSet(Used) /\ IsFiniteSet(Stored)
         /\ Cardinality(Used) \in Nat /\ Cardinality(Stored) \in Nat
<1>1. IsFiniteSet(Slots)
  BY FS_Interval DEF Slots, SysvAssumption
<1>2. Used \in SUBSET Slots
  BY DEF Used
<1>3. IsFiniteSet(Used)
  BY <1>1, <1>2, FS_Subset
<1> DEFINE f == [i \in Used |-> slot[i].key]
<1>4. f \in Surjection(Used, Stored)
  BY DEF Surjection, Stored
<1>5. IsFiniteSet(Stored)
  BY <1>3, <1>4, FS_Surjection
<1> QED
  BY <1>3, <1>5, FS_CardinalityType

LEMMA FiniteNext ==
  ASSUME SysvAssumption
  PROVE  /\ IsFiniteSet(Used') /\ IsFiniteSet(Stored')
         /\ Cardinality(Used') \in Nat /\ Cardinality(Stored') \in Nat
<1>1. (/\ IsFiniteSet(Used) /\ IsFiniteSet(Stored)
       /\ Cardinality(Used) \in Nat /\ Cardinality(Stored) \in Nat)'
  BY Finite, SysvAssumption, PTL
<1> QED
  BY <1>1

LEMMA OneMore ==
  ASSUME NEW S, IsFiniteSet(S), NEW x
  PROVE  /\ IsFiniteSet(S \cup {x}) /\ Cardinality(S \cup {x}) \in Nat
         /\ Cardinality(S \cup {x}) <= Cardinality(S) + 1
<1>1. Cardinality(S) \in Nat
  BY FS_CardinalityType
<1>2. /\ IsFiniteSet(S \cup {x})
      /\ Cardinality(S \cup {x}) = IF x \in S THEN Cardinality(S) ELSE Cardinality(S) + 1
  BY FS_AddElement
<1> QED
  BY <1>1, <1>2

\* An entry that goes takes one key with it, or none.
LEMMA EntryGoes ==
  ASSUME SysvAssumption, NEW i \in Used, Used' = Used \ {i},
         \A j \in Used' : slot'[j].key = slot[j].key
  PROVE  Cardinality(Used') = Cardinality(Used) - 1
         /\ Cardinality(Stored) <= Cardinality(Stored') + 1
<1>1. Cardinality(Used') = Cardinality(Used) - 1
  BY Finite, FS_RemoveElement
<1>2. Stored \subseteq Stored' \cup {slot[i].key}
  BY DEF Stored
<1>3. /\ IsFiniteSet(Stored' \cup {slot[i].key})
      /\ Cardinality(Stored' \cup {slot[i].key}) \in Nat
      /\ Cardinality(Stored' \cup {slot[i].key}) <= Cardinality(Stored') + 1
  BY FiniteNext, OneMore
<1>4. Cardinality(Stored) <= Cardinality(Stored' \cup {slot[i].key})
  BY <1>2, <1>3, FS_Subset
<1> QED
  BY <1>1, <1>3, <1>4, Finite, FiniteNext

LEMMA RoomLostStays ==
  ASSUME SysvAssumption, WInv, WInv', RoomLost, [Next]_vars
  PROVE  RoomLost'
<1> SUFFICES ASSUME ~spoilt'
             PROVE  Cardinality(Used') <= Cardinality(Stored') + hurt'
  BY DEF RoomLost
<1>1. hurt \in Nat /\ hurt' \in Nat
  BY DEF WInv, LInv, IInv, LockSound, TypeOK
<1>2. ASSUME ~spoilt, hurt' = hurt, Used' = Used, \A i \in Used : slot'[i].key = slot[i].key
      PROVE  Cardinality(Used') <= Cardinality(Stored') + hurt'
  BY <1>2, SameKeys DEF RoomLost
<1>3. ASSUME NEW w \in Workers,
             Fork(w) \/ Receive(w) \/ Leave(w) \/ Kill(w) \/ Lock(w) \/ RunCommand(w)
      PROVE  Cardinality(Used') <= Cardinality(Stored') + hurt'
  <2>1. ~spoilt /\ ~Blind(w) /\ (RunCommand(w) => hurt' = hurt)
    BY <1>3, History DEF Blind
  <2>2. Cardinality(Used) <= Cardinality(Stored) + hurt
    BY <2>1 DEF RoomLost
  <2>3. CASE Search(w) \/ SetFull(w) \/ Get(w) \/ DeleteMiss(w)
             \/ SetOld(w) \/ SetKey(w) \/ SetValue(w)
    <3>1. Used' = Used /\ \A i \in Used : slot'[i].key = slot[i].key
      BY <2>3, SearchEffect, ReadEffect, SetOldEffect, SetKeyEffect, SetValueEffect
    <3> QED
      BY <1>2, <2>1, <2>3, <3>1 DEF RunCommand
  <2>4. CASE SetCount(w)
    <3>1. /\ Used' = Used \cup {count} /\ count \notin Used /\ slot' = slot
          /\ ~Present(req[w].key) /\ slot[count].key = req[w].key
      BY <2>4, SetCountEffect
    <3>2. Stored' = Stored \cup {slot[count].key} /\ slot[count].key \notin Stored
      BY <3>1 DEF Stored, Present
    <3>3. Cardinality(Used') = Cardinality(Used) + 1
      BY <3>1, Finite, FS_AddElement
    <3>4. Cardinality(Stored') = Cardinality(Stored) + 1
      BY <3>2, Finite, FS_AddElement
    <3>5. hurt' = hurt
      BY <2>1, <2>4 DEF RunCommand
    <3> QED
      BY <1>1, <2>2, <3>3, <3>4, <3>5, Finite
  <2>5. CASE ShiftKey(w) \/ Drop(w)
    <3>1. /\ Used' = Used \ {pos[w]} /\ \A i \in Used' : slot'[i].key = slot[i].key
          /\ pos[w] \in Used \/ Used' = Used
      BY <2>5, ShiftKeyEffect, DropEffect DEF ShiftKey, Drop, Finish, Step
    <3>2. hurt' = hurt
      BY <2>1, <2>5 DEF RunCommand
    <3>3. CASE Used' = Used
      BY <1>2, <2>1, <3>1, <3>2, <3>3
    <3>4. CASE pos[w] \in Used
      <4>1. Cardinality(Used') = Cardinality(Used) - 1
            /\ Cardinality(Stored) <= Cardinality(Stored') + 1
        BY <3>1, <3>4, EntryGoes
      <4> QED
        BY <1>1, <2>2, <3>2, <4>1, Finite, FiniteNext
    <3> QED
      BY <3>1, <3>3, <3>4
  <2>6. CASE ShiftValue(w)
    <3> DEFINE i == pos[w]
    <3>1. /\ i \notin Used /\ i + 1 \in Used /\ Used' = (Used \ {i + 1}) \cup {i}
          /\ slot'[i].key = slot[i + 1].key
          /\ \A j \in Used : slot'[j] = slot[j]
      BY <2>6, ShiftValueEffect
    <3> HIDE DEF i
    <3>2. Stored' = Stored
      <4>1. \A j \in Used : \E m \in Used' : slot'[m].key = slot[j].key
        BY <3>1
      <4>2. \A m \in Used' : \E j \in Used : slot'[m].key = slot[j].key
        BY <3>1
      <4> QED
        BY <4>1, <4>2 DEF Stored
    <3>3. /\ IsFiniteSet(Used \ {i + 1})
          /\ Cardinality(Used \ {i + 1}) = Cardinality(Used) - 1
      BY <3>1, Finite, FS_RemoveElement
    <3>4. Cardinality((Used \ {i + 1}) \cup {i}) = Cardinality(Used \ {i + 1}) + 1
      BY <3>1, <3>3, FS_AddElement
    <3>5. Cardinality(Used') = Cardinality(Used)
      BY <3>1, <3>3, <3>4, Finite
    <3>6. hurt' = hurt
      BY <2>1, <2>6 DEF RunCommand
    <3> QED
      BY <2>2, <3>2, <3>5, <3>6
  <2>7. CASE Fork(w) \/ Receive(w) \/ Leave(w) \/ Lock(w) \/ Kill(w) \/ Unlock(w) \/ SemFails(w)
    <3>1. slot' = slot /\ count' = count /\ (~Shifting(w) => Used' = Used)
      BY <2>7, AroundEffect
    <3>2. CASE hurt' = hurt
      <4>1. Used' = Used
        BY <2>1, <2>7, <3>1, <3>2, NotHurt
      <4> QED
        BY <1>2, <2>1, <3>1, <3>2, <4>1
    <3>3. CASE hurt' # hurt
      <4>1. hurt' = hurt + 1 /\ Kill(w) /\ Shifting(w)
        BY <2>7, <3>3 DEF Fork, Receive, Leave, Lock, Kill, Unlock, SemFails
      <4>2. Used \subseteq Used' /\ Used' \subseteq Used \cup {pos[w]}
        <5>1. /\ ~Shifting(w)'
              /\ \A v \in Workers : v # w => (Shifting(v)' <=> Shifting(v)) /\ pos'[v] = pos[v]
          BY <4>1 DEF Kill, ForgetCommand, Shifting, WInv, LInv, IInv, LockSound, TypeOK
        <5> QED
          BY <3>1, <5>1 DEF Used
      <4>3. Stored \subseteq Stored'
        BY <3>1, <4>2 DEF Stored
      <4>4. Cardinality(Stored) <= Cardinality(Stored')
        BY <4>3, FiniteNext, FS_Subset
      <4>5. /\ IsFiniteSet(Used \cup {pos[w]}) /\ Cardinality(Used \cup {pos[w]}) \in Nat
            /\ Cardinality(Used \cup {pos[w]}) <= Cardinality(Used) + 1
        BY Finite, OneMore
      <4>6. Cardinality(Used') <= Cardinality(Used \cup {pos[w]})
        BY <4>2, <4>5, FS_Subset
      <4> QED
        BY <1>1, <2>2, <4>1, <4>4, <4>5, <4>6, Finite, FiniteNext
    <3> QED
      BY <3>2, <3>3
  <2> QED
    BY <1>3, <2>1, <2>3, <2>4, <2>5, <2>6, <2>7 DEF RunCommand
<1>4. CASE MasterKilled \/ ServerInit \/ ServerFails \/ ServerListens \/ UNCHANGED vars
  <2>1. CASE Used' = {}
    <3>1. Cardinality(Used') = 0
      BY <2>1, FS_EmptySet
    <3> QED
      BY <1>1, <3>1, FiniteNext
  <2>2. CASE ~spoilt /\ hurt' = hurt /\ Used' = Used /\ slot' = slot
    BY <1>2, <2>2
  <2> QED
    BY <1>4, <2>1, <2>2, ServerEffect
<1> QED
  BY <1>3, <1>4 DEF Next

\* A worker that dies while it closes a gap costs the table one entry of room and
\* not more, whatever clients, other deaths and servers do before and after.
THEOREM RoomBounded == Spec => []RoomLost
<1>1. ASSUME SysvAssumption, Init
      PROVE  RoomLost
  <2>1. Used = {} /\ hurt = 0
    BY <1>1, Indices DEF Init, Used
  <2>2. Cardinality(Used) = 0
    BY <2>1, FS_EmptySet
  <2> QED
    BY <1>1, <2>1, <2>2, Finite DEF RoomLost
<1> QED
  BY <1>1, RoomLostStays, WInvariance, SysvAssumption, PTL DEF Spec
===============================================================================
