--------------------------- MODULE SysvServerProofs ---------------------------
(***************************************************************************)
(* Proofs about SysvServer, for any number of connections and any signals:    *)
(* the list of children, the end of the master and the events of every        *)
(* process are sound.                                                        *)
(*                                                                          *)
(* ServerSound needs that a connection that waits to be accepted has no        *)
(* worker yet (Queue), so that the worker it gets is a new child and starts    *)
(* without events; and that only a process in its batch has any (Batches).     *)
(***************************************************************************)
EXTENDS SysvServer, TLAPS

\* Who is in the queue is there once, and was not accepted before.
Queue ==
  /\ \A c \in Clients : conn[c] \in {"new", "queued"} => proc[c] = "none"
  /\ \A i \in 1 .. Len(queue) : conn[queue[i]] = "queued"
  /\ \A i, j \in 1 .. Len(queue) : queue[i] = queue[j] => i = j

\* A worker has events in its batch only.
Batches == \A c \in Clients : proc[c] # "batch" => wbatch[c] = {}

IInv == ServerSound /\ Queue /\ Batches

-----------------------------------------------------------------------------
(* The queue.                                                               *)

LEMMA QueueAppend ==
  ASSUME NEW c \in Clients, TypeOK, Queue, conn[c] = "new",
         conn' = [conn EXCEPT ![c] = "queued"], queue' = Append(queue, c), UNCHANGED proc
  PROVE  /\ queue' \in Seq(Clients)
         /\ conn' \in [Clients -> {"new", "queued", "open", "closed"}]
         /\ Queue'
<1>1. /\ queue \in Seq(Clients) /\ conn \in [Clients -> {"new", "queued", "open", "closed"}]
  BY DEF TypeOK
<1>2. /\ Len(queue') = Len(queue) + 1 /\ queue'[Len(queue) + 1] = c
      /\ \A i \in 1 .. Len(queue) : queue'[i] = queue[i] /\ queue[i] \in Clients
      /\ Len(queue) \in Nat
  BY <1>1
<1>3. \A i \in 1 .. Len(queue) : conn[queue[i]] = "queued" /\ queue[i] # c
  BY DEF Queue
<1>4. \A i \in 1 .. Len(queue') : i \in 1 .. Len(queue) \/ i = Len(queue) + 1
  BY <1>2
<1>5. \A i \in 1 .. Len(queue') : conn'[queue'[i]] = "queued"
  BY <1>1, <1>2, <1>3, <1>4
<1>6. \A i, j \in 1 .. Len(queue') : queue'[i] = queue'[j] => i = j
  BY <1>2, <1>3, <1>4 DEF Queue
<1>7. \A d \in Clients : conn'[d] \in {"new", "queued"} => proc'[d] = "none"
  BY <1>1 DEF Queue
<1> QED
  BY <1>1, <1>5, <1>6, <1>7 DEF Queue

LEMMA QueueHead ==
  ASSUME IInv, NEW c \in Clients, Accept(c)
  PROVE  conn[c] = "queued" /\ proc[c] = "none"
<1>1. queue \in Seq(Clients) /\ queue # <<>> /\ c = Head(queue)
  BY DEF IInv, ServerSound, TypeOK, Accept
<1>2. 1 \in 1 .. Len(queue) /\ c = queue[1]
  BY <1>1
<1> QED
  BY <1>2 DEF IInv, Queue

LEMMA QueueTail ==
  ASSUME IInv, NEW c \in Clients, Accept(c), NEW to \in {"open", "closed"},
         conn' = [conn EXCEPT ![c] = to],
         \A d \in Clients : d # c => proc'[d] = proc[d]
  PROVE  /\ queue' \in Seq(Clients)
         /\ conn' \in [Clients -> {"new", "queued", "open", "closed"}]
         /\ Queue'
<1>1. /\ queue \in Seq(Clients) /\ queue # <<>> /\ c = Head(queue) /\ queue' = Tail(queue)
      /\ conn \in [Clients -> {"new", "queued", "open", "closed"}]
  BY DEF IInv, ServerSound, TypeOK, Accept
<1>2. /\ 1 \in 1 .. Len(queue) /\ c = queue[1]
      /\ Len(queue') = Len(queue) - 1 /\ queue' \in Seq(Clients)
      /\ \A i \in 1 .. Len(queue') : /\ queue'[i] = queue[i + 1]
                                     /\ i + 1 \in 1 .. Len(queue) /\ i + 1 # 1
                                     /\ queue'[i] \in Clients
  BY <1>1
<1>3. \A i \in 1 .. Len(queue') : conn[queue'[i]] = "queued" /\ queue'[i] # c
  <2>1. Queue
    BY DEF IInv
  <2>2. \A i \in 1 .. Len(queue') : queue[i + 1] # queue[1]
    BY <1>2, <2>1 DEF Queue
  <2>3. \A i \in 1 .. Len(queue') : conn[queue[i + 1]] = "queued"
    BY <1>2, <2>1 DEF Queue
  <2> QED
    BY <1>2, <2>2, <2>3
<1>4. conn'[c] = to /\ \A d \in Clients : d # c => conn'[d] = conn[d]
  BY <1>1
<1>5. \A i \in 1 .. Len(queue') : conn'[queue'[i]] = "queued"
  BY <1>2, <1>3, <1>4
<1>6. \A i, j \in 1 .. Len(queue') : queue'[i] = queue'[j] => i = j
  BY <1>2 DEF IInv, Queue
<1>7. \A d \in Clients : conn'[d] \in {"new", "queued"} => proc'[d] = "none"
  BY <1>4 DEF IInv, Queue
<1> QED
  BY <1>1, <1>2, <1>5, <1>6, <1>7 DEF Queue

-----------------------------------------------------------------------------
(* The clients and the keyboard.                                            *)

LEMMA Begins ==
  ASSUME ServerAssumption, Init
  PROVE  IInv
<1>1. TypeOK
  <2>1. queue \in Seq(Clients)
    BY DEF Init
  <2> QED
    BY <2>1 DEF Init, TypeOK
<1>2. ChildrenListed /\ NoOrphans /\ ReadsDoNotBlock
  BY DEF Init, ChildrenListed, NoOrphans, ReadsDoNotBlock, Living, Zombies
<1>3. Queue /\ Batches
  BY DEF Init, Queue, Batches
<1> QED
  BY <1>1, <1>2, <1>3 DEF IInv, ServerSound

\* More may become readable at any time.
LEMMA InputStep ==
  ASSUME IInv, UNCHANGED <<loop, list, worker>>,
         queue # <<>> => queue' # <<>>,
         \A p \in Procs : pend[p] \subseteq pend'[p],
         \A c \in Clients : (unread[c] => unread'[c]) /\ (fin[c] => fin'[c])
  PROVE  ChildrenListed' /\ NoOrphans' /\ ReadsDoNotBlock' /\ Batches'
<1>1. ChildrenListed' /\ NoOrphans' /\ Batches'
  BY DEF IInv, ServerSound, ChildrenListed, NoOrphans, Batches, Living, Zombies, loop, list,
     worker
<1>2. MasterReadable \subseteq MasterReadable'
  BY DEF MasterReadable, Procs
<1>3. \A c \in Clients : WorkerReadable(c) \subseteq WorkerReadable(c)'
  BY DEF WorkerReadable, Procs
<1>4. ReadsDoNotBlock'
  BY <1>2, <1>3 DEF IInv, ServerSound, ReadsDoNotBlock, Living, loop, worker
<1> QED
  BY <1>1, <1>4

LEMMA ConnectStep ==
  ASSUME IInv, NEW c \in Clients, Connect(c)
  PROVE  IInv'
<1>1. TypeOK /\ Queue
  BY DEF IInv, ServerSound
<1>2. /\ queue' \in Seq(Clients) /\ conn' \in [Clients -> {"new", "queued", "open", "closed"}]
      /\ Queue'
  BY <1>1, QueueAppend DEF Connect, worker
<1>3. medge' = medge \cup {"server"} /\ queue' = Append(queue, c)
      /\ UNCHANGED <<loop, list, worker, wedge, pend, input, missed>>
  BY DEF Connect
<1>4. TypeOK'
  BY <1>1, <1>2, <1>3 DEF TypeOK, loop, list, worker, input
<1>5. queue' # <<>>
  BY <1>1, <1>3 DEF TypeOK
<1>6. ChildrenListed' /\ NoOrphans' /\ ReadsDoNotBlock' /\ Batches'
  BY <1>3, <1>5, InputStep DEF input
<1> QED
  BY <1>2, <1>4, <1>6 DEF IInv, ServerSound

LEMMA SendCloseStep ==
  ASSUME IInv, NEW c \in Clients, Send(c) \/ Close(c)
  PROVE  IInv'
<1>1. TypeOK
  BY DEF IInv, ServerSound
<1>2. UNCHANGED <<loop, medge, list, worker, pend, conn, queue, missed>>
  BY DEF Send, Close
<1>3. \/ unread' = [unread EXCEPT ![c] = TRUE] /\ fin' = fin
      \/ fin' = [fin EXCEPT ![c] = TRUE] /\ unread' = unread
  BY DEF Send, Close
<1>4. wedge' \in [Clients -> SUBSET {"signal", "client"}]
  BY <1>1 DEF Send, Close, Arrive, TypeOK
<1>5. TypeOK'
  BY <1>1, <1>2, <1>3, <1>4 DEF TypeOK, loop, list, worker
<1>6. \A d \in Clients : (unread[d] => unread'[d]) /\ (fin[d] => fin'[d])
  BY <1>1, <1>3 DEF TypeOK
<1>7. ChildrenListed' /\ NoOrphans' /\ ReadsDoNotBlock' /\ Batches'
  BY <1>2, <1>6, InputStep
<1>8. Queue'
  BY <1>2 DEF IInv, Queue, worker
<1> QED
  BY <1>5, <1>7, <1>8 DEF IInv, ServerSound

LEMMA SignalStep ==
  ASSUME ServerAssumption, IInv, NEW s \in Signals, Signal(s)
  PROVE  IInv'
<1>1. TypeOK /\ s \in {"int", "quit"}
  BY DEF IInv, ServerSound, ServerAssumption
<1>2. UNCHANGED <<loop, list, worker, conn, queue, input, missed>>
  BY DEF Signal
<1>3. PICK hit :
        /\ pend' = [p \in Procs |-> IF p \in hit THEN pend[p] \cup {s} ELSE pend[p]]
        /\ wedge' = [c \in Clients |-> IF c \in hit THEN wedge[c] \cup {"signal"} ELSE wedge[c]]
  BY DEF Signal
<1>4. medge' \subseteq {"server", "signal"}
  BY <1>1 DEF Signal, TypeOK
<1>5. pend' \in [Procs -> SUBSET {"int", "quit"}]
  BY <1>1, <1>3 DEF TypeOK
<1>6. wedge' \in [Clients -> SUBSET {"signal", "client"}]
  BY <1>1, <1>3 DEF TypeOK
<1>7. TypeOK'
  BY <1>1, <1>2, <1>4, <1>5, <1>6 DEF TypeOK, loop, list, worker, input
<1>8. \A p \in Procs : pend[p] \subseteq pend'[p]
  BY <1>3
<1>9. ChildrenListed' /\ NoOrphans' /\ ReadsDoNotBlock' /\ Batches'
  BY <1>2, <1>8, InputStep DEF input
<1>10. Queue'
  BY <1>2 DEF IInv, Queue, worker
<1> QED
  BY <1>7, <1>9, <1>10 DEF IInv, ServerSound

-----------------------------------------------------------------------------
(* The master.                                                              *)

\* A step of the master that leaves the workers, the list and the input alone.
LEMMA MasterAlone ==
  ASSUME IInv, UNCHANGED <<list, worker, conn, queue, input>>,
         \A c \in Clients : pend'[c] = pend[c], mpc' # "done"
  PROVE  ChildrenListed' /\ NoOrphans' /\ Batches' /\ Queue'
         /\ (\A c \in Living' : wbatch'[c] \subseteq WorkerReadable(c)')
<1>1. ChildrenListed' /\ NoOrphans' /\ Batches' /\ Queue'
  BY DEF IInv, ServerSound, ChildrenListed, NoOrphans, Batches, Queue, Living, Zombies, list,
     worker
<1>2. \A c \in Clients : WorkerReadable(c)' = WorkerReadable(c)
  BY DEF WorkerReadable, input
<1>3. \A c \in Living' : c \in Living /\ c \in Clients /\ wbatch'[c] = wbatch[c]
  BY DEF Living, worker
<1> QED
  BY <1>1, <1>2, <1>3 DEF IInv, ServerSound, ReadsDoNotBlock

LEMMA MasterAloneSteps ==
  ASSUME ServerAssumption, IInv,
         MasterPoll \/ MasterSignal \/ AcceptFails \/ MasterTurn \/ SweepEnd
  PROVE  IInv'
<1>1. TypeOK /\ (mpc = "batch" => mbatch \subseteq MasterReadable)
  BY DEF IInv, ServerSound, ReadsDoNotBlock
<1>2. UNCHANGED <<list, worker, conn, queue, input, wedge>> /\ mpc' # "done"
  BY DEF MasterPoll, MasterSignal, AcceptFails, MasterTurn, SweepEnd, AfterBatch
<1>3. \A c \in Clients : pend'[c] = pend[c]
  BY <1>1 DEF MasterPoll, MasterSignal, AcceptFails, MasterTurn, SweepEnd, ServerAssumption,
     TypeOK, Procs
<1>4. /\ ChildrenListed' /\ NoOrphans' /\ Batches' /\ Queue'
      /\ \A c \in Living' : wbatch'[c] \subseteq WorkerReadable(c)'
  BY <1>2, <1>3, MasterAlone
<1>5. pend' \in [Procs -> SUBSET {"int", "quit"}]
  <2>1. CASE MasterSignal
    BY <1>1, <2>1 DEF MasterSignal, TypeOK
  <2>2. CASE MasterPoll \/ AcceptFails \/ MasterTurn \/ SweepEnd
    BY <1>1, <2>2 DEF MasterPoll, AcceptFails, MasterTurn, SweepEnd, TypeOK
  <2> QED
    BY <2>1, <2>2
<1>6. /\ mpc' \in {"wait", "batch", "sweep", "reap", "done"}
      /\ mbatch' \subseteq {"server", "signal"} /\ medge' \subseteq {"server", "signal"}
      /\ mexit' \in BOOLEAN /\ missed' \in BOOLEAN
  BY <1>1 DEF MasterPoll, MasterSignal, AcceptFails, MasterTurn, SweepEnd, AfterBatch,
     AfterSignal, TypeOK
<1>7. TypeOK'
  BY <1>1, <1>2, <1>5, <1>6 DEF TypeOK, list, worker, input
<1>8. mpc' = "batch" => mbatch' \subseteq MasterReadable'
  <2>1. CASE MasterPoll
    BY <2>1 DEF MasterPoll, MasterReadable
  <2>2. CASE MasterSignal
    BY <1>1, <1>2, <2>2 DEF MasterSignal, AfterSignal, MasterReadable
  <2>3. CASE AcceptFails
    BY <1>1, <2>3 DEF AcceptFails, MasterReadable
  <2>4. CASE MasterTurn \/ SweepEnd
    BY <2>4 DEF MasterTurn, SweepEnd, AfterBatch
  <2> QED
    BY <2>1, <2>2, <2>3, <2>4
<1> QED
  BY <1>4, <1>7, <1>8 DEF IInv, ServerSound, ReadsDoNotBlock
\* A connection is accepted: it gets a worker, or one that has ended at once.
LEMMA AcceptChildStep ==
  ASSUME ServerAssumption, IInv, NEW c \in Clients, AcceptFork(c) \/ AcceptStillborn(c)
  PROVE  IInv'
<1>1. TypeOK /\ Accept(c) /\ Batches /\ mpc = "batch" /\ mbatch' = mbatch \ {"server"}
      /\ UNCHANGED <<mpc, mexit, medge, pend, missed, unborn, wbatch, wexit>>
      /\ children' = children \cup {c}
  BY DEF IInv, ServerSound, AcceptFork, AcceptStillborn, Accept, Listed
<1>2. conn[c] = "queued" /\ proc[c] = "none"
  BY <1>1, QueueHead
<1>3. PICK p \in {"wait", "zombie"} : proc' = [proc EXCEPT ![c] = p]
  BY DEF AcceptFork, AcceptStillborn
<1>4. /\ proc' \in [Clients -> {"none", "wait", "batch", "zombie", "reaped"}]
      /\ proc'[c] = p
      /\ \A d \in Clients : d # c => proc'[d] = proc[d]
  BY <1>1, <1>3 DEF TypeOK
<1>5. /\ queue' \in Seq(Clients) /\ Queue'
      /\ conn' \in [Clients -> {"new", "queued", "open", "closed"}]
  BY <1>1, <1>4, QueueTail DEF AcceptFork, AcceptStillborn
<1>6. /\ unread' \in [Clients -> BOOLEAN] /\ fin' \in [Clients -> BOOLEAN]
      /\ \A d \in Clients : d # c => unread'[d] = unread[d] /\ fin'[d] = fin[d]
      /\ wedge' \in [Clients -> SUBSET {"signal", "client"}]
  <2>1. CASE AcceptFork(c)
    BY <1>1, <2>1 DEF AcceptFork, TypeOK, input
  <2>2. CASE AcceptStillborn(c)
    BY <1>1, <2>2 DEF AcceptStillborn, TypeOK
  <2> QED
    BY <2>1, <2>2
<1>7. TypeOK'
  BY <1>1, <1>4, <1>5, <1>6 DEF TypeOK
<1>8. ChildrenListed'
  BY <1>1, <1>2, <1>4 DEF IInv, ServerSound, ChildrenListed, Living, Zombies
<1>9. Batches'
  BY <1>1, <1>2, <1>4 DEF Batches
<1>10. ASSUME NEW d \in Living'
       PROVE  wbatch'[d] \subseteq WorkerReadable(d)'
  <2>1. CASE d = c
    BY <1>1, <1>2, <2>1 DEF Batches
  <2>2. CASE d # c
    BY <1>1, <1>4, <1>6, <2>2
    DEF IInv, ServerSound, ReadsDoNotBlock, Living, WorkerReadable
  <2> QED
    BY <2>1, <2>2
<1>11. mbatch' \subseteq MasterReadable'
  BY <1>1 DEF IInv, ServerSound, ReadsDoNotBlock, MasterReadable
<1> QED
  BY <1>1, <1>5, <1>7, <1>8, <1>9, <1>10, <1>11
  DEF IInv, ServerSound, NoOrphans, ReadsDoNotBlock

LEMMA AcceptNoForkStep ==
  ASSUME ServerAssumption, IInv, NEW c \in Clients, AcceptNoFork(c)
  PROVE  IInv'
<1>1. TypeOK /\ Accept(c) /\ mpc = "batch" /\ mbatch' = mbatch \ {"server"}
      /\ conn' = [conn EXCEPT ![c] = "open"]
      /\ UNCHANGED <<mpc, mexit, medge, pend, missed, children, worker, wedge, input>>
      /\ unborn' = unborn + 1
  BY DEF IInv, ServerSound, AcceptNoFork, Accept
<1>2. /\ queue' \in Seq(Clients) /\ Queue'
      /\ conn' \in [Clients -> {"new", "queued", "open", "closed"}]
  BY <1>1, QueueTail DEF worker
<1>3. unborn' \in Nat
  BY <1>1 DEF TypeOK
<1>4. TypeOK'
  BY <1>1, <1>2, <1>3 DEF TypeOK, worker, input
<1>5. ChildrenListed' /\ NoOrphans' /\ Batches'
  BY <1>1 DEF IInv, ServerSound, ChildrenListed, NoOrphans, Batches, Living, Zombies, worker
<1>6. ReadsDoNotBlock'
  BY <1>1 DEF IInv, ServerSound, ReadsDoNotBlock, MasterReadable, WorkerReadable, Living, worker,
     input
<1> QED
  BY <1>2, <1>4, <1>5, <1>6 DEF IInv, ServerSound

LEMMA ReapStep ==
  ASSUME IInv, NEW c \in Clients, Reap(c)
  PROVE  IInv'
<1>1. TypeOK /\ proc[c] = "zombie" /\ proc' = [proc EXCEPT ![c] = "reaped"]
      /\ children' = children \ {c} /\ mpc # "batch" /\ mpc # "done"
      /\ UNCHANGED <<loop, medge, unborn, wbatch, wexit, wedge, pend, conn, queue, input, missed>>
  BY DEF IInv, ServerSound, Reap, Erased, Zombies
<1>2. /\ proc' \in [Clients -> {"none", "wait", "batch", "zombie", "reaped"}]
      /\ proc'[c] = "reaped"
      /\ \A d \in Clients : d # c => proc'[d] = proc[d]
  BY <1>1 DEF TypeOK
<1>3. TypeOK'
  BY <1>1, <1>2 DEF TypeOK, loop, input
<1>4. ChildrenListed' /\ NoOrphans'
  BY <1>1, <1>2 DEF IInv, ServerSound, ChildrenListed, NoOrphans, Living, Zombies, loop
<1>5. ReadsDoNotBlock'
  BY <1>1, <1>2 DEF IInv, ServerSound, ReadsDoNotBlock, WorkerReadable, Living, loop, input
<1>6. Queue' /\ Batches'
  BY <1>1, <1>2 DEF IInv, Queue, Batches
<1> QED
  BY <1>3, <1>4, <1>5, <1>6 DEF IInv, ServerSound

LEMMA MasterEndSteps ==
  ASSUME IInv, ReapUnborn \/ MasterExit
  PROVE  IInv'
<1>1. TypeOK /\ mpc = "reap"
  BY DEF IInv, ServerSound, ReapUnborn, MasterExit
<1>2. CASE ReapUnborn
  <2>1. UNCHANGED <<loop, medge, children, worker, wedge, pend, conn, queue, input, missed>>
    BY <1>2 DEF ReapUnborn
  <2>2. unborn' \in Nat
    <3>1. unborn \in Nat /\ unborn > 0 /\ unborn' = unborn - 1
      BY <1>1, <1>2 DEF ReapUnborn, FailedFork, TypeOK
    <3> QED
      BY <3>1
  <2>3. TypeOK'
    BY <1>1, <2>1, <2>2 DEF TypeOK, loop, worker, input
  <2>4. ChildrenListed' /\ NoOrphans' /\ ReadsDoNotBlock'
    BY <2>1 DEF IInv, ServerSound, ChildrenListed, NoOrphans, ReadsDoNotBlock, MasterReadable,
       WorkerReadable, Living, Zombies, loop, worker, input
  <2>5. Queue' /\ Batches'
    BY <2>1 DEF IInv, Queue, Batches, worker
  <2> QED
    BY <2>3, <2>4, <2>5 DEF IInv, ServerSound
<1>3. CASE MasterExit
  <2>1. /\ children = {} /\ mpc' = "done" /\ queue' = <<>>
        /\ conn' = [c \in Clients |-> IF conn[c] = "new" THEN "new" ELSE "closed"]
        /\ unread' = [c \in Clients |-> FALSE] /\ fin' = [c \in Clients |-> FALSE]
        /\ UNCHANGED <<mbatch, mexit, medge, list, worker, wedge, pend, missed>>
    BY <1>3 DEF MasterExit, AllReaped
  <2>2. queue' \in Seq(Clients) /\ Len(queue') = 0
    BY <2>1
  <2>3. conn' \in [Clients -> {"new", "queued", "open", "closed"}]
    BY <2>1
  <2>4. TypeOK'
    BY <1>1, <2>1, <2>2, <2>3 DEF TypeOK, list, worker
  <2>5. Living = {} /\ Living' = {}
    BY <2>1 DEF IInv, ServerSound, ChildrenListed, Living, worker
  <2>6. ChildrenListed' /\ NoOrphans' /\ ReadsDoNotBlock'
    BY <2>1, <2>5 DEF IInv, ServerSound, ChildrenListed, NoOrphans, ReadsDoNotBlock, Zombies,
       list, worker
  <2>7. \A c \in Clients : conn'[c] \in {"new", "queued"} => proc'[c] = "none"
    BY <2>1 DEF IInv, Queue, worker
  <2>8. Queue' /\ Batches'
    BY <2>1, <2>2, <2>7 DEF IInv, Queue, Batches, worker
  <2> QED
    BY <2>4, <2>6, <2>8 DEF IInv, ServerSound
<1> QED
  BY <1>2, <1>3

-----------------------------------------------------------------------------
(* The workers.                                                             *)

\* Worker c steps within its life, and has no more events than it can read.
LEMMA WorkerStays ==
  ASSUME ServerAssumption, IInv, TypeOK', NEW c \in Clients,
         UNCHANGED <<loop, list, conn, queue>>, pend'[Master] = pend[Master],
         proc[c] \in {"wait", "batch"}, proc'[c] \in {"wait", "batch"},
         wbatch'[c] \subseteq WorkerReadable(c)', proc'[c] = "wait" => wbatch'[c] = {},
         \A d \in Clients : d # c =>
           /\ proc'[d] = proc[d] /\ wbatch'[d] = wbatch[d] /\ pend'[d] = pend[d]
           /\ unread'[d] = unread[d] /\ fin'[d] = fin[d]
  PROVE  IInv'
<1>1. TypeOK
  BY DEF IInv, ServerSound
<1>2. Living' = Living /\ Zombies' = Zombies
  BY DEF Living, Zombies
<1>3. ChildrenListed' /\ NoOrphans'
  BY <1>2 DEF IInv, ServerSound, ChildrenListed, NoOrphans, loop, list
<1>4. \A d \in Living' : wbatch'[d] \subseteq WorkerReadable(d)'
  <2> TAKE d \in Living'
  <2>1. CASE d = c
    BY <2>1
  <2>2. CASE d # c
    BY <1>2, <2>2 DEF IInv, ServerSound, ReadsDoNotBlock, WorkerReadable, Living
  <2> QED
    BY <2>1, <2>2
<1>5. mpc' = "batch" => mbatch' \subseteq MasterReadable'
  BY DEF IInv, ServerSound, ReadsDoNotBlock, MasterReadable, loop
<1>6. Queue'
  BY DEF IInv, Queue
<1>7. Batches'
  BY DEF IInv, Batches
<1> QED
  BY <1>3, <1>4, <1>5, <1>6, <1>7 DEF IInv, ServerSound, ReadsDoNotBlock

LEMMA WorkerPollTurnStep ==
  ASSUME ServerAssumption, IInv, NEW c \in Clients, WorkerPoll(c) \/ WorkerTurn(c)
  PROVE  IInv'
<1>1. TypeOK /\ proc[c] \in {"wait", "batch"}
      /\ UNCHANGED <<loop, medge, list, wexit, pend, conn, queue, input, missed>>
  BY DEF IInv, ServerSound, WorkerPoll, WorkerTurn
<1>2. PICK p \in {"wait", "batch"} : proc' = [proc EXCEPT ![c] = p]
                                    /\ (p = "wait" => wbatch' = wbatch /\ wbatch[c] = {})
                                    /\ (p = "batch" => WorkerPoll(c))
  BY DEF WorkerPoll, WorkerTurn
<1>3. /\ wedge' \in [Clients -> SUBSET {"signal", "client"}]
      /\ wbatch' \in [Clients -> SUBSET {"signal", "client"}]
      /\ proc' \in [Clients -> {"none", "wait", "batch", "zombie", "reaped"}]
      /\ proc'[c] = p
      /\ \A d \in Clients : d # c => proc'[d] = proc[d] /\ wbatch'[d] = wbatch[d]
  BY <1>1, <1>2 DEF TypeOK, WorkerPoll, WorkerTurn
<1>4. TypeOK'
  BY <1>1, <1>3 DEF TypeOK, loop, list, input
<1>5. wbatch'[c] \subseteq WorkerReadable(c)'
  <2>1. WorkerReadable(c)' = WorkerReadable(c)
    BY <1>1 DEF WorkerReadable, input
  <2>2. CASE p = "wait"
    BY <1>2, <2>2
  <2>3. CASE p = "batch"
    BY <1>1, <1>2, <2>1, <2>3 DEF WorkerPoll, TypeOK
  <2> QED
    BY <2>2, <2>3
<1> QED
  BY <1>1, <1>2, <1>3, <1>4, <1>5, WorkerStays DEF input

LEMMA WorkerHandleStep ==
  ASSUME ServerAssumption, IInv, NEW c \in Clients,
         WorkerSignal(c) \/ WorkerCommand(c) \/ WorkerEnd(c)
  PROVE  IInv'
<1>1. PICK e \in {"signal", "client"} :
        /\ proc[c] = "batch" /\ e \in wbatch[c]
        /\ wbatch' = [wbatch EXCEPT ![c] = wbatch[c] \ {e}]
        /\ UNCHANGED <<loop, medge, list, proc, wedge, conn, queue, fin, missed>>
        /\ e = "signal" => unread' = unread
        /\ e = "client" => pend' = pend
        /\ e = "signal" => WorkerSignal(c)
  BY DEF WorkerSignal, WorkerCommand, WorkerEnd, Handle, Left
<1>2. TypeOK
  BY DEF IInv, ServerSound
<1>3. /\ wbatch' \in [Clients -> SUBSET {"signal", "client"}]
      /\ wbatch'[c] = wbatch[c] \ {e}
      /\ \A d \in Clients : d # c => wbatch'[d] = wbatch[d]
  BY <1>1, <1>2 DEF TypeOK
<1>4. /\ unread' \in [Clients -> BOOLEAN] /\ wexit' \in [Clients -> BOOLEAN]
      /\ \A d \in Clients : d # c => unread'[d] = unread[d]
  BY <1>2 DEF WorkerSignal, WorkerCommand, WorkerEnd, Told, TypeOK
<1>5. /\ pend' \in [Procs -> SUBSET {"int", "quit"}]
      /\ pend'[Master] = pend[Master]
      /\ \A d \in Clients : d # c => pend'[d] = pend[d]
  BY <1>2 DEF WorkerSignal, WorkerCommand, WorkerEnd, TypeOK, Procs, ServerAssumption
<1>6. TypeOK'
  BY <1>1, <1>2, <1>3, <1>4, <1>5 DEF TypeOK, loop, list
<1>7. wbatch[c] \subseteq WorkerReadable(c)
  BY <1>1 DEF IInv, ServerSound, ReadsDoNotBlock, Living
<1>8. wbatch'[c] \subseteq WorkerReadable(c)'
  BY <1>1, <1>2, <1>3, <1>7 DEF WorkerReadable, TypeOK
<1> QED
  BY <1>1, <1>3, <1>4, <1>5, <1>6, <1>8, WorkerStays

LEMMA WorkerExitStep ==
  ASSUME ServerAssumption, IInv, NEW c \in Clients, WorkerExit(c)
  PROVE  IInv'
<1>1. TypeOK /\ proc[c] = "batch" /\ wbatch[c] = {}
      /\ proc' = [proc EXCEPT ![c] = "zombie"]
      /\ conn' = [conn EXCEPT ![c] = "closed"]
      /\ unread' = [unread EXCEPT ![c] = FALSE]
      /\ fin' = [fin EXCEPT ![c] = FALSE]
      /\ wedge' = [wedge EXCEPT ![c] = {}]
      /\ pend' = [pend EXCEPT ![c] = {}]
      /\ UNCHANGED <<loop, medge, list, wbatch, wexit, queue, missed>>
  BY DEF IInv, ServerSound, WorkerExit
<1>2. c # Master /\ c \in Procs /\ Master \in Procs
  BY DEF ServerAssumption, Procs
<1>3. TypeOK'
  BY <1>1, <1>2 DEF TypeOK, loop, list
<1>4. /\ proc'[c] = "zombie" /\ conn'[c] = "closed"
      /\ \A d \in Clients : d # c =>
           /\ proc'[d] = proc[d] /\ conn'[d] = conn[d] /\ pend'[d] = pend[d]
           /\ unread'[d] = unread[d] /\ fin'[d] = fin[d]
      /\ pend'[Master] = pend[Master]
  BY <1>1, <1>2 DEF TypeOK, Procs
<1>5. ChildrenListed'
  BY <1>1, <1>4 DEF IInv, ServerSound, ChildrenListed, Living, Zombies, list
<1>6. NoOrphans'
  BY <1>1, <1>4 DEF IInv, ServerSound, NoOrphans, Living, loop
<1>7. \A d \in Living' : wbatch'[d] \subseteq WorkerReadable(d)'
  BY <1>1, <1>4 DEF IInv, ServerSound, ReadsDoNotBlock, Living, WorkerReadable
<1>8. mpc' = "batch" => mbatch' \subseteq MasterReadable'
  BY <1>1, <1>4 DEF IInv, ServerSound, ReadsDoNotBlock, MasterReadable, loop
<1>9. Queue'
  <2>1. \A i \in 1 .. Len(queue) : queue[i] # c
    BY <1>1 DEF IInv, Queue
  <2>2. \A i \in 1 .. Len(queue) : queue[i] \in Clients
    BY <1>1 DEF TypeOK
  <2> QED
    BY <1>1, <1>4, <2>1, <2>2 DEF IInv, Queue
<1>10. Batches'
  BY <1>1, <1>4 DEF IInv, Batches
<1> QED
  BY <1>3, <1>5, <1>6, <1>7, <1>8, <1>9, <1>10 DEF IInv, ServerSound, ReadsDoNotBlock

-----------------------------------------------------------------------------
LEMMA Stays ==
  ASSUME ServerAssumption, IInv, [Next]_vars
  PROVE  IInv'
<1>1. CASE MasterStep
  BY <1>1, MasterAloneSteps, AcceptChildStep, AcceptNoForkStep, ReapStep, MasterEndSteps
  DEF MasterStep
<1>2. ASSUME NEW c \in Clients, WorkerStep(c)
      PROVE  IInv'
  BY <1>2, WorkerPollTurnStep, WorkerHandleStep, WorkerExitStep DEF WorkerStep
<1>3. CASE Environment
  BY <1>3, ConnectStep, SendCloseStep, SignalStep DEF Environment
<1>4. CASE UNCHANGED vars
  <2>1. UNCHANGED <<mpc, mbatch, mexit, medge, children, unborn, proc, wbatch, wexit, wedge, pend,
                    conn, queue, unread, fin, missed>>
    BY <1>4 DEF vars, loop, list, worker, input
  <2>2. TypeOK'
    BY <2>1 DEF IInv, ServerSound, TypeOK
  <2>3. ChildrenListed' /\ NoOrphans' /\ ReadsDoNotBlock'
    BY <2>1 DEF IInv, ServerSound, ChildrenListed, NoOrphans, ReadsDoNotBlock, MasterReadable,
       WorkerReadable, Living, Zombies
  <2>4. Queue' /\ Batches'
    BY <2>1 DEF IInv, Queue, Batches
  <2> QED
    BY <2>2, <2>3, <2>4 DEF IInv, ServerSound
<1> QED
  BY <1>1, <1>2, <1>3, <1>4 DEF Next

\* The invariant that carries the others.
THEOREM Invariance == Spec => []IInv
BY Begins, Stays, ServerAssumption, PTL DEF Spec

\* The list of children is exact, the storage outlives every worker and no read of
\* any process hangs: master_loop, client_accept and worker_loop, for any number of
\* connections and however accept, fork and set-up fail.
THEOREM ServerAlwaysSound == Spec => []ServerSound
<1>1. IInv => ServerSound
  BY DEF IInv
<1> QED
  BY <1>1, Invariance, PTL
===============================================================================
