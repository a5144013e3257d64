----------------------------- MODULE WorkerPool -----------------------------
(***************************************************************************)
(* The processes of the POSIX key-value server (src/p6): a master accepts   *)
(* connections and passes each to a free worker over a socket pair; a       *)
(* worker serves one connection and tells the master over the same socket    *)
(* pair when it is free again.                                              *)
(*                                                                          *)
(* Every process is a loop over edge-triggered epoll_wait: "edge" sets hold  *)
(* the descriptors something has happened on since they were last reported,  *)
(* "batch" sets the events of the current turn that are still to be handled. *)
(* All the descriptors block, so a handler must find what its event says.    *)
(*                                                                          *)
(* A command is one step here; KvStore is about what happens within it.      *)
(***************************************************************************)
EXTENDS Integers, Sequences, FiniteSets

CONSTANTS
  Workers,       \* the worker processes
  Master,        \* the master process
  Clients,       \* the connections, each opened at most once
  None,          \* no connection
  Backlog,       \* length of the queue that listen() asks for
  SignalGroups,  \* the sets of processes that signals are sent to
  Signals,       \* the signals sent, of "int" (SIGINT) and "quit" (SIGQUIT)
  IoMayFail      \* whether sendmsg and epoll_ctl may fail

ASSUME PoolAssumption ==
  /\ Master \notin Workers \cup {"server", "signal"}
  /\ Workers \cap {"server", "signal"} = {}
  /\ None \notin Clients
  /\ Backlog \in Nat \ {0}
  /\ SignalGroups \subseteq SUBSET (Workers \cup {Master})
  /\ Signals \subseteq {"int", "quit"}
  /\ IoMayFail \in BOOLEAN

VARIABLES
  \* the master
  mpc,      \* "wait", "batch", "reap" (wait_for_workers), "done" or "killed"
  mbatch,   \* events still to be handled: "server", "signal" or a worker
  medge,    \* descriptors with a new event
  mexit,    \* needs_exit
  free,     \* [worker -> WorkerInfo::free]
  list,     \* the workers in workers_list
  \* the workers
  wpc,      \* [worker -> "wait", "batch" or "gone"]
  wbatch,   \* [worker -> events still to be handled: "signal", "pass", "client"]
  wedge,    \* [worker -> descriptors with a new event]
  wexit,    \* [worker -> needs_exit]
  client,   \* [worker -> client_socket, or None]
  \* between them
  down,     \* [worker -> connections passed to it and not yet received]
  up,       \* [worker -> notifications it has sent and the master has not read]
  pend,     \* [process -> its pending signals]
  \* the connections
  conn,     \* [connection -> "new", "queued", "open" or "closed"]
  queue,    \* connections to be accepted
  unread,   \* [connection -> the first command not yet read: "none", "cmd", "bad"]
  fin       \* [connection -> the end of the client's stream is there to be read]

master == <<mpc, mbatch, mexit, list>>
worker == <<wpc, wbatch, wexit>>
inputs == <<unread, fin>>
vars == <<master, medge, free, worker, wedge, client, down, up, pend,
          conn, queue, inputs>>

Procs == Workers \cup {Master}
Ended == {"done", "killed"}

\* master_loop listens and blocks its signals before it starts the workers.
MasterInit ==
  /\ mpc = "wait" /\ mbatch = {} /\ medge = {} /\ mexit = FALSE
  /\ queue = <<>>

\* create_workers: every worker is noted as free, its socket pair is empty.
PoolInit ==
  /\ free = [w \in Workers |-> TRUE]
  /\ list = Workers
  /\ down = [w \in Workers |-> <<>>]
  /\ up = [w \in Workers |-> 0]

\* worker_loop before its loop.
WorkerInit ==
  /\ wpc = [w \in Workers |-> "wait"]
  /\ wbatch = [w \in Workers |-> {}]
  /\ wedge = [w \in Workers |-> {}]
  /\ wexit = [w \in Workers |-> FALSE]
  /\ client = [w \in Workers |-> None]

Init ==
  /\ MasterInit /\ PoolInit /\ WorkerInit
  /\ pend = [p \in Procs |-> {}]
  /\ conn = [c \in Clients |-> "new"]
  /\ unread = [c \in Clients |-> "none"]
  /\ fin = [c \in Clients |-> FALSE]

-----------------------------------------------------------------------------
(* The clients and the keyboard.                                            *)

\* A client connects while there is room in the queue of the listening socket.
Connect(c) ==
  /\ conn[c] = "new"
  /\ mpc \notin Ended
  /\ Len(queue) < Backlog
  /\ conn' = [conn EXCEPT ![c] = "queued"]
  /\ queue' = Append(queue, c)
  /\ medge' = medge \cup {"server"}
  /\ UNCHANGED <<master, free, worker, wedge, client, down, up, pend, inputs>>

\* Something arrives on a connection: an edge for the worker that has it.
Arrive(c) ==
  wedge' = [w \in Workers |->
              IF client[w] = c THEN wedge[w] \cup {"client"} ELSE wedge[w]]

\* The server closes some connections; what is unread in them is dropped.
CloseAll(C) ==
  /\ conn' = [c \in Clients |-> IF c \in C THEN "closed" ELSE conn[c]]
  /\ unread' = [c \in Clients |-> IF c \in C THEN "none" ELSE unread[c]]
  /\ fin' = [c \in Clients |-> IF c \in C THEN FALSE ELSE fin[c]]

Usable(c) == conn[c] \in {"queued", "open"} /\ ~fin[c]

\* A client sends a command, well formed or not.  recv takes all there is and
\* read_client_data looks at the first command only, so what comes after an
\* unread command changes nothing.
Send(c) ==
  /\ Usable(c)
  /\ \E m \in {"cmd", "bad"} :
       unread' = [unread EXCEPT ![c] = IF @ = "none" THEN m ELSE @]
  /\ Arrive(c)
  /\ UNCHANGED <<master, medge, free, worker, client, down, up, pend, conn, queue, fin>>

Close(c) ==
  /\ Usable(c)
  /\ fin' = [fin EXCEPT ![c] = TRUE]
  /\ Arrive(c)
  /\ UNCHANGED <<master, medge, free, worker, client, down, up, pend, conn, queue, unread>>

\* The processes that have not ended.
Living == {w \in Workers : wpc[w] # "gone"} \cup {p \in {Master} : mpc \notin Ended}

\* A signal is sent to a group of processes.
Kill(group, s) ==
  LET hit == group \cap Living IN
  /\ \E p \in hit : s \notin pend[p]
  /\ pend' = [p \in Procs |-> IF p \in hit THEN pend[p] \cup {s} ELSE pend[p]]
  /\ medge' = IF Master \in hit THEN medge \cup {"signal"} ELSE medge
  /\ wedge' = [w \in Workers |->
                IF w \in hit THEN wedge[w] \cup {"signal"} ELSE wedge[w]]
  /\ UNCHANGED <<master, free, worker, client, down, up, conn, queue, inputs>>

-----------------------------------------------------------------------------
(* The master.                                                              *)

\* What epoll_wait finds readable in the master.
MasterReadable ==
  {w \in list : up[w] > 0 \/ wpc[w] = "gone"}
  \cup (IF queue # <<>> THEN {"server"} ELSE {})
  \cup (IF pend[Master] # {} THEN {"signal"} ELSE {})

MasterPoll ==
  /\ mpc = "wait"
  /\ medge \cap MasterReadable # {}
  /\ mbatch' = medge \cap MasterReadable
  /\ medge' = {}
  /\ mpc' = "batch"
  /\ UNCHANGED <<mexit, list, free, worker, wedge, client, down, up, pend, conn, queue, inputs>>

\* A read of the signal descriptor returns the pending signal with the lowest
\* number: SIGINT before SIGQUIT.
First(sigs) == IF "int" \in sigs THEN "int" ELSE "quit"

MasterSignal ==
  /\ mpc = "batch" /\ "signal" \in mbatch
  /\ LET s == First(pend[Master]) IN
       /\ pend' = [pend EXCEPT ![Master] = @ \ {s}]
       /\ mexit' = (mexit \/ s = "int")
  /\ mbatch' = mbatch \ {"signal"}
  /\ UNCHANGED <<mpc, list, medge, free, worker, wedge, client, down, up, conn, queue, inputs>>

\* accept fails and leaves the connection in the queue.
AcceptFails ==
  /\ IoMayFail
  /\ mpc = "batch" /\ "server" \in mbatch
  /\ mbatch' = mbatch \ {"server"}
  /\ UNCHANGED <<mpc, mexit, list, medge, free, worker, wedge, client, down, up, pend,
                 conn, queue, inputs>>

\* client_accept takes one connection from the queue ...
Accept(c) ==
  /\ mpc = "batch" /\ "server" \in mbatch
  /\ queue # <<>> /\ c = Head(queue)
  /\ queue' = Tail(queue)
  /\ mbatch' = mbatch \ {"server"}

\* Seeded bugs: any worker may be chosen; a busy worker stays marked free.
FreeWorkers_All == list
Busy_Forgotten(w) == free

FreeWorkers == {w \in list : free[w]}
Busy(w) == [free EXCEPT ![w] = FALSE]

\* ... and closes it when no worker is free, or when it cannot be passed on,
AcceptRefuse(c) ==
  /\ Accept(c)
  /\ FreeWorkers = {} \/ IoMayFail
  /\ CloseAll({c})
  /\ UNCHANGED <<mpc, mexit, list, medge, free, worker, wedge, client, down, up, pend>>

\* or passes it to some free worker.
AcceptPass(c, w) ==
  /\ Accept(c)
  /\ w \in FreeWorkers
  /\ wpc[w] # "gone"
  /\ free' = Busy(w)
  /\ down' = [down EXCEPT ![w] = Append(@, c)]
  /\ wedge' = [wedge EXCEPT ![w] = @ \cup {"pass"}]
  /\ conn' = [conn EXCEPT ![c] = "open"]
  /\ UNCHANGED <<mpc, mexit, list, medge, worker, client, up, pend, inputs>>

\* The connections that end when the master does.  It never closes the ones it
\* has passed on, so those that no worker has go with those in the queue.
Orphaned ==
  {c \in Clients : /\ conn[c] # "new"
                   /\ \A w \in Workers : client[w] # c /\ \A i \in DOMAIN down[w] : down[w][i] # c}

\* sendmsg to a worker that has gone raises SIGPIPE, which ends the master.
AcceptPipe(c, w) ==
  /\ Accept(c)
  /\ w \in FreeWorkers
  /\ wpc[w] = "gone"
  /\ mpc' = "killed"
  /\ CloseAll(Orphaned)
  /\ UNCHANGED <<mexit, list, medge, free, worker, wedge, client, down, up, pend>>

\* Seeded bug: the read is taken to have read something.
Notified_Always(w) == [up EXCEPT ![w] = @ - 1]

\* The event of a worker's socket: one notification is read; if the worker has
\* gone the read returns nothing.  Either way the worker is marked free.
Notified(w) == [up EXCEPT ![w] = IF @ > 0 THEN @ - 1 ELSE 0]

MasterNotified(w) ==
  /\ mpc = "batch" /\ w \in mbatch
  /\ up[w] > 0 \/ wpc[w] = "gone"
  /\ up' = Notified(w)
  /\ free' = [free EXCEPT ![w] = TRUE]
  /\ mbatch' = mbatch \ {w}
  /\ UNCHANGED <<mpc, mexit, list, medge, worker, wedge, client, down, pend, conn, queue, inputs>>

\* The batch is done; the master cleans old entries (see KvStore), then waits
\* for the next one or, if it was told to, leaves the loop.
MasterTurn ==
  /\ mpc = "batch" /\ mbatch = {}
  /\ mpc' = IF mexit THEN "reap" ELSE "wait"
  /\ UNCHANGED <<mbatch, mexit, list, medge, free, worker, wedge, client, down, up, pend,
                 conn, queue, inputs>>

\* wait_for_workers: waitpid returns for a worker that has gone.
MasterReap(w) ==
  /\ mpc = "reap"
  /\ w \in list /\ wpc[w] = "gone"
  /\ list' = list \ {w}
  /\ UNCHANGED <<mpc, mbatch, mexit, medge, free, worker, wedge, client, down, up, pend,
                 conn, queue, inputs>>

\* Seeded bug: the master does not wait for its workers.
Reaped_Ignored == TRUE

Reaped == list = {}

MasterExit ==
  /\ mpc = "reap" /\ Reaped
  /\ mpc' = "done"
  /\ CloseAll(Orphaned)
  /\ UNCHANGED <<mbatch, mexit, list, medge, free, worker, wedge, client, down, up, pend,
                 queue>>

-----------------------------------------------------------------------------
(* A worker.                                                                *)

\* What epoll_wait finds readable in worker w.
WorkerReadable(w) ==
  (IF pend[w] # {} THEN {"signal"} ELSE {})
  \cup (IF down[w] # <<>> THEN {"pass"} ELSE {})
  \cup {e \in {"client"} : \E c \in Clients :
          client[w] = c /\ (unread[c] # "none" \/ fin[c])}

WorkerPoll(w) ==
  /\ wpc[w] = "wait"
  /\ wedge[w] \cap WorkerReadable(w) # {}
  /\ wbatch' = [wbatch EXCEPT ![w] = wedge[w] \cap WorkerReadable(w)]
  /\ wedge' = [wedge EXCEPT ![w] = {}]
  /\ wpc' = [wpc EXCEPT ![w] = "batch"]
  /\ UNCHANGED <<master, medge, free, wexit, client, down, up, pend, conn, queue, inputs>>

\* An event of the batch of w is being handled.
Handle(w, e) ==
  /\ wpc[w] = "batch" /\ e \in wbatch[w]
  /\ wbatch' = [wbatch EXCEPT ![w] = @ \ {e}]
  /\ UNCHANGED wpc

WorkerSignal(w) ==
  /\ Handle(w, "signal")
  /\ LET s == First(pend[w]) IN
       /\ pend' = [pend EXCEPT ![w] = @ \ {s}]
       /\ wexit' = [wexit EXCEPT ![w] = @ \/ s = "int"]
  /\ UNCHANGED <<master, medge, free, wedge, client, down, up, conn, queue, inputs>>

\* A connection is received and watched; what it already holds is an event.
WorkerReceive(w, c) ==
  /\ Handle(w, "pass")
  /\ down[w] # <<>> /\ c = Head(down[w])
  /\ down' = [down EXCEPT ![w] = Tail(@)]
  /\ client' = [client EXCEPT ![w] = c]
  /\ wedge' = [wedge EXCEPT ![w] =
                IF unread[c] # "none" \/ fin[c] THEN @ \cup {"client"} ELSE @ \ {"client"}]
  /\ UNCHANGED <<master, medge, free, wexit, up, pend, conn, queue, inputs>>

\* The connection cannot be watched: it is closed, and the master is not told.
WorkerReceiveFails(w, c) ==
  /\ IoMayFail
  /\ Handle(w, "pass")
  /\ down[w] # <<>> /\ c = Head(down[w])
  /\ down' = [down EXCEPT ![w] = Tail(@)]
  /\ client' = [client EXCEPT ![w] = None]
  /\ CloseAll({c})
  /\ UNCHANGED <<master, medge, free, wedge, wexit, up, pend, queue>>

\* read_client_data runs the command and answers.
WorkerCommand(w, c) ==
  /\ client[w] = c
  /\ unread[c] = "cmd"
  /\ Handle(w, "client")
  /\ unread' = [unread EXCEPT ![c] = "none"]
  /\ UNCHANGED <<master, medge, free, wedge, wexit, client, down, up, pend, conn, queue, fin>>

\* Seeded bugs: the master is not told; it is told twice.
Notify_Not(w) == up
Notify_Twice(w) == [up EXCEPT ![w] = @ + 2]

\* notify_free
Notify(w) == [up EXCEPT ![w] = @ + 1]

\* It reads an unknown command or the end of the stream: the worker lets go of
\* the client and notifies the master.
WorkerRelease(w, c) ==
  /\ client[w] = c
  /\ unread[c] = "bad" \/ (unread[c] = "none" /\ fin[c])
  /\ Handle(w, "client")
  /\ client' = [client EXCEPT ![w] = None]
  /\ CloseAll({c})
  /\ up' = Notify(w)
  /\ wedge' = [wedge EXCEPT ![w] = @ \ {"client"}]
  /\ medge' = IF mpc \in Ended THEN medge ELSE medge \cup {w}
  /\ UNCHANGED <<master, free, wexit, down, pend, queue>>

\* Seeded bug: the worker goes on after SIGINT.
Leaves_Never(w) == FALSE

Leaves(w) == wexit[w]

WorkerTurn(w) ==
  /\ wpc[w] = "batch" /\ wbatch[w] = {}
  /\ ~Leaves(w)
  /\ wpc' = [wpc EXCEPT ![w] = "wait"]
  /\ UNCHANGED <<master, medge, free, wbatch, wexit, wedge, client, down, up, pend,
                 conn, queue, inputs>>

\* The worker lets go of its client, closes its end of the socket pair (a
\* connection still in it is dropped) and exits; the master's end hangs up.
WorkerExit(w) ==
  /\ wpc[w] = "batch" /\ wbatch[w] = {}
  /\ Leaves(w)
  /\ wpc' = [wpc EXCEPT ![w] = "gone"]
  /\ CloseAll({client[w]})
  /\ client' = [client EXCEPT ![w] = None]
  /\ down' = [down EXCEPT ![w] = <<>>]
  /\ wedge' = [wedge EXCEPT ![w] = {}]
  /\ medge' = IF mpc \in Ended THEN medge ELSE medge \cup {w}
  /\ UNCHANGED <<master, free, wbatch, wexit, up, pend, queue>>

-----------------------------------------------------------------------------
MasterStep ==
  \/ MasterPoll \/ AcceptFails \/ MasterSignal \/ MasterTurn \/ MasterExit
  \/ \E c \in Clients : AcceptRefuse(c) \/ \E w \in Workers : AcceptPass(c, w) \/ AcceptPipe(c, w)
  \/ \E w \in Workers : MasterNotified(w) \/ MasterReap(w)

WorkerStep(w) ==
  \/ WorkerPoll(w) \/ WorkerSignal(w) \/ WorkerTurn(w) \/ WorkerExit(w)
  \/ \E c \in Clients :
       \/ WorkerReceive(w, c) \/ WorkerReceiveFails(w, c)
       \/ WorkerCommand(w, c) \/ WorkerRelease(w, c)

Environment ==
  \/ \E c \in Clients : Connect(c) \/ Send(c) \/ Close(c)
  \/ \E group \in SignalGroups, s \in Signals : Kill(group, s)

Next == MasterStep \/ (\E w \in Workers : WorkerStep(w)) \/ Environment

Spec == Init /\ [][Next]_vars

\* A process with something to do does it; nothing is assumed of the clients.
FairSpec == Spec /\ WF_vars(MasterStep) /\ \A w \in Workers : WF_vars(WorkerStep(w))

-----------------------------------------------------------------------------
(* Properties.                                                              *)

TypeOK ==
  /\ mpc \in {"wait", "batch", "reap"} \cup Ended
  /\ mbatch \subseteq Workers \cup {"server", "signal"}
  /\ medge \subseteq Workers \cup {"server", "signal"}
  /\ mexit \in BOOLEAN
  /\ free \in [Workers -> BOOLEAN]
  /\ list \subseteq Workers
  /\ wpc \in [Workers -> {"wait", "batch", "gone"}]
  /\ wbatch \in [Workers -> SUBSET {"signal", "pass", "client"}]
  /\ wedge \in [Workers -> SUBSET {"signal", "pass", "client"}]
  /\ wexit \in [Workers -> BOOLEAN]
  /\ client \in [Workers -> Clients \cup {None}]
  /\ down \in [Workers -> Seq(Clients)]
  /\ up \in [Workers -> Nat]
  /\ pend \in [Procs -> SUBSET {"int", "quit"}]
  /\ conn \in [Clients -> {"new", "queued", "open", "closed"}]
  /\ queue \in Seq(Clients)
  /\ unread \in [Clients -> {"none", "cmd", "bad"}]
  /\ fin \in [Clients -> BOOLEAN]

Alive(w) == wpc[w] # "gone"

\* Worker w has nothing: no client, none on its way, no notification under way.
Idle(w) == client[w] = None /\ down[w] = <<>> /\ up[w] = 0

\* The master's note that a worker is free is true, although the worker changes
\* its state alone and tells the master later (WorkerInfo::free).
FreeMeansIdle == \A w \in Workers : Alive(w) /\ free[w] => Idle(w)

\* And a worker that is noted as busy has a reason to be: no place in the pool
\* is lost while clients come and go (as long as no system call fails).
BusyHasReason == \A w \in Workers : Alive(w) /\ ~free[w] => ~Idle(w)

\* Every event the loops are about to handle finds its data: no read, recvmsg,
\* recv or accept on these blocking descriptors hangs the process.
ReadsDoNotBlock ==
  /\ mpc = "batch" => mbatch \subseteq MasterReadable
  /\ \A w \in Workers : wpc[w] = "batch" => wbatch[w] \subseteq WorkerReadable(w)

\* Passed connections, notifications and SIGINT (read before a pending SIGQUIT) are
\* not forgotten by the edge-triggered epoll, although each event makes the loops
\* read only once.  (The listening socket and the clients' streams are.)
NoLostWakeup ==
  /\ \A w \in Workers : Alive(w) =>
       /\ down[w] # <<>> => "pass" \in wedge[w] \cup wbatch[w]
       /\ "int" \in pend[w] => "signal" \in wedge[w] \cup wbatch[w]
  /\ mpc \in {"wait", "batch"} =>
       /\ \A w \in Workers : up[w] > 0 => w \in medge \cup mbatch
       /\ "int" \in pend[Master] => "signal" \in medge \cup mbatch

\* The master ends its run only when every worker has (wait_for_workers), so
\* no worker uses the storage after destroy_storage_main.
NoOrphans == mpc = "done" => \A w \in Workers : ~Alive(w)

\* Events, data and processes agree, whatever fails and whoever leaves when.
PoolSound == TypeOK /\ ReadsDoNotBlock /\ NoLostWakeup /\ NoOrphans

\* The end of a client's stream, when it is an event of its own, gives the
\* worker back to the pool.
PlaceReturns ==
  \A w \in Workers, c \in Clients :
    (client[w] = c /\ fin[c] /\ unread[c] = "none" /\ "client" \in wedge[w])
      ~> (free[w] \/ ~Alive(w) \/ mpc \notin {"wait", "batch"})

\* After Ctrl-C, which goes to every process, all of them end.
Interrupted == \A p \in Procs : "int" \in pend[p]
AllEnd == Interrupted ~> (mpc \in Ended /\ \A w \in Workers : ~Alive(w))

-----------------------------------------------------------------------------
(* The pool implements SlotPool: a worker is responsible for the connection   *)
(* it serves or that is on its way to it.                                    *)

Owner(w) == IF down[w] # <<>> THEN Head(down[w]) ELSE client[w]
Spent == {c \in Clients : conn[c] \in {"open", "closed"}}

Pool == INSTANCE SlotPool WITH
  owner <- [w \in Workers |-> Owner(w)],
  spent <- Spent

\* One client per worker, one worker per client.
OneToOne == Pool!Spec
=============================================================================
