------------------------------ MODULE SysvServer ------------------------------
(***************************************************************************)
(* The processes of the System V key-value server (src/p5): the master forks *)
(* a worker for every connection it accepts, keeps a list of its children     *)
(* and reaps those that have ended; when it is interrupted it waits for all    *)
(* of them before it removes the storage (see SysvStore).                     *)
(*                                                                            *)
(* Every process is a loop over edge-triggered epoll_wait: "edge" is what has *)
(* happened since it was last reported, "batch" what is left to be handled of  *)
(* the last report.  Descriptors block, so a handler must find what its event  *)
(* says.  A worker is named by its connection.                                *)
(***************************************************************************)
EXTENDS Integers, Sequences, FiniteSets

CONSTANTS
  Clients,   \* the connections, each opened at most once
  Master,    \* the master process
  Backlog,   \* CLIENTS_MAX, the length of the listen queue
  Signals,   \* the signals sent, of "int" (SIGINT) and "quit" (SIGQUIT)
  MayFail    \* whether accept, fork and the set-up of a worker may fail

ASSUME ServerAssumption ==
  /\ Master \notin Clients
  /\ Backlog \in Nat \ {0}
  /\ Signals \subseteq {"int", "quit"}
  /\ MayFail \in BOOLEAN

VARIABLES
  \* the master
  mpc,       \* "wait", "batch", "sweep" (waitpid WNOHANG), "reap" or "done"
  mbatch,    \* events still to be handled: "server", "signal"
  medge,     \* descriptors with a new event
  mexit,     \* needs_exit
  children,  \* children_pids, without those that are -1
  unborn,    \* how many entries of children_pids are -1
  \* the workers
  proc,      \* [connection -> "none", "wait", "batch", "zombie" or "reaped"]
  wbatch,    \* [connection -> events to be handled: "signal", "client"]
  wedge,     \* [connection -> descriptors with a new event]
  wexit,     \* [connection -> needs_exit]
  pend,      \* [process -> its pending signals]
  \* the connections
  conn,      \* [connection -> "new", "queued", "open" or "closed"]
  queue,     \* connections to be accepted
  unread,    \* [connection -> a command is there to be read]
  fin,       \* [connection -> behind it, the end of the stream or no command]
  \* history
  missed     \* an accept has failed

loop   == <<mpc, mbatch, mexit>>
list   == <<children, unborn>>
worker == <<proc, wbatch, wexit>>
input  == <<unread, fin>>
vars   == <<loop, medge, list, worker, wedge, pend, conn, queue, input, missed>>

Procs == Clients \cup {Master}

Init ==
  /\ mpc = "wait" /\ mbatch = {} /\ medge = {} /\ mexit = FALSE
  /\ children = {} /\ unborn = 0
  /\ proc = [c \in Clients |-> "none"]
  /\ wbatch = [c \in Clients |-> {}]
  /\ wedge = [c \in Clients |-> {}]
  /\ wexit = [c \in Clients |-> FALSE]
  /\ pend = [p \in Procs |-> {}]
  /\ conn = [c \in Clients |-> "new"]
  /\ queue = <<>>
  /\ unread = [c \in Clients |-> FALSE]
  /\ fin = [c \in Clients |-> FALSE]
  /\ missed = FALSE

Living == {c \in Clients : proc[c] \in {"wait", "batch"}}
Zombies == {c \in Clients : proc[c] = "zombie"}

-----------------------------------------------------------------------------
(* The clients and the keyboard.                                            *)

Connect(c) ==
  /\ conn[c] = "new"
  /\ mpc # "done"
  /\ Len(queue) < Backlog
  /\ conn' = [conn EXCEPT ![c] = "queued"]
  /\ queue' = Append(queue, c)
  /\ medge' = medge \cup {"server"}
  /\ UNCHANGED <<loop, list, worker, wedge, pend, input, missed>>

Usable(c) == conn[c] \in {"queued", "open"} /\ ~fin[c]

\* Something arrives: an edge for the worker, if it is there.
Arrive(c) ==
  wedge' = [wedge EXCEPT ![c] = IF c \in Living THEN @ \cup {"client"} ELSE @]

\* recv takes all there is and only its first command is looked at, so what
\* comes behind an unread command changes nothing.
Send(c) ==
  /\ Usable(c)
  /\ unread' = [unread EXCEPT ![c] = TRUE]
  /\ Arrive(c)
  /\ UNCHANGED <<loop, medge, list, worker, pend, conn, queue, fin, missed>>

\* The client closes, or sends what is no command: read_client_data returns false
\* for both.
Close(c) ==
  /\ Usable(c)
  /\ fin' = [fin EXCEPT ![c] = TRUE]
  /\ Arrive(c)
  /\ UNCHANGED <<loop, medge, list, worker, pend, conn, queue, unread, missed>>

\* The terminal sends a signal to all the processes there are; a worker that is
\* forked later does not get it, since pending signals are not inherited.
Signal(s) ==
  LET hit == Living \cup {p \in {Master} : mpc # "done"} IN
  /\ \E p \in hit : s \notin pend[p]
  /\ pend' = [p \in Procs |-> IF p \in hit THEN pend[p] \cup {s} ELSE pend[p]]
  /\ medge' = IF mpc # "done" THEN medge \cup {"signal"} ELSE medge
  /\ wedge' = [c \in Clients |-> IF c \in hit THEN wedge[c] \cup {"signal"} ELSE wedge[c]]
  /\ UNCHANGED <<loop, list, worker, conn, queue, input, missed>>

-----------------------------------------------------------------------------
(* The master.                                                              *)

MasterReadable ==
  {e \in {"server"} : queue # <<>>} \cup {e \in {"signal"} : pend[Master] # {}}

\* epoll_wait reports what has an edge and is readable, or its time is over.
MasterPoll ==
  /\ mpc = "wait"
  /\ mpc' = "batch"
  /\ mbatch' = medge \cap MasterReadable
  /\ medge' = {}
  /\ UNCHANGED <<mexit, list, worker, wedge, pend, conn, queue, input, missed>>

\* The pending signal with the lowest number: SIGINT before SIGQUIT.
First(sigs) == IF "int" \in sigs THEN "int" ELSE "quit"

\* Seeded bug: the rest of the batch is dropped with the signal.
AfterSignal_Nothing == {}

AfterSignal == mbatch \ {"signal"}

MasterSignal ==
  /\ mpc = "batch" /\ "signal" \in mbatch
  /\ LET s == First(pend[Master]) IN
       /\ pend' = [pend EXCEPT ![Master] = @ \ {s}]
       /\ mexit' = (mexit \/ s = "int")
  /\ mbatch' = AfterSignal
  /\ UNCHANGED <<mpc, medge, list, worker, wedge, conn, queue, input, missed>>

\* client_accept: one connection is taken from the queue ...
Accept(c) ==
  /\ mpc = "batch" /\ "server" \in mbatch
  /\ queue # <<>> /\ c = Head(queue)
  /\ queue' = Tail(queue)
  /\ mbatch' = mbatch \ {"server"}
  /\ UNCHANGED <<mpc, mexit, medge, pend, missed>>

\* Seeded bug: the child is not put on the list.
Listed_Not(c) == children

Listed(c) == children \cup {c}

\* ... and a worker is forked for it, which watches it, with what has arrived.
AcceptFork(c) ==
  /\ Accept(c)
  /\ conn' = [conn EXCEPT ![c] = "open"]
  /\ proc' = [proc EXCEPT ![c] = "wait"]
  /\ wedge' = [wedge EXCEPT ![c] = {"client"}]
  /\ children' = Listed(c)
  /\ UNCHANGED <<unborn, wbatch, wexit, input>>

\* The set-up of the worker fails: it closes the connection and exits.
AcceptStillborn(c) ==
  /\ MayFail
  /\ Accept(c)
  /\ conn' = [conn EXCEPT ![c] = "closed"]
  /\ unread' = [unread EXCEPT ![c] = FALSE]
  /\ fin' = [fin EXCEPT ![c] = FALSE]
  /\ proc' = [proc EXCEPT ![c] = "zombie"]
  /\ children' = Listed(c)
  /\ UNCHANGED <<unborn, wbatch, wexit, wedge>>

\* fork fails: -1 goes on the list, the connection stays open and unread.
AcceptNoFork(c) ==
  /\ MayFail
  /\ Accept(c)
  /\ conn' = [conn EXCEPT ![c] = "open"]
  /\ unborn' = unborn + 1
  /\ UNCHANGED <<children, worker, wedge, input>>

\* accept fails and leaves the connection where it is.
AcceptFails ==
  /\ MayFail
  /\ mpc = "batch" /\ "server" \in mbatch
  /\ mbatch' = mbatch \ {"server"}
  /\ missed' = TRUE
  /\ UNCHANGED <<mpc, mexit, medge, list, worker, wedge, pend, conn, queue, input>>

\* Seeded bug: children are waited for at the end only.
AfterBatch_NoSweep == IF mexit THEN "reap" ELSE "wait"

AfterBatch == "sweep"

MasterTurn ==
  /\ mpc = "batch" /\ mbatch = {}
  /\ mpc' = AfterBatch
  /\ UNCHANGED <<mbatch, mexit, medge, list, worker, wedge, pend, conn, queue, input, missed>>

\* waitpid has returned the child c, which is looked for and erased.
Erased(c) == children \ {c}

\* waitpid returns a child that has ended, while it sweeps or, at the end, blocks.
Reap(c) ==
  /\ mpc = "sweep" \/ (mpc = "reap" /\ children # {})
  /\ c \in Zombies
  /\ proc' = [proc EXCEPT ![c] = "reaped"]
  /\ children' = Erased(c)
  /\ UNCHANGED <<loop, medge, unborn, wbatch, wexit, wedge, pend, conn, queue, input, missed>>

\* No child has ended (any more): the next turn, or out of the loop.
SweepEnd ==
  /\ mpc = "sweep" /\ Zombies = {}
  /\ mpc' = IF mexit THEN "reap" ELSE "wait"
  /\ UNCHANGED <<mbatch, mexit, medge, list, worker, wedge, pend, conn, queue, input, missed>>

\* Seeded bug: something is taken off the list whether it is found or not.
FailedFork_Assumed == TRUE

FailedFork == unborn > 0

\* At the end waitpid returns -1 when there is no child, which takes the
\* entries of failed forks off the list.
ReapUnborn ==
  /\ mpc = "reap" /\ FailedFork
  /\ Living \cup Zombies = {}
  /\ unborn' = unborn - 1
  /\ UNCHANGED <<loop, medge, children, worker, wedge, pend, conn, queue, input, missed>>

\* Seeded bug: the master does not wait for its children.
AllReaped_Ignored == TRUE

AllReaped == children = {} /\ unborn = 0

\* The list is empty: the master drops the queue, removes the storage and ends.
MasterExit ==
  /\ mpc = "reap" /\ AllReaped
  /\ mpc' = "done"
  /\ conn' = [c \in Clients |-> IF conn[c] = "new" THEN "new" ELSE "closed"]
  /\ queue' = <<>>
  /\ unread' = [c \in Clients |-> FALSE]
  /\ fin' = [c \in Clients |-> FALSE]
  /\ UNCHANGED <<mbatch, mexit, medge, list, worker, wedge, pend, missed>>

-----------------------------------------------------------------------------
(* A worker.                                                                *)

WorkerReadable(c) ==
  {e \in {"signal"} : pend[c] # {}}
  \cup {e \in {"client"} : unread[c] \/ fin[c]}

\* A report of epoll_wait; when its time is over nothing has changed.
WorkerPoll(c) ==
  /\ proc[c] = "wait"
  /\ wedge[c] \cap WorkerReadable(c) # {}
  /\ proc' = [proc EXCEPT ![c] = "batch"]
  /\ wbatch' = [wbatch EXCEPT ![c] = wedge[c] \cap WorkerReadable(c)]
  /\ wedge' = [wedge EXCEPT ![c] = {}]
  /\ UNCHANGED <<loop, medge, list, wexit, pend, conn, queue, input, missed>>

\* Seeded bug: the loop over the events does not move on.
Left_Same(c, e) == wbatch[c]

Left(c, e) == wbatch[c] \ {e}

Handle(c, e) ==
  /\ proc[c] = "batch" /\ e \in wbatch[c]
  /\ wbatch' = [wbatch EXCEPT ![c] = Left(c, e)]
  /\ UNCHANGED <<loop, medge, list, proc, wedge, conn, queue, fin, missed>>

\* Seeded bug: the signal is read and forgotten.
Told_Not(c, s) == wexit[c]

Told(c, s) == wexit[c] \/ s = "int"

WorkerSignal(c) ==
  /\ Handle(c, "signal")
  /\ LET s == First(pend[c]) IN
       /\ pend' = [pend EXCEPT ![c] = @ \ {s}]
       /\ wexit' = [wexit EXCEPT ![c] = Told(c, s)]
  /\ UNCHANGED unread

\* read_client_data: a command is run and answered, and needs_exit becomes FALSE,
\* whatever it was.
WorkerCommand(c) ==
  /\ Handle(c, "client")
  /\ unread[c]
  /\ unread' = [unread EXCEPT ![c] = FALSE]
  /\ wexit' = [wexit EXCEPT ![c] = FALSE]
  /\ UNCHANGED pend

\* Not a command, or the end of the stream.
WorkerEnd(c) ==
  /\ Handle(c, "client")
  /\ ~unread[c] /\ fin[c]
  /\ wexit' = [wexit EXCEPT ![c] = TRUE]
  /\ UNCHANGED <<pend, unread>>

WorkerTurn(c) ==
  /\ proc[c] = "batch" /\ wbatch[c] = {} /\ ~wexit[c]
  /\ proc' = [proc EXCEPT ![c] = "wait"]
  /\ UNCHANGED <<loop, medge, list, wbatch, wexit, wedge, pend, conn, queue, input, missed>>

\* It shuts the connection down and exits, with all that was pending for it.
WorkerExit(c) ==
  /\ proc[c] = "batch" /\ wbatch[c] = {} /\ wexit[c]
  /\ proc' = [proc EXCEPT ![c] = "zombie"]
  /\ conn' = [conn EXCEPT ![c] = "closed"]
  /\ unread' = [unread EXCEPT ![c] = FALSE]
  /\ fin' = [fin EXCEPT ![c] = FALSE]
  /\ wedge' = [wedge EXCEPT ![c] = {}]
  /\ pend' = [pend EXCEPT ![c] = {}]
  /\ UNCHANGED <<loop, medge, list, wbatch, wexit, queue, missed>>

-----------------------------------------------------------------------------
MasterStep ==
  \/ MasterPoll \/ MasterSignal \/ AcceptFails \/ MasterTurn
  \/ \E c \in Clients :
       AcceptFork(c) \/ AcceptStillborn(c) \/ AcceptNoFork(c) \/ Reap(c)
  \/ SweepEnd \/ ReapUnborn \/ MasterExit

WorkerStep(c) ==
  \/ WorkerPoll(c) \/ WorkerSignal(c) \/ WorkerCommand(c) \/ WorkerEnd(c)
  \/ WorkerTurn(c) \/ WorkerExit(c)

Environment ==
  \/ \E c \in Clients : Connect(c) \/ Send(c) \/ Close(c)
  \/ \E s \in Signals : Signal(s)

Next == MasterStep \/ (\E c \in Clients : WorkerStep(c)) \/ Environment

Spec == Init /\ [][Next]_vars

\* A process with something to do does it, and the master's epoll_wait has a
\* timeout; nothing is assumed of the clients.
FairSpec == Spec /\ WF_vars(MasterStep) /\ \A c \in Clients : WF_vars(WorkerStep(c))

-----------------------------------------------------------------------------
(* Properties.                                                              *)

TypeOK ==
  /\ mpc \in {"wait", "batch", "sweep", "reap", "done"}
  /\ mbatch \subseteq {"server", "signal"} /\ medge \subseteq {"server", "signal"}
  /\ mexit \in BOOLEAN
  /\ children \subseteq Clients /\ unborn \in Nat
  /\ proc \in [Clients -> {"none", "wait", "batch", "zombie", "reaped"}]
  /\ wbatch \in [Clients -> SUBSET {"signal", "client"}]
  /\ wedge \in [Clients -> SUBSET {"signal", "client"}]
  /\ wexit \in [Clients -> BOOLEAN]
  /\ pend \in [Procs -> SUBSET {"int", "quit"}]
  /\ conn \in [Clients -> {"new", "queued", "open", "closed"}]
  /\ queue \in Seq(Clients)
  /\ unread \in [Clients -> BOOLEAN]
  /\ fin \in [Clients -> BOOLEAN]
  /\ missed \in BOOLEAN

\* children_pids lists exactly the children that have not been waited for, so
\* that the loop at the end neither waits for too few nor for ever.
ChildrenListed == children = Living \cup Zombies

\* The storage is removed only when no worker is left that could use it.
NoOrphans == mpc = "done" => Living = {}

\* Every event about to be handled finds its data: no read, accept or recv on
\* these blocking descriptors hangs its process.
ReadsDoNotBlock ==
  /\ mpc = "batch" => mbatch \subseteq MasterReadable
  /\ \A c \in Living : wbatch[c] \subseteq WorkerReadable(c)

\* The list, the children and the events agree.
ServerSound == TypeOK /\ ChildrenListed /\ NoOrphans /\ ReadsDoNotBlock

\* A child that has ended is waited for, although nothing wakes the master then
\* but the timeout of its epoll_wait.
ZombiesReaped == \A c \in Clients : proc[c] = "zombie" ~> proc[c] = "reaped"

\* The first connection in the queue is accepted when there is an edge for it and
\* accept does not fail.  (Not without an edge: accept is called once per event,
\* and the second of two connections behind one event waits for a third.)
EdgeAccepts ==
  \A c \in Clients :
    (conn[c] = "queued" /\ Head(queue) = c /\ "server" \in medge /\ mpc = "wait")
      ~> (conn[c] # "queued" \/ missed)

\* After Ctrl-C in silence - nothing queued, nothing unread, then or later -
\* every process ends, the master last.  (A command in the batch of the signal
\* makes the worker forget it, and a worker forked later does not hear of it.)
Interrupted == \A p \in Living \cup {Master} : "int" \in pend[p]
Silent == \A c \in Clients : ~unread[c] /\ ~fin[c] /\ conn[c] # "queued"
QuietEnd == [](Interrupted /\ mpc = "wait" => ([]Silent => <>(mpc = "done")))
=============================================================================
