-------------------------- MODULE WorkerPoolProofs --------------------------
(***************************************************************************)
(* Proofs about WorkerPool, for any number of workers and connections, any   *)
(* signals, and whichever system calls fail: the master's note that a worker *)
(* is free is always true, and the pool implements SlotPool.                  *)
(*                                                                          *)
(* The argument is that of a token: of "the master notes w as free", "a       *)
(* connection is on its way to w", "w has a client" and "a notification of w  *)
(* is under way", at most one is true at a time (Token).                      *)
(*                                                                          *)
(* That events and data agree (EventsSound) rests on it: a descriptor is read  *)
(* once for an event, and that is enough because a worker never has two        *)
(* connections or two notifications on their way.                             *)
(***************************************************************************)
EXTENDS WorkerPool, SequenceTheorems, TLAPS

Token ==
  \A w \in Workers :
    /\ client[w] # None => down[w] = <<>> /\ up[w] = 0
    /\ down[w] # <<>> => Len(down[w]) = 1 /\ up[w] = 0
    /\ up[w] <= 1
    /\ Alive(w) /\ free[w] => Idle(w)
    /\ ~Alive(w) => client[w] = None /\ down[w] = <<>>

\* The queue holds connections nobody has taken, each once; what a worker has
\* was taken from it.
QueueOK ==
  /\ mpc \notin Ended => \A i \in DOMAIN queue : conn[queue[i]] = "queued"
  /\ \A i, j \in DOMAIN queue : queue[i] = queue[j] => i = j
  /\ \A w \in Workers :
       /\ client[w] # None => conn[client[w]] \in {"open", "closed"}
       /\ \A i \in DOMAIN down[w] : conn[down[w][i]] \in {"open", "closed"}

PInv == TypeOK /\ Token /\ QueueOK

-----------------------------------------------------------------------------
(* Types.                                                                   *)

LEMMA CloseAllTypes ==
  ASSUME TypeOK, NEW C, CloseAll(C)
  PROVE  /\ conn' \in [Clients -> {"new", "queued", "open", "closed"}]
         /\ unread' \in [Clients -> {"none", "cmd", "bad"}]
         /\ fin' \in [Clients -> BOOLEAN]
BY DEF CloseAll, TypeOK

\* The master's steps keep the types.
LEMMA MasterTypes ==
  ASSUME PoolAssumption, TypeOK, MasterStep
  PROVE  TypeOK'
<1> USE DEF PoolAssumption, master, worker, inputs
<1>1. CASE MasterPoll \/ MasterTurn \/ AcceptFails
  BY <1>1 DEF MasterPoll, MasterReadable, MasterTurn, AcceptFails, TypeOK
<1>2. CASE MasterSignal
  BY <1>2 DEF MasterSignal, TypeOK, Procs
<1>3. CASE MasterExit
  BY <1>3, CloseAllTypes DEF MasterExit, TypeOK, Ended
<1>4. ASSUME NEW c \in Clients, AcceptRefuse(c)
      PROVE  TypeOK'
  BY <1>4, CloseAllTypes DEF AcceptRefuse, Accept, TypeOK
<1>5. ASSUME NEW c \in Clients, NEW w \in Workers, AcceptPass(c, w)
      PROVE  TypeOK'
  BY <1>5 DEF AcceptPass, Accept, Busy, TypeOK
<1>6. ASSUME NEW c \in Clients, NEW w \in Workers, AcceptPipe(c, w)
      PROVE  TypeOK'
  BY <1>6, CloseAllTypes DEF AcceptPipe, Accept, TypeOK, Ended
<1>7. ASSUME NEW w \in Workers, MasterNotified(w)
      PROVE  TypeOK'
  <2>1. up' \in [Workers -> Nat] /\ free' \in [Workers -> BOOLEAN]
    BY <1>7 DEF MasterNotified, Notified, TypeOK
  <2> QED
    BY <1>7, <2>1 DEF MasterNotified, TypeOK
<1>8. ASSUME NEW w \in Workers, MasterReap(w)
      PROVE  TypeOK'
  BY <1>8 DEF MasterReap, TypeOK
<1> QED
  BY <1>1, <1>2, <1>3, <1>4, <1>5, <1>6, <1>7, <1>8 DEF MasterStep

\* So do those of the workers ...
LEMMA WorkerTypes ==
  ASSUME PoolAssumption, TypeOK, NEW w \in Workers, WorkerStep(w)
  PROVE  TypeOK'
<1> USE DEF PoolAssumption, master, worker, inputs, Handle
<1>1. CASE WorkerPoll(w)
  <2>1. WorkerReadable(w) \subseteq {"signal", "pass", "client"}
    BY DEF WorkerReadable
  <2> QED
    BY <1>1, <2>1 DEF WorkerPoll, TypeOK
<1>2. CASE WorkerSignal(w)
  <2>1. wexit' \in [Workers -> BOOLEAN]
    BY <1>2 DEF WorkerSignal, TypeOK
  <2> QED
    BY <1>2, <2>1 DEF WorkerSignal, TypeOK, Procs
<1>3. CASE WorkerTurn(w)
  BY <1>3 DEF WorkerTurn, TypeOK
<1>4. CASE WorkerExit(w)
  <2>1. down' \in [Workers -> Seq(Clients)]
    BY <1>4 DEF WorkerExit, TypeOK
  <2> QED
    BY <1>4, <2>1, CloseAllTypes DEF WorkerExit, TypeOK
<1>5. ASSUME NEW c \in Clients, WorkerReceive(w, c)
      PROVE  TypeOK'
  <2>1. down' \in [Workers -> Seq(Clients)]
    BY <1>5 DEF WorkerReceive, TypeOK
  <2>2. wedge' \in [Workers -> SUBSET {"signal", "pass", "client"}]
    BY <1>5 DEF WorkerReceive, TypeOK
  <2> QED
    BY <1>5, <2>1, <2>2 DEF WorkerReceive, TypeOK
<1>6. ASSUME NEW c \in Clients, WorkerReceiveFails(w, c)
      PROVE  TypeOK'
  <2>1. down' \in [Workers -> Seq(Clients)]
    BY <1>6 DEF WorkerReceiveFails, TypeOK
  <2> QED
    BY <1>6, <2>1, CloseAllTypes DEF WorkerReceiveFails, TypeOK
<1>7. ASSUME NEW c \in Clients, WorkerCommand(w, c)
      PROVE  TypeOK'
  BY <1>7 DEF WorkerCommand, TypeOK
<1>8. ASSUME NEW c \in Clients, WorkerRelease(w, c)
      PROVE  TypeOK'
  BY <1>8, CloseAllTypes DEF WorkerRelease, Notify, TypeOK
<1> QED
  BY <1>1, <1>2, <1>3, <1>4, <1>5, <1>6, <1>7, <1>8 DEF WorkerStep

\* ... and what happens around them.
LEMMA EnvironmentTypes ==
  ASSUME PoolAssumption, TypeOK, Environment
  PROVE  TypeOK'
<1> USE DEF PoolAssumption, master, worker, inputs
<1>1. ASSUME NEW c \in Clients, Connect(c)
      PROVE  TypeOK'
  BY <1>1 DEF Connect, TypeOK
<1>2. ASSUME NEW c \in Clients, Send(c)
      PROVE  TypeOK'
  BY <1>2 DEF Send, Arrive, TypeOK
<1>3. ASSUME NEW c \in Clients, Close(c)
      PROVE  TypeOK'
  BY <1>3 DEF Close, Arrive, TypeOK
<1>4. ASSUME NEW group \in SignalGroups, NEW s \in Signals, Kill(group, s)
      PROVE  TypeOK'
  <2>1. s \in {"int", "quit"}
    OBVIOUS
  <2>2. pend' \in [Procs -> SUBSET {"int", "quit"}]
    BY <1>4, <2>1 DEF Kill, TypeOK
  <2>3. wedge' \in [Workers -> SUBSET {"signal", "pass", "client"}]
    BY <1>4 DEF Kill, TypeOK
  <2> QED
    BY <1>4, <2>2, <2>3 DEF Kill, TypeOK
<1> QED
  BY <1>1, <1>2, <1>3, <1>4 DEF Environment

LEMMA TypeStep ==
  ASSUME PoolAssumption, TypeOK, [Next]_vars
  PROVE  TypeOK'
<1>1. CASE UNCHANGED vars
  BY <1>1 DEF vars, master, worker, inputs, TypeOK
<1> QED
  BY <1>1, MasterTypes, WorkerTypes, EnvironmentTypes DEF Next

-----------------------------------------------------------------------------
(* The token.                                                               *)

\* The steps of a worker, and which of them move its token.
LEMMA WorkerToken ==
  ASSUME PoolAssumption, TypeOK, Token, NEW w \in Workers, WorkerStep(w)
  PROVE  Token'
<1> USE DEF master, worker, inputs, Handle
<1> SUFFICES ASSUME NEW v \in Workers
             PROVE  /\ client'[v] # None => down'[v] = <<>> /\ up'[v] = 0
                    /\ down'[v] # <<>> => Len(down'[v]) = 1 /\ up'[v] = 0
                    /\ up'[v] <= 1
                    /\ Alive(v)' /\ free'[v] => Idle(v)'
                    /\ ~Alive(v)' => client'[v] = None /\ down'[v] = <<>>
  BY DEF Token
<1>1. CASE \/ WorkerPoll(w) \/ WorkerSignal(w) \/ WorkerTurn(w)
           \/ \E c \in Clients : WorkerCommand(w, c)
  <2>1. UNCHANGED <<client, down, up, free>> /\ (Alive(v)' <=> Alive(v))
    BY <1>1 DEF WorkerPoll, WorkerSignal, WorkerTurn, WorkerCommand, Alive, TypeOK
  <2> QED
    BY <2>1 DEF Token, Idle
<1>2. CASE WorkerExit(w)
  <2>1. /\ ~Alive(w)'
        /\ client' = [client EXCEPT ![w] = None]
        /\ down' = [down EXCEPT ![w] = <<>>]
        /\ v # w => (Alive(v)' <=> Alive(v))
        /\ UNCHANGED <<up, free>>
    BY <1>2 DEF WorkerExit, Alive, TypeOK
  <2> QED
    BY <2>1 DEF Token, Idle, TypeOK
<1>3. ASSUME NEW c \in Clients, WorkerReceive(w, c) \/ WorkerReceiveFails(w, c)
      PROVE  /\ client'[v] # None => down'[v] = <<>> /\ up'[v] = 0
             /\ down'[v] # <<>> => Len(down'[v]) = 1 /\ up'[v] = 0
             /\ up'[v] <= 1
             /\ Alive(v)' /\ free'[v] => Idle(v)'
             /\ ~Alive(v)' => client'[v] = None /\ down'[v] = <<>>
  <2>1. /\ Alive(w) /\ down[w] # <<>> /\ Alive(v)' = Alive(v)
        /\ client' = [client EXCEPT ![w] = c] \/ client' = [client EXCEPT ![w] = None]
        /\ down' = [down EXCEPT ![w] = Tail(@)]
        /\ UNCHANGED <<up, free>>
    BY <1>3 DEF WorkerReceive, WorkerReceiveFails, Alive
  <2>2. Len(down[w]) = 1 /\ up[w] = 0 /\ ~free[w]
    BY <2>1 DEF Token, Idle
  <2>3. down'[w] = <<>>
    BY <2>1, <2>2 DEF TypeOK
  <2> QED
    BY <2>1, <2>2, <2>3 DEF Token, Idle, TypeOK
<1>4. ASSUME NEW c \in Clients, WorkerRelease(w, c)
      PROVE  /\ client'[v] # None => down'[v] = <<>> /\ up'[v] = 0
             /\ down'[v] # <<>> => Len(down'[v]) = 1 /\ up'[v] = 0
             /\ up'[v] <= 1
             /\ Alive(v)' /\ free'[v] => Idle(v)'
             /\ ~Alive(v)' => client'[v] = None /\ down'[v] = <<>>
  <2>1. /\ Alive(w) /\ client[w] # None /\ Alive(v)' = Alive(v)
        /\ client' = [client EXCEPT ![w] = None]
        /\ up' = [up EXCEPT ![w] = @ + 1]
        /\ UNCHANGED <<down, free>>
    BY <1>4 DEF WorkerRelease, Notify, Alive, PoolAssumption
  <2>2. down[w] = <<>> /\ up[w] = 0 /\ ~free[w]
    BY <2>1 DEF Token, Idle
  <2> QED
    BY <2>1, <2>2 DEF Token, Idle, TypeOK
<1> QED
  BY <1>1, <1>2, <1>3, <1>4 DEF WorkerStep

\* The master gives the token away in AcceptPass and takes it back in
\* MasterNotified.
LEMMA MasterToken ==
  ASSUME PoolAssumption, TypeOK, Token, MasterStep
  PROVE  Token'
<1> USE DEF master, worker, inputs
<1>1. ASSUME UNCHANGED <<client, down, up, free, wpc>>
      PROVE  Token'
  BY <1>1 DEF Token, Idle, Alive
<1>2. CASE MasterPoll \/ AcceptFails \/ MasterSignal \/ MasterTurn \/ MasterExit
  BY <1>1, <1>2 DEF MasterPoll, AcceptFails, MasterSignal, MasterTurn, MasterExit
<1>3. ASSUME NEW w \in Workers, MasterReap(w) \/ \E c \in Clients : AcceptPipe(c, w)
      PROVE  Token'
  BY <1>1, <1>3 DEF AcceptPipe, MasterReap
<1>4. ASSUME NEW c \in Clients, AcceptRefuse(c)
      PROVE  Token'
  BY <1>1, <1>4 DEF AcceptRefuse
<1>5. ASSUME NEW c \in Clients, NEW w \in Workers, AcceptPass(c, w)
      PROVE  Token'
  <2>1. /\ free[w] /\ Alive(w)
        /\ free' = [free EXCEPT ![w] = FALSE]
        /\ down' = [down EXCEPT ![w] = Append(@, c)]
        /\ UNCHANGED <<client, up, wpc>>
    BY <1>5 DEF AcceptPass, FreeWorkers, Busy, Alive
  <2>2. Idle(w)
    BY <2>1 DEF Token
  <2>3. Len(down'[w]) = 1
    BY <2>1, <2>2 DEF Idle, TypeOK
  <2> QED
    BY <2>1, <2>2, <2>3 DEF Token, Idle, Alive, TypeOK
<1>6. ASSUME NEW w \in Workers, MasterNotified(w)
      PROVE  Token'
  <2>1. /\ up[w] > 0 \/ ~Alive(w)
        /\ free' = [free EXCEPT ![w] = TRUE]
        /\ up' = [up EXCEPT ![w] = IF @ > 0 THEN @ - 1 ELSE 0]
        /\ UNCHANGED <<client, down, wpc>>
    BY <1>6 DEF MasterNotified, Notified, Alive
  <2>2. up[w] \in {0, 1} /\ up'[w] = 0
    BY <2>1 DEF Token, TypeOK
  <2>3. up[w] > 0 => client[w] = None /\ down[w] = <<>>
    BY DEF Token
  <2>4. Alive(w) => Idle(w)'
    BY <2>1, <2>2, <2>3 DEF Idle
  <2>5. \A v \in Workers \ {w} : free'[v] = free[v] /\ up'[v] = up[v]
    BY <2>1 DEF TypeOK
  <2>6. Alive(w)' <=> Alive(w)
    BY <2>1 DEF Alive
  <2>7. /\ client'[w] # None => down'[w] = <<>> /\ up'[w] = 0
        /\ down'[w] # <<>> => Len(down'[w]) = 1 /\ up'[w] = 0
        /\ up'[w] <= 1
        /\ ~Alive(w)' => client'[w] = None /\ down'[w] = <<>>
    BY <2>1, <2>2, <2>6 DEF Token
  <2>8. \A v \in Workers \ {w} :
          /\ client'[v] # None => down'[v] = <<>> /\ up'[v] = 0
          /\ down'[v] # <<>> => Len(down'[v]) = 1 /\ up'[v] = 0
          /\ up'[v] <= 1
          /\ Alive(v)' /\ free'[v] => Idle(v)'
          /\ ~Alive(v)' => client'[v] = None /\ down'[v] = <<>>
    BY <2>1, <2>5 DEF Token, Idle, Alive
  <2> QED
    BY <2>4, <2>6, <2>7, <2>8 DEF Token
<1> QED
  BY <1>2, <1>3, <1>4, <1>5, <1>6 DEF MasterStep

LEMMA TokenStep ==
  ASSUME PoolAssumption, TypeOK, Token, [Next]_vars
  PROVE  Token'
<1>1. CASE Environment \/ UNCHANGED vars
  <2>1. UNCHANGED <<client, down, up, free, wpc>>
    BY <1>1 DEF Environment, Connect, Send, Close, Kill, vars, master, worker
  <2> QED
    BY <2>1 DEF Token, Idle, Alive
<1> QED
  BY <1>1, WorkerToken, MasterToken DEF Next

-----------------------------------------------------------------------------
(* The connections.                                                         *)

\* A connection on its way to a worker is the only one.
LEMMA TakenLast ==
  ASSUME TypeOK, Token, NEW w \in Workers, down[w] # <<>>
  PROVE  Len(down[w]) = 1 /\ Tail(down[w]) = <<>>
<1>1. Len(down[w]) = 1 /\ down[w] \in Seq(Clients)
  BY DEF TypeOK, Token
<1>2. Tail(down[w]) \in Seq(Clients) /\ Len(Tail(down[w])) = 0
  BY <1>1
<1> QED
  BY <1>1, <1>2, EmptySeq

\* What closing connections does to who has taken which.
LEMMA CloseAllSpent ==
  ASSUME TypeOK, NEW C, CloseAll(C)
  PROVE  /\ Spent' = Spent \cup (C \cap Clients)
         /\ \A c \in Clients \ C : conn'[c] = conn[c]
BY DEF CloseAll, Spent, TypeOK

\* Closing what is spent spends nothing.
LEMMA CloseAllSame ==
  ASSUME TypeOK, NEW C, C \cap Clients \subseteq Spent, CloseAll(C)
  PROVE  Spent' = Spent
<1>1. Spent' = Spent \cup (C \cap Clients)
  BY CloseAllSpent
<1> QED
  BY <1>1

\* What a worker has is spent.
LEMMA HeldSpent ==
  ASSUME PoolAssumption, TypeOK, QueueOK, NEW w \in Workers
  PROVE  /\ client[w] # None => client[w] \in Spent
         /\ down[w] # <<>> => Head(down[w]) \in Spent
<1>1. client[w] # None => client[w] \in Spent
  BY DEF TypeOK, QueueOK, Spent
<1>2. ASSUME down[w] # <<>>
      PROVE  Head(down[w]) \in Spent
  <2>1. 1 \in DOMAIN down[w] /\ Head(down[w]) = down[w][1] /\ down[w][1] \in Clients
    BY <1>2 DEF TypeOK
  <2> QED
    BY <2>1 DEF QueueOK, Spent
<1> QED
  BY <1>1, <1>2

\* What a worker keeps stays taken.
LEMMA HeldStay ==
  ASSUME TypeOK, QueueOK, NEW w \in Workers,
         \A d \in Clients : conn[d] \in {"open", "closed"} => conn'[d] \in {"open", "closed"}
  PROVE  /\ client'[w] \in {client[w], None} /\ client'[w] # None =>
              conn'[client'[w]] \in {"open", "closed"}
         /\ down'[w] = down[w] \/ down'[w] = <<>> =>
              \A i \in DOMAIN down'[w] : conn'[down'[w][i]] \in {"open", "closed"}
<1>1. client[w] \in Clients \cup {None} /\ down[w] \in Seq(Clients)
  BY DEF TypeOK
<1>2. client'[w] \in {client[w], None} /\ client'[w] # None =>
        conn'[client'[w]] \in {"open", "closed"}
  BY <1>1 DEF QueueOK
<1>3. \A i \in DOMAIN down[w] : down[w][i] \in Clients /\ conn[down[w][i]] \in {"open", "closed"}
  BY <1>1 DEF QueueOK
<1>4. CASE down'[w] = down[w]
  BY <1>2, <1>3, <1>4
<1>5. CASE down'[w] = <<>>
  BY <1>2, <1>5
<1> QED
  BY <1>2, <1>4, <1>5

\* What is to be accepted is not.
LEMMA HeadNotSpent ==
  ASSUME TypeOK, QueueOK, NEW c, Accept(c)
  PROVE  /\ c \in Clients \ Spent
         /\ \A i \in DOMAIN queue' : queue'[i] = queue[i + 1] /\ i + 1 \in DOMAIN queue
         /\ \A i \in DOMAIN queue' : queue'[i] # c /\ conn[queue'[i]] = "queued"
         /\ \A i, j \in DOMAIN queue' : queue'[i] = queue'[j] => i = j
<1>1. queue \in Seq(Clients) /\ queue # <<>> /\ c = queue[1] /\ queue' = Tail(queue)
  BY DEF Accept, TypeOK
<1>2. \A i \in DOMAIN queue : conn[queue[i]] = "queued" /\ queue[i] \in Clients
  BY <1>1 DEF QueueOK, Accept, Ended
<1>3. c \in Clients \ Spent
  BY <1>1, <1>2 DEF Spent
<1>4. \A i \in DOMAIN queue' : i \in Nat /\ i >= 1 /\ queue'[i] = queue[i + 1] /\ i + 1 \in DOMAIN queue
  BY <1>1
<1>5. \A i \in DOMAIN queue' : queue'[i] # c
  BY <1>1, <1>4 DEF QueueOK
<1>6. \A i, j \in DOMAIN queue' : queue'[i] = queue'[j] => i = j
  <2> SUFFICES ASSUME NEW i \in DOMAIN queue', NEW j \in DOMAIN queue', queue'[i] = queue'[j]
               PROVE  i = j
    OBVIOUS
  <2>1. i + 1 = j + 1
    BY <1>4 DEF QueueOK
  <2> QED
    BY <1>4, <2>1
<1> QED
  BY <1>2, <1>3, <1>4, <1>5, <1>6

\* Spent connections stay spent and the queue keeps to connections that are not.
LEMMA QueueStep ==
  ASSUME PoolAssumption, TypeOK, Token, QueueOK, [Next]_vars
  PROVE  QueueOK'
<1> USE DEF master, worker, inputs
<1>1. ASSUME UNCHANGED <<mpc, queue, client, down, conn>>
      PROVE  QueueOK'
  BY <1>1 DEF QueueOK
<1>2. ASSUME NEW C, CloseAll(C), mpc' \in Ended,
             UNCHANGED <<client, down>>,
             \A i, j \in DOMAIN queue' : queue'[i] = queue'[j] => i = j
      PROVE  QueueOK'
  <2>1. Spent \subseteq Spent'
    BY <1>2, CloseAllSpent
  <2>2. \A d \in Clients : conn[d] \in {"open", "closed"} => conn'[d] \in {"open", "closed"}
    BY <2>1 DEF Spent
  <2> QED
    BY <1>2, <2>2, HeldStay DEF QueueOK
<1>3. ASSUME NEW c \in Clients, Connect(c)
      PROVE  QueueOK'
  <2>1. /\ conn[c] = "new" /\ conn' = [conn EXCEPT ![c] = "queued"]
        /\ queue' = Append(queue, c) /\ queue \in Seq(Clients)
        /\ UNCHANGED <<mpc, client, down>> /\ mpc \notin Ended
    BY <1>3 DEF Connect, TypeOK
  <2>2. \A i \in DOMAIN queue : conn[queue[i]] = "queued" /\ queue[i] # c
    BY <2>1 DEF QueueOK
  <2>3. DOMAIN queue' = DOMAIN queue \cup {Len(queue) + 1}
    BY <2>1
  <2>4. /\ \A i \in DOMAIN queue : queue'[i] = queue[i]
        /\ queue'[Len(queue) + 1] = c
    BY <2>1
  <2>5. \A i \in DOMAIN queue' : conn'[queue'[i]] = "queued"
    BY <2>1, <2>2, <2>3, <2>4 DEF TypeOK
  <2>6. \A i, j \in DOMAIN queue' : queue'[i] = queue'[j] => i = j
    BY <2>2, <2>3, <2>4 DEF QueueOK
  <2>7. \A w \in Workers :
          /\ client'[w] # None => conn'[client'[w]] \in {"open", "closed"}
          /\ \A i \in DOMAIN down'[w] : conn'[down'[w][i]] \in {"open", "closed"}
    BY <2>1 DEF QueueOK, TypeOK
  <2> QED
    BY <2>5, <2>6, <2>7 DEF QueueOK
<1>4. ASSUME NEW c \in Clients, AcceptRefuse(c)
      PROVE  QueueOK'
  <2>1. Accept(c) /\ CloseAll({c}) /\ UNCHANGED <<mpc, client, down>>
    BY <1>4 DEF AcceptRefuse
  <2>2. \A d \in Clients \ {c} : conn'[d] = conn[d]
    BY <2>1, CloseAllSpent
  <2>3. c \notin Spent
    BY <2>1, HeadNotSpent
  <2>4. \A w \in Workers :
          /\ client'[w] # None => conn'[client'[w]] \in {"open", "closed"}
          /\ \A i \in DOMAIN down'[w] : conn'[down'[w][i]] \in {"open", "closed"}
    <3>1. \A d \in Clients : conn[d] \in {"open", "closed"} => conn'[d] \in {"open", "closed"}
      BY <2>2, <2>3 DEF Spent
    <3> QED
      BY <2>1, <3>1, HeldStay
  <2>5. \A i \in DOMAIN queue' : conn'[queue'[i]] = "queued"
    <3> SUFFICES ASSUME NEW i \in DOMAIN queue'
                 PROVE  conn'[queue'[i]] = "queued"
      OBVIOUS
    <3>1. queue'[i] \in Clients \ {c} /\ conn[queue'[i]] = "queued"
      BY <2>1, HeadNotSpent DEF TypeOK
    <3> QED
      BY <2>2, <3>1
  <2> QED
    BY <2>1, <2>4, <2>5, HeadNotSpent DEF QueueOK
<1>5. ASSUME NEW c \in Clients, NEW w \in Workers, AcceptPass(c, w)
      PROVE  QueueOK'
  <2>1. /\ Accept(c) /\ UNCHANGED <<mpc, client>>
        /\ conn' = [conn EXCEPT ![c] = "open"]
        /\ down' = [down EXCEPT ![w] = Append(@, c)]
        /\ free[w] /\ Alive(w)
    BY <1>5 DEF AcceptPass, FreeWorkers, Alive
  <2>2. down[w] = <<>>
    BY <2>1 DEF Token, Idle
  <2>3. down'[w] = <<c>> /\ \A v \in Workers \ {w} : down'[v] = down[v]
    BY <2>1, <2>2 DEF TypeOK
  <2>4. \A d \in Clients : conn[d] \in {"open", "closed"} => conn'[d] \in {"open", "closed"}
    BY <2>1 DEF TypeOK
  <2>5. \A v \in Workers : client'[v] # None => conn'[client'[v]] \in {"open", "closed"}
    BY <2>1, <2>4, HeldStay
  <2>6. \A i \in DOMAIN down'[w] : conn'[down'[w][i]] \in {"open", "closed"}
    <3>1. conn'[c] = "open"
      BY <2>1 DEF TypeOK
    <3>2. \A i \in DOMAIN <<c>> : <<c>>[i] = c
      OBVIOUS
    <3> QED
      BY <2>3, <3>1, <3>2
  <2>7. \A v \in Workers \ {w} :
          \A i \in DOMAIN down'[v] : conn'[down'[v][i]] \in {"open", "closed"}
    BY <2>3, <2>4, HeldStay
  <2>8. \A i \in DOMAIN queue' : conn'[queue'[i]] = "queued"
    <3> SUFFICES ASSUME NEW i \in DOMAIN queue'
                 PROVE  conn'[queue'[i]] = "queued"
      OBVIOUS
    <3>1. queue'[i] \in Clients \ {c} /\ conn[queue'[i]] = "queued"
      BY <2>1, HeadNotSpent DEF TypeOK
    <3> QED
      BY <2>1, <3>1 DEF TypeOK
  <2> QED
    BY <2>1, <2>5, <2>6, <2>7, <2>8, HeadNotSpent DEF QueueOK
<1>6. ASSUME NEW c \in Clients, NEW w \in Workers, AcceptPipe(c, w)
      PROVE  QueueOK'
  <2>1. Accept(c) /\ CloseAll(Orphaned) /\ mpc' \in Ended /\ UNCHANGED <<client, down>>
    BY <1>6 DEF AcceptPipe, Ended
  <2> QED
    BY <1>2, <2>1, HeadNotSpent
<1>7. CASE MasterExit
  <2>1. CloseAll(Orphaned) /\ mpc' \in Ended /\ UNCHANGED <<client, down, queue>>
    BY <1>7 DEF MasterExit, Ended
  <2> QED
    BY <1>2, <2>1 DEF QueueOK
<1>8. CASE \/ MasterPoll \/ AcceptFails \/ MasterSignal \/ MasterTurn
           \/ \E w \in Workers : MasterNotified(w) \/ MasterReap(w)
  <2>1. /\ UNCHANGED <<queue, client, down, conn>>
        /\ mpc' \in Ended => mpc \in Ended
        /\ mpc \in Ended => mpc' \in Ended
    BY <1>8 DEF MasterPoll, AcceptFails, MasterSignal, MasterTurn, MasterNotified,
                MasterReap, Ended
  <2> QED
    BY <2>1 DEF QueueOK
<1>9. ASSUME NEW w \in Workers, NEW C, CloseAll(C), C \cap Clients \subseteq Spent,
             UNCHANGED <<mpc, queue>>,
             \A v \in Workers :
               /\ client'[v] \in {client[v], None}
               /\ down'[v] = down[v] \/ down'[v] = <<>>
      PROVE  QueueOK'
  <2>1. Spent' = Spent \cup (C \cap Clients) /\ \A c \in Clients \ C : conn'[c] = conn[c]
    BY <1>9, CloseAllSpent
  <2>2. mpc' \notin Ended => \A i \in DOMAIN queue' : conn'[queue'[i]] = "queued"
    <3> SUFFICES ASSUME mpc \notin Ended, NEW i \in DOMAIN queue
                 PROVE  conn'[queue[i]] = "queued"
      BY <1>9
    <3>1. conn[queue[i]] = "queued" /\ queue[i] \in Clients
      BY DEF QueueOK, TypeOK
    <3>2. queue[i] \notin C
      BY <1>9, <3>1 DEF Spent
    <3> QED
      BY <2>1, <3>1, <3>2
  <2>3. \A d \in Clients : conn[d] \in {"open", "closed"} => conn'[d] \in {"open", "closed"}
    BY <2>1 DEF Spent
  <2>4. \A v \in Workers :
          /\ client'[v] # None => conn'[client'[v]] \in {"open", "closed"}
          /\ \A i \in DOMAIN down'[v] : conn'[down'[v][i]] \in {"open", "closed"}
    BY <1>9, <2>3, HeldStay
  <2> QED
    BY <1>9, <2>2, <2>4 DEF QueueOK
<1>10. ASSUME NEW w \in Workers, WorkerStep(w)
       PROVE  QueueOK'
  <2>1. CASE \/ WorkerPoll(w) \/ WorkerSignal(w) \/ WorkerTurn(w)
             \/ \E c \in Clients : WorkerCommand(w, c)
    BY <1>1, <2>1 DEF WorkerPoll, WorkerSignal, WorkerTurn, WorkerCommand
  <2>2. CASE WorkerExit(w)
    <3>1. {client[w]} \cap Clients \subseteq Spent
      BY HeldSpent DEF PoolAssumption
    <3>2. /\ CloseAll({client[w]}) /\ UNCHANGED <<mpc, queue>>
          /\ \A v \in Workers : /\ client'[v] \in {client[v], None}
                                /\ down'[v] = down[v] \/ down'[v] = <<>>
      BY <2>2 DEF WorkerExit, TypeOK
    <3> QED
      BY <1>9, <3>1, <3>2
  <2>3. ASSUME NEW c \in Clients, WorkerRelease(w, c)
        PROVE  QueueOK'
    <3>1. {c} \cap Clients \subseteq Spent
      BY <2>3, HeldSpent DEF WorkerRelease, PoolAssumption
    <3>2. /\ CloseAll({c}) /\ UNCHANGED <<mpc, queue>>
          /\ \A v \in Workers : /\ client'[v] \in {client[v], None}
                                /\ down'[v] = down[v] \/ down'[v] = <<>>
      BY <2>3 DEF WorkerRelease, TypeOK
    <3> QED
      BY <1>9, <3>1, <3>2
  <2>4. ASSUME NEW c \in Clients, WorkerReceive(w, c) \/ WorkerReceiveFails(w, c)
        PROVE  down' = [down EXCEPT ![w] = <<>>] /\ c \in Spent
    <3>1. down[w] # <<>> /\ c = Head(down[w]) /\ down' = [down EXCEPT ![w] = Tail(@)]
      BY <2>4 DEF WorkerReceive, WorkerReceiveFails
    <3>2. Len(down[w]) = 1 /\ Tail(down[w]) = <<>>
      BY <3>1, TakenLast
    <3> QED
      BY <3>1, <3>2, HeldSpent
  <2>5. ASSUME NEW c \in Clients, WorkerReceiveFails(w, c)
        PROVE  QueueOK'
    <3>1. /\ CloseAll({c}) /\ UNCHANGED <<mpc, queue>>
          /\ \A v \in Workers : /\ client'[v] \in {client[v], None}
                                /\ down'[v] = down[v] \/ down'[v] = <<>>
      <4>1. down' = [down EXCEPT ![w] = <<>>]
        BY <2>4, <2>5
      <4>2. /\ CloseAll({c}) /\ UNCHANGED <<mpc, queue>>
            /\ client' = [client EXCEPT ![w] = None]
        BY <2>5 DEF WorkerReceiveFails
      <4> QED
        BY <4>1, <4>2 DEF TypeOK
    <3>2. c \in Spent
      BY <2>4, <2>5
    <3> QED
      BY <1>9, <3>1, <3>2
  <2>6. ASSUME NEW c \in Clients, WorkerReceive(w, c)
        PROVE  QueueOK'
    <3>1. /\ UNCHANGED <<mpc, queue, conn>>
          /\ client' = [client EXCEPT ![w] = c]
          /\ down' = [down EXCEPT ![w] = <<>>]
          /\ conn[c] \in {"open", "closed"}
      BY <2>4, <2>6 DEF WorkerReceive, Spent
    <3> QED
      BY <3>1 DEF QueueOK, TypeOK
  <2> QED
    BY <1>10, <2>1, <2>2, <2>3, <2>5, <2>6 DEF WorkerStep
<1>11. ASSUME NEW c \in Clients, Send(c) \/ Close(c)
       PROVE  QueueOK'
  BY <1>1, <1>11 DEF Send, Close
<1>12. ASSUME NEW group, NEW s, Kill(group, s)
       PROVE  QueueOK'
  BY <1>1, <1>12 DEF Kill
<1>13. CASE UNCHANGED vars
  BY <1>1, <1>13 DEF vars
<1> QED
  BY <1>3, <1>4, <1>5, <1>6, <1>7, <1>8, <1>10, <1>11, <1>12, <1>13
     DEF Next, MasterStep, Environment

-----------------------------------------------------------------------------
(* The theorems about the token.                                             *)

LEMMA PInvInit ==
  ASSUME PoolAssumption, Init
  PROVE  PInv
<1> USE DEF Init, MasterInit, PoolInit, WorkerInit, PoolAssumption
<1>1. TypeOK
  <2>1. <<>> \in Seq(Clients)
    OBVIOUS
  <2>2. down \in [Workers -> Seq(Clients)] /\ queue \in Seq(Clients)
    BY <2>1
  <2>3. /\ up \in [Workers -> Nat]
        /\ pend \in [Procs -> SUBSET {"int", "quit"}]
        /\ wbatch \in [Workers -> SUBSET {"signal", "pass", "client"}]
        /\ wedge \in [Workers -> SUBSET {"signal", "pass", "client"}]
    OBVIOUS
  <2> QED
    BY <2>2, <2>3 DEF TypeOK
<1>2. Token
  BY DEF Token, Idle, Alive
<1>3. QueueOK
  BY DEF QueueOK
<1> QED
  BY <1>1, <1>2, <1>3 DEF PInv

\* PInv holds at all times.
THEOREM Invariance == Spec => []PInv
<1>1. PoolAssumption /\ PInv /\ [Next]_vars => PInv'
  BY TypeStep, TokenStep, QueueStep DEF PInv
<1> QED
  BY <1>1, PInvInit, PoolAssumption, PTL DEF Spec

\* The types of the state; in particular the master never takes back more
\* notifications than were sent.
THEOREM TypeCorrect == Spec => []TypeOK
BY Invariance, PTL DEF PInv

\* What the master notes of a worker is true at any moment, although worker and
\* master change their parts of it at different times.
THEOREM FreeIsTrue == Spec => []FreeMeansIdle
<1>1. PInv => FreeMeansIdle
  BY DEF PInv, Token, FreeMeansIdle
<1> QED
  BY <1>1, Invariance, PTL

-----------------------------------------------------------------------------
(* Refinement.                                                              *)

owner == [w \in Workers |-> Owner(w)]

\* One worker's connection changes.
LEMMA OwnerChange ==
  ASSUME NEW w \in Workers, NEW x, Owner(w)' = x,
         \A v \in Workers \ {w} : Owner(v)' = Owner(v)
  PROVE  owner' = [owner EXCEPT ![w] = x]
<1>1. \A v \in Workers : owner'[v] = IF v = w THEN x ELSE owner[v]
  BY DEF owner
<1>2. owner' = [v \in Workers |-> owner'[v]]
  BY DEF owner
<1> QED
  BY <1>1, <1>2 DEF owner

\* The steps of the master assign a connection, turn some away, or do nothing
\* to who owns what.
LEMMA MasterRefines ==
  ASSUME PoolAssumption, PInv, MasterStep
  PROVE  Pool!Next \/ UNCHANGED <<owner, Spent>>
<1> USE DEF PInv, master, worker, inputs
<1>1. ASSUME UNCHANGED <<client, down>>
      PROVE  owner' = owner
  BY <1>1 DEF owner, Owner
<1>2. ASSUME NEW C, C \cap Clients \cap Spent = {}, CloseAll(C), UNCHANGED <<client, down>>
      PROVE  Pool!Next
  <2>1. Spent' = Spent \cup (C \cap Clients) /\ owner' = owner
    BY <1>1, <1>2, CloseAllSpent
  <2>2. Pool!Refuse(C \cap Clients)
    BY <1>2, <2>1 DEF Pool!Refuse, owner
  <2> QED
    BY <2>2 DEF Pool!Next
<1>3. ASSUME NEW C, CloseAll(C), UNCHANGED <<client, down>>
      PROVE  Pool!Next
  <2>1. Spent' = Spent \cup ((C \cap Clients) \ Spent) /\ owner' = owner
    BY <1>1, <1>3, CloseAllSpent
  <2>2. Pool!Refuse((C \cap Clients) \ Spent)
    BY <2>1 DEF Pool!Refuse, owner
  <2> QED
    BY <2>2 DEF Pool!Next
<1>4. ASSUME NEW c \in Clients, AcceptRefuse(c)
      PROVE  Pool!Next
  BY <1>3, <1>4 DEF AcceptRefuse
<1>5. ASSUME NEW c \in Clients, NEW w \in Workers, AcceptPipe(c, w)
      PROVE  Pool!Next
  BY <1>3, <1>5 DEF AcceptPipe
<1>6. CASE MasterExit
  BY <1>3, <1>6 DEF MasterExit
<1>7. ASSUME NEW c \in Clients, NEW w \in Workers, AcceptPass(c, w)
      PROVE  Pool!Next
  <2>1. /\ free[w] /\ Alive(w) /\ Accept(c)
        /\ down' = [down EXCEPT ![w] = Append(@, c)]
        /\ conn' = [conn EXCEPT ![c] = "open"]
        /\ client' = client
    BY <1>7 DEF AcceptPass, FreeWorkers, Alive
  <2>2. down[w] = <<>> /\ client[w] = None
    BY <2>1 DEF Token, Idle
  <2>3. Owner(w) = None /\ Owner(w)' = c
    BY <2>1, <2>2 DEF Owner, TypeOK
  <2>4. \A v \in Workers \ {w} : Owner(v)' = Owner(v)
    BY <2>1 DEF Owner, TypeOK
  <2>5. owner' = [owner EXCEPT ![w] = c] /\ owner[w] = None
    BY <2>3, <2>4, OwnerChange DEF owner
  <2>6. c \notin Spent
    BY <2>1, HeadNotSpent
  <2>7. Spent' = Spent \cup {c}
    BY <2>1 DEF Spent, TypeOK
  <2>8. Pool!Assign(w, c)
    BY <2>5, <2>6, <2>7 DEF Pool!Assign, owner
  <2> QED
    BY <2>8 DEF Pool!Next
<1>8. CASE \/ MasterPoll \/ AcceptFails \/ MasterSignal \/ MasterTurn
           \/ \E w \in Workers : MasterNotified(w) \/ MasterReap(w)
  <2>1. UNCHANGED <<client, down, conn>>
    BY <1>8 DEF MasterPoll, AcceptFails, MasterSignal, MasterTurn, MasterNotified, MasterReap
  <2> QED
    BY <1>1, <2>1 DEF Spent
<1> QED
  BY <1>4, <1>5, <1>6, <1>7, <1>8 DEF MasterStep

\* The steps of a worker let a connection go, or move it from the socket pair
\* into client_socket.
LEMMA WorkerRefines ==
  ASSUME PoolAssumption, PInv, NEW w \in Workers, WorkerStep(w)
  PROVE  Pool!Next \/ UNCHANGED <<owner, Spent>>
<1> USE DEF PInv, master, worker, inputs
<1>1. ASSUME Spent' = Spent, Owner(w) # None, Owner(w)' = None,
             \A v \in Workers \ {w} : Owner(v)' = Owner(v)
      PROVE  Pool!Next
  <2>1. owner' = [owner EXCEPT ![w] = None] /\ owner[w] # None
    BY <1>1, OwnerChange DEF owner
  <2>2. Pool!Release(w)
    BY <1>1, <2>1 DEF Pool!Release, owner
  <2> QED
    BY <2>2 DEF Pool!Next
<1>2. CASE \/ WorkerPoll(w) \/ WorkerSignal(w) \/ WorkerTurn(w)
           \/ \E c \in Clients : WorkerCommand(w, c)
  <2>1. UNCHANGED <<client, down, conn>>
    BY <1>2 DEF WorkerPoll, WorkerSignal, WorkerTurn, WorkerCommand
  <2> QED
    BY <2>1 DEF owner, Owner, Spent
<1>3. CASE WorkerExit(w)
  <2>1. /\ CloseAll({client[w]})
        /\ client' = [client EXCEPT ![w] = None]
        /\ down' = [down EXCEPT ![w] = <<>>]
    BY <1>3 DEF WorkerExit
  <2>2. {client[w]} \cap Clients \subseteq Spent
    BY HeldSpent DEF PoolAssumption
  <2>3. Spent' = Spent
    BY <2>1, <2>2, CloseAllSame
  <2>4. /\ Owner(w)' = None
        /\ \A v \in Workers \ {w} : Owner(v)' = Owner(v)
    BY <2>1 DEF Owner, TypeOK
  <2>5. CASE Owner(w) = None
    BY <2>3, <2>4, <2>5 DEF owner
  <2> QED
    BY <1>1, <2>3, <2>4, <2>5
<1>4. ASSUME NEW c \in Clients, WorkerRelease(w, c)
      PROVE  Pool!Next
  <2>1. /\ CloseAll({c}) /\ client[w] = c
        /\ client' = [client EXCEPT ![w] = None]
        /\ down' = down
    BY <1>4 DEF WorkerRelease
  <2>2. c # None /\ c \in Spent /\ down[w] = <<>>
    BY <2>1, HeldSpent DEF PoolAssumption, Token
  <2>3. Spent' = Spent
    BY <2>1, <2>2, CloseAllSame
  <2>4. /\ Owner(w) # None /\ Owner(w)' = None
        /\ \A v \in Workers \ {w} : Owner(v)' = Owner(v)
    BY <2>1, <2>2 DEF Owner, TypeOK
  <2> QED
    BY <1>1, <2>3, <2>4
<1>5. ASSUME NEW c \in Clients, WorkerReceive(w, c) \/ WorkerReceiveFails(w, c)
      PROVE  /\ Owner(w) = c /\ c \in Spent /\ c # None
             /\ down' = [down EXCEPT ![w] = <<>>]
             /\ \A v \in Workers \ {w} : Owner(v)' = Owner(v)
  <2>1. /\ down[w] # <<>> /\ c = Head(down[w])
        /\ down' = [down EXCEPT ![w] = Tail(@)]
        /\ client' = [client EXCEPT ![w] = c] \/ client' = [client EXCEPT ![w] = None]
    BY <1>5 DEF WorkerReceive, WorkerReceiveFails
  <2>2. Tail(down[w]) = <<>>
    BY <2>1, TakenLast
  <2>3. Owner(w) = c /\ c \in Spent /\ c # None
    BY <2>1, HeldSpent DEF Owner, PoolAssumption
  <2>4. \A v \in Workers \ {w} : Owner(v)' = Owner(v)
    BY <2>1 DEF Owner, TypeOK
  <2> QED
    BY <2>1, <2>2, <2>3, <2>4
<1>6. ASSUME NEW c \in Clients, WorkerReceive(w, c)
      PROVE  UNCHANGED <<owner, Spent>>
  <2>1. down' = [down EXCEPT ![w] = <<>>] /\ Owner(w) = c
        /\ \A v \in Workers \ {w} : Owner(v)' = Owner(v)
    BY <1>5, <1>6
  <2>2. client' = [client EXCEPT ![w] = c] /\ conn' = conn
    BY <1>6 DEF WorkerReceive
  <2>3. Owner(w)' = c
    BY <2>1, <2>2 DEF Owner, TypeOK
  <2> QED
    BY <2>1, <2>2, <2>3 DEF owner, Spent
<1>7. ASSUME NEW c \in Clients, WorkerReceiveFails(w, c)
      PROVE  Pool!Next
  <2>1. /\ down' = [down EXCEPT ![w] = <<>>] /\ Owner(w) = c /\ c # None /\ c \in Spent
        /\ \A v \in Workers \ {w} : Owner(v)' = Owner(v)
    BY <1>5, <1>7
  <2>2. client' = [client EXCEPT ![w] = None] /\ CloseAll({c})
    BY <1>7 DEF WorkerReceiveFails
  <2>3. Owner(w)' = None
    BY <2>1, <2>2 DEF Owner, TypeOK
  <2>4. Spent' = Spent
    BY <2>1, <2>2, CloseAllSame
  <2> QED
    BY <1>1, <2>1, <2>3, <2>4
<1> QED
  BY <1>2, <1>3, <1>4, <1>6, <1>7 DEF WorkerStep

\* Every step of the pool is one of SlotPool's, or changes nothing there.
LEMMA OwnerStep ==
  ASSUME PoolAssumption, PInv, [Next]_vars
  PROVE  Pool!Next \/ UNCHANGED <<owner, Spent>>
<1>1. CASE Environment
  <2>1. UNCHANGED <<client, down>>
    BY <1>1 DEF Environment, Connect, Send, Close, Kill
  <2>2. Spent' = Spent
    BY <1>1 DEF Environment, Connect, Send, Close, Kill, Spent, PInv, TypeOK
  <2> QED
    BY <2>1, <2>2 DEF owner, Owner
<1>2. CASE UNCHANGED vars
  BY <1>2 DEF vars, owner, Owner, Spent
<1> QED
  BY <1>1, <1>2, MasterRefines, WorkerRefines DEF Next

\* A worker has one client at a time and a connection one worker in its life,
\* for every interleaving, signal and failing call.
THEOREM Refinement == Spec => OneToOne
<1>1. PoolAssumption /\ Init => Pool!Init
  BY DEF Init, MasterInit, PoolInit, WorkerInit, Pool!Init, Owner, Spent
<1>2. PoolAssumption /\ PInv /\ [Next]_vars => [Pool!Next]_<<owner, Spent>>
  BY OwnerStep
<1> QED
  BY <1>1, <1>2, Invariance, PoolAssumption, PTL DEF Spec, OneToOne, Pool!Spec, owner

-----------------------------------------------------------------------------
(* The events.                                                              *)

\* What a worker is about to handle is there, and what is there will be handled.
WorkerEvents(w) ==
  /\ wpc[w] = "batch" => wbatch[w] \subseteq WorkerReadable(w)
  /\ wpc[w] # "batch" => wbatch[w] = {}
  /\ Alive(w) =>
       /\ down[w] # <<>> => "pass" \in wedge[w] \cup wbatch[w]
       /\ "int" \in pend[w] => "signal" \in wedge[w] \cup wbatch[w]

MasterEvents ==
  /\ mpc = "batch" => mbatch \subseteq MasterReadable
  /\ mpc = "wait" => mbatch = {}
  /\ mpc \in {"wait", "batch"} =>
       /\ list = Workers
       /\ \A w \in Workers : up[w] > 0 => w \in medge \cup mbatch
       /\ "int" \in pend[Master] => "signal" \in medge \cup mbatch

\* Who is not in the list has gone, and the master leaves with an empty list.
Listed ==
  /\ \A w \in Workers \ list : ~Alive(w)
  /\ mpc = "done" => list = {}

\* A connection has one worker (an invariant of SlotPool).
OneWorker == \A v, w \in Workers : Owner(v) = Owner(w) /\ Owner(v) # None => v = w

SInv == PInv /\ OneWorker /\ Listed /\ MasterEvents /\ \A w \in Workers : WorkerEvents(w)

\* The steps of SlotPool never give a connection to a second worker.
LEMMA OneWorkerStep ==
  ASSUME PoolAssumption, PInv, OneWorker, Pool!Next \/ UNCHANGED <<owner, Spent>>
  PROVE  OneWorker'
<1>1. \A w \in Workers : Owner(w) = owner[w] /\ Owner(w)' = owner'[w]
  BY DEF owner
<1>2. \A v, w \in Workers : owner[v] = owner[w] /\ owner[v] # None => v = w
  BY <1>1 DEF OneWorker
<1>3. \A w \in Workers : owner[w] # None => owner[w] \in Spent
  BY <1>1, HeldSpent DEF PInv, Owner
<1>4. DOMAIN owner = Workers
  BY DEF owner
<1>5. ASSUME NEW w \in Workers, NEW c \in Clients, Pool!Assign(w, c)
      PROVE  \A u, v \in Workers : owner'[u] = owner'[v] /\ owner'[u] # None => u = v
  <2>1. owner' = [owner EXCEPT ![w] = c] /\ c \notin Spent
    BY <1>5, Zenon DEF Pool!Assign, owner
  <2>2. /\ owner'[w] = c
        /\ \A v \in Workers : v # w => owner'[v] = owner[v]
    BY <1>4, <2>1
  <2>3. \A v \in Workers : owner[v] # c \/ c = None
    BY <1>3, <2>1
  <2> QED
    BY <1>2, <2>2, <2>3
<1>6. ASSUME NEW w \in Workers, Pool!Release(w)
      PROVE  \A u, v \in Workers : owner'[u] = owner'[v] /\ owner'[u] # None => u = v
  BY <1>2, <1>4, <1>6 DEF Pool!Release, owner
<1>7. ASSUME owner' = owner
      PROVE  \A u, v \in Workers : owner'[u] = owner'[v] /\ owner'[u] # None => u = v
  BY <1>2, <1>7
<1>8. \A u, v \in Workers : owner'[u] = owner'[v] /\ owner'[u] # None => u = v
  BY <1>5, <1>6, <1>7 DEF Pool!Next, Pool!Refuse, owner
<1> QED
  BY <1>1, <1>8 DEF OneWorker

\* A worker that a step does not touch but for new events.
LEMMA WorkerKept ==
  ASSUME NEW w \in Workers, WorkerEvents(w),
         wpc'[w] = wpc[w], wbatch'[w] = wbatch[w], client'[w] = client[w],
         wedge[w] \subseteq wedge'[w],
         pend[w] \subseteq pend'[w],
         "int" \in pend'[w] => "int" \in pend[w] \/ ~Alive(w) \/ "signal" \in wedge'[w],
         down[w] # <<>> => down'[w] # <<>>,
         down'[w] # <<>> => down[w] # <<>> \/ "pass" \in wedge'[w],
         \A c \in Clients : client[w] = c /\ (unread[c] # "none" \/ fin[c]) =>
                              unread'[c] # "none" \/ fin'[c]
  PROVE  WorkerEvents(w)'
<1>1. WorkerReadable(w) \subseteq WorkerReadable(w)'
  BY DEF WorkerReadable
<1> QED
  BY <1>1 DEF WorkerEvents, Alive

\* A connection that is closed was not the client of worker w.
LEMMA ClosedForOthers ==
  ASSUME TypeOK, NEW w \in Workers, NEW C, client[w] \notin C, CloseAll(C)
  PROVE  \A c \in Clients : client[w] = c /\ (unread[c] # "none" \/ fin[c]) =>
                              unread'[c] # "none" \/ fin'[c]
BY DEF CloseAll, TypeOK

\* The environment brings events, and a step of the master passes a connection on
\* or closes what no worker has.
LEMMA OthersEvents ==
  ASSUME PoolAssumption, SInv, MasterStep \/ Environment \/ UNCHANGED vars, NEW w \in Workers
  PROVE  WorkerEvents(w)'
<1> USE DEF master, worker, inputs
<1>1. TypeOK /\ Token /\ QueueOK /\ WorkerEvents(w)
  BY DEF SInv, PInv
<1>2. ASSUME UNCHANGED <<worker, wedge, client, down, inputs>>, pend'[w] = pend[w]
      PROVE  WorkerEvents(w)'
  BY <1>1, <1>2, WorkerKept
<1>3. CASE MasterPoll \/ AcceptFails \/ MasterTurn \/ UNCHANGED vars
           \/ \E v \in Workers : MasterNotified(v) \/ MasterReap(v)
  BY <1>2, <1>3 DEF MasterPoll, AcceptFails, MasterTurn, MasterNotified, MasterReap, vars
<1>4. CASE MasterSignal
  <2>1. pend'[w] = pend[w]
    <3>1. pend' = [pend EXCEPT ![Master] = @ \ {First(pend[Master])}] /\ w # Master
      BY <1>4 DEF MasterSignal, PoolAssumption
    <3>2. DOMAIN pend = Procs /\ w \in Procs
      BY <1>1 DEF TypeOK, Procs
    <3> QED
      BY <3>1, <3>2
  <2> QED
    BY <1>2, <1>4, <2>1 DEF MasterSignal
<1>5. ASSUME NEW C, client[w] \notin C, CloseAll(C), UNCHANGED <<worker, wedge, client, down, pend>>
      PROVE  WorkerEvents(w)'
  <2>1. \A c \in Clients : client[w] = c /\ (unread[c] # "none" \/ fin[c]) =>
                              unread'[c] # "none" \/ fin'[c]
    BY <1>1, <1>5, ClosedForOthers
  <2> QED
    BY <1>1, <1>5, <2>1, WorkerKept
<1>6. ASSUME NEW c \in Clients, AcceptRefuse(c)
      PROVE  WorkerEvents(w)'
  <2>1. c \notin Spent
    BY <1>1, <1>6, HeadNotSpent DEF AcceptRefuse
  <2>2. client[w] \notin {c}
    BY <1>1, <2>1, HeldSpent DEF PoolAssumption
  <2> QED
    BY <1>5, <1>6, <2>2 DEF AcceptRefuse
<1>7. client[w] \notin Orphaned
  BY DEF Orphaned
<1>8. CASE MasterExit \/ \E c \in Clients, v \in Workers : AcceptPipe(c, v)
  BY <1>5, <1>7, <1>8 DEF MasterExit, AcceptPipe
<1>9. ASSUME NEW c \in Clients, NEW v \in Workers, AcceptPass(c, v)
      PROVE  WorkerEvents(w)'
  <2>1. /\ down' = [down EXCEPT ![v] = Append(@, c)]
        /\ wedge' = [wedge EXCEPT ![v] = @ \cup {"pass"}]
        /\ UNCHANGED <<worker, client, pend, inputs>>
    BY <1>9 DEF AcceptPass
  <2>2. Append(down[v], c) # <<>>
    <3>1. down[v] \in Seq(Clients)
      BY <1>1 DEF TypeOK
    <3> QED
      BY <3>1, AppendProperties
  <2>3. /\ wedge[w] \subseteq wedge'[w]
        /\ down[w] # <<>> => down'[w] # <<>>
        /\ down'[w] # <<>> => down[w] # <<>> \/ "pass" \in wedge'[w]
    BY <1>1, <2>1, <2>2 DEF TypeOK
  <2> QED
    BY <1>1, <2>1, <2>3, WorkerKept
<1>10. CASE Environment
  <2>1. ASSUME NEW c \in Clients, Connect(c)
        PROVE  WorkerEvents(w)'
    BY <1>2, <2>1 DEF Connect
  <2>2. ASSUME NEW c \in Clients, Send(c) \/ Close(c)
        PROVE  WorkerEvents(w)'
    <3>1. wedge[w] \subseteq wedge'[w]
      BY <2>2 DEF Send, Close, Arrive
    <3>2. \A d \in Clients : (unread[d] # "none" => unread'[d] # "none") /\ (fin[d] => fin'[d])
      BY <1>1, <2>2 DEF Send, Close, TypeOK
    <3>3. UNCHANGED <<worker, client, down, pend>>
      BY <2>2 DEF Send, Close
    <3> QED
      BY <1>1, <3>1, <3>2, <3>3, WorkerKept
  <2>3. ASSUME NEW group \in SignalGroups, NEW s \in Signals, Kill(group, s)
        PROVE  WorkerEvents(w)'
    <3>1. PICK hit :
            /\ pend' = [p \in Procs |-> IF p \in hit THEN pend[p] \cup {s} ELSE pend[p]]
            /\ wedge' = [v \in Workers |->
                          IF v \in hit THEN wedge[v] \cup {"signal"} ELSE wedge[v]]
      BY <2>3 DEF Kill
    <3>2. /\ wedge[w] \subseteq wedge'[w] /\ pend[w] \subseteq pend'[w]
          /\ pend'[w] = pend[w] \/ "signal" \in wedge'[w]
      BY <3>1 DEF Procs
    <3>3. UNCHANGED <<worker, client, down, inputs>>
      BY <2>3 DEF Kill
    <3> QED
      BY <1>1, <3>2, <3>3, WorkerKept
  <2> QED
    BY <1>10, <2>1, <2>2, <2>3 DEF Environment
<1> QED
  BY <1>3, <1>4, <1>6, <1>8, <1>9, <1>10 DEF MasterStep

\* A worker closes a connection of its own only, and reads from no other.
LEMMA NotAnothers ==
  ASSUME PoolAssumption, SInv, NEW v \in Workers, NEW w \in Workers, v # w,
         NEW c \in Clients, client[v] = c \/ (down[v] # <<>> /\ Head(down[v]) = c)
  PROVE  client[w] # c
<1>1. Token /\ OneWorker /\ c # None
  BY DEF SInv, PInv, PoolAssumption
<1>2. Owner(v) = c
  BY <1>1 DEF Token, Owner
<1>3. client[w] # None => Owner(w) = client[w]
  BY <1>1 DEF Token, Owner
<1> QED
  BY <1>1, <1>2, <1>3 DEF OneWorker

\* What a step of a worker leaves alone, and how it reaches the master.
LEMMA WorkerTouches ==
  ASSUME PoolAssumption, TypeOK, NEW v \in Workers, WorkerStep(v)
  PROVE  /\ UNCHANGED <<mpc, mbatch, list, queue>> /\ pend'[Master] = pend[Master]
         /\ \/ up' = up /\ medge \subseteq medge'
            \/ up' = [up EXCEPT ![v] = @ + 1] /\ (mpc \in Ended \/ v \in medge') /\ medge \subseteq medge'
         /\ wpc[v] # "gone"
         /\ \A w \in Workers : w # v =>
              /\ wpc'[w] = wpc[w] /\ wbatch'[w] = wbatch[w] /\ client'[w] = client[w]
              /\ wedge'[w] = wedge[w] /\ pend'[w] = pend[w] /\ down'[w] = down[w]
<1> USE DEF master, worker, inputs, Handle, TypeOK
<1>1. CASE WorkerPoll(v) \/ WorkerTurn(v)
  BY <1>1 DEF WorkerPoll, WorkerTurn
<1>2. CASE WorkerSignal(v)
  <2>1. Master # v
    BY DEF PoolAssumption
  <2> QED
    BY <1>2, <2>1 DEF WorkerSignal, Procs
<1>3. CASE WorkerExit(v)
  BY <1>3 DEF WorkerExit
<1>4. ASSUME NEW c \in Clients, WorkerReceive(v, c) \/ WorkerReceiveFails(v, c)
      PROVE  /\ UNCHANGED <<mpc, mbatch, list, queue, pend, up, medge>>
             /\ wpc[v] # "gone"
             /\ \A w \in Workers : w # v =>
                  /\ wpc'[w] = wpc[w] /\ wbatch'[w] = wbatch[w] /\ client'[w] = client[w]
                  /\ wedge'[w] = wedge[w] /\ down'[w] = down[w]
  BY <1>4 DEF WorkerReceive, WorkerReceiveFails
<1>5. ASSUME NEW c \in Clients, WorkerCommand(v, c)
      PROVE  /\ UNCHANGED <<mpc, mbatch, list, queue, pend, up, medge>>
             /\ wpc[v] # "gone"
             /\ \A w \in Workers : w # v =>
                  /\ wpc'[w] = wpc[w] /\ wbatch'[w] = wbatch[w] /\ client'[w] = client[w]
                  /\ wedge'[w] = wedge[w] /\ down'[w] = down[w]
  BY <1>5 DEF WorkerCommand
<1>6. ASSUME NEW c \in Clients, WorkerRelease(v, c)
      PROVE  /\ UNCHANGED <<mpc, mbatch, list, queue, pend>>
             /\ up' = [up EXCEPT ![v] = @ + 1] /\ (mpc \in Ended \/ v \in medge') /\ medge \subseteq medge'
             /\ wpc[v] # "gone"
             /\ \A w \in Workers : w # v =>
                  /\ wpc'[w] = wpc[w] /\ wbatch'[w] = wbatch[w] /\ client'[w] = client[w]
                  /\ wedge'[w] = wedge[w] /\ down'[w] = down[w]
  BY <1>6 DEF WorkerRelease, Notify
<1> QED
  BY <1>1, <1>2, <1>3, <1>4, <1>5, <1>6 DEF WorkerStep

\* A worker's steps do not touch the events of another one.
LEMMA OtherWorker ==
  ASSUME PoolAssumption, SInv, NEW v \in Workers, WorkerStep(v), NEW w \in Workers, v # w
  PROVE  WorkerEvents(w)'
<1> USE DEF master, worker, inputs, Handle
<1>1. TypeOK /\ WorkerEvents(w) /\ w \in Procs /\ v \in Procs
  BY DEF SInv, PInv, Procs
<1>2. /\ wpc'[w] = wpc[w] /\ wbatch'[w] = wbatch[w] /\ client'[w] = client[w]
      /\ wedge'[w] = wedge[w] /\ pend'[w] = pend[w] /\ down'[w] = down[w]
  BY <1>1, WorkerTouches
<1>3. ASSUME NEW C, client[w] \notin C, CloseAll(C)
      PROVE  WorkerEvents(w)'
  <2>1. \A c \in Clients : client[w] = c /\ (unread[c] # "none" \/ fin[c]) =>
                              unread'[c] # "none" \/ fin'[c]
    BY <1>1, <1>3, ClosedForOthers
  <2> QED
    BY <1>1, <1>2, <2>1, WorkerKept
<1>4. ASSUME UNCHANGED inputs
      PROVE  WorkerEvents(w)'
  BY <1>1, <1>2, <1>4, WorkerKept
<1>5. CASE WorkerExit(v)
  <2>1. client[w] # client[v] \/ client[w] = None
    BY <1>1, NotAnothers DEF TypeOK
  <2>2. CASE client[v] = None /\ client[w] = None
    <3>1. \A c \in Clients : client[w] # c
      BY <2>2 DEF PoolAssumption
    <3> QED
      BY <1>1, <1>2, <3>1, WorkerKept
  <2> QED
    BY <1>3, <1>5, <2>1, <2>2 DEF WorkerExit
<1>6. ASSUME NEW c \in Clients, WorkerReceiveFails(v, c) \/ WorkerRelease(v, c)
      PROVE  WorkerEvents(w)'
  <2>1. client[w] \notin {c}
    BY <1>6, NotAnothers DEF WorkerReceiveFails, WorkerRelease
  <2> QED
    BY <1>3, <1>6, <2>1 DEF WorkerReceiveFails, WorkerRelease
<1>7. ASSUME NEW c \in Clients, WorkerCommand(v, c)
      PROVE  WorkerEvents(w)'
  <2>1. client[w] # c
    BY <1>7, NotAnothers DEF WorkerCommand
  <2>2. \A d \in Clients : d # c => unread'[d] = unread[d] /\ fin'[d] = fin[d]
    BY <1>1, <1>7 DEF WorkerCommand, TypeOK
  <2> QED
    BY <1>1, <1>2, <2>1, <2>2, WorkerKept
<1>8. CASE WorkerPoll(v) \/ WorkerSignal(v) \/ WorkerTurn(v) \/ \E c \in Clients : WorkerReceive(v, c)
  BY <1>4, <1>8 DEF WorkerPoll, WorkerSignal, WorkerTurn, WorkerReceive
<1> QED
  BY <1>5, <1>6, <1>7, <1>8 DEF WorkerStep

\* A worker's own steps: what it reads once was all there is to read.
LEMMA OwnEvents ==
  ASSUME PoolAssumption, SInv, NEW w \in Workers, WorkerStep(w)
  PROVE  WorkerEvents(w)'
<1> USE DEF master, worker, inputs, Handle
<1>1. TypeOK /\ Token /\ WorkerEvents(w) /\ w \in Procs
  BY DEF SInv, PInv, Procs
<1>2. CASE WorkerPoll(w)
  <2>1. /\ wpc'[w] = "batch" /\ wbatch'[w] = wedge[w] \cap WorkerReadable(w)
        /\ wpc[w] = "wait" /\ UNCHANGED <<client, down, pend, inputs>>
    BY <1>1, <1>2 DEF WorkerPoll, TypeOK
  <2>2. WorkerReadable(w)' = WorkerReadable(w)
    BY <2>1 DEF WorkerReadable
  <2>3. /\ down[w] # <<>> => "pass" \in WorkerReadable(w)
        /\ "int" \in pend[w] => "signal" \in WorkerReadable(w)
    BY DEF WorkerReadable
  <2> QED
    BY <1>1, <2>1, <2>2, <2>3 DEF WorkerEvents, Alive
<1>3. CASE WorkerTurn(w) \/ WorkerExit(w)
  <2>1. wbatch'[w] = {} /\ wpc'[w] \in {"wait", "gone"} /\ wpc[w] = "batch"
    BY <1>1, <1>3 DEF WorkerTurn, WorkerExit, TypeOK
  <2>2. wpc'[w] = "wait" => UNCHANGED <<wedge, wbatch, down, pend>>
    BY <1>1, <1>3 DEF WorkerTurn, WorkerExit, TypeOK
  <2> QED
    BY <1>1, <2>1, <2>2 DEF WorkerEvents, Alive
<1>4. ASSUME NEW e \in {"signal", "pass", "client"}, Handle(w, e)
      PROVE  /\ wpc[w] = "batch" /\ wpc'[w] = "batch" /\ wbatch'[w] = wbatch[w] \ {e}
             /\ wbatch[w] \subseteq WorkerReadable(w)
             /\ WorkerReadable(w) \ {e} \subseteq WorkerReadable(w)' =>
                  wbatch'[w] \subseteq WorkerReadable(w)'
  BY <1>1, <1>4 DEF TypeOK, WorkerEvents
<1>5. CASE WorkerSignal(w)
  <2>1. /\ pend'[w] = pend[w] \ {First(pend[w])}
        /\ UNCHANGED <<client, down, inputs, wedge>> /\ Handle(w, "signal")
    BY <1>1, <1>5 DEF WorkerSignal, TypeOK
  <2>2. "int" \notin pend'[w]
    BY <2>1 DEF First
  <2>3. WorkerReadable(w) \ {"signal"} \subseteq WorkerReadable(w)'
    BY <2>1 DEF WorkerReadable
  <2> QED
    BY <1>1, <1>4, <2>1, <2>2, <2>3 DEF WorkerEvents, Alive
<1>6. ASSUME NEW c \in Clients, WorkerReceive(w, c) \/ WorkerReceiveFails(w, c)
      PROVE  WorkerEvents(w)'
  <2>1. /\ Handle(w, "pass") /\ down[w] # <<>> /\ down'[w] = Tail(down[w])
        /\ pend' = pend /\ wedge[w] \ {"client"} \subseteq wedge'[w]
    BY <1>1, <1>6 DEF WorkerReceive, WorkerReceiveFails, TypeOK
  <2>2. down'[w] = <<>> /\ client[w] = None
    BY <1>1, <2>1, TakenLast DEF Token
  <2>3. WorkerReadable(w) \ {"pass"} \subseteq WorkerReadable(w)'
    BY <2>1, <2>2 DEF WorkerReadable, PoolAssumption
  <2>4. /\ wpc[w] = "batch" /\ wpc'[w] = "batch" /\ wbatch'[w] = wbatch[w] \ {"pass"}
        /\ wbatch'[w] \subseteq WorkerReadable(w)'
    BY <1>4, <2>1, <2>3
  <2>5. "int" \in pend'[w] => "signal" \in wedge'[w] \cup wbatch'[w]
    BY <1>1, <2>1, <2>4 DEF WorkerEvents, Alive
  <2> QED
    BY <2>2, <2>4, <2>5 DEF WorkerEvents
<1>7. ASSUME NEW c \in Clients, WorkerCommand(w, c) \/ WorkerRelease(w, c)
      PROVE  WorkerEvents(w)'
  <2>1. /\ Handle(w, "client") /\ UNCHANGED <<down, pend>>
        /\ wedge[w] \ {"client"} \subseteq wedge'[w]
    BY <1>1, <1>7 DEF WorkerCommand, WorkerRelease, TypeOK
  <2>2. WorkerReadable(w) \ {"client"} \subseteq WorkerReadable(w)'
    BY <2>1 DEF WorkerReadable
  <2> QED
    BY <1>1, <1>4, <2>1, <2>2 DEF WorkerEvents, Alive
<1> QED
  BY <1>2, <1>3, <1>5, <1>6, <1>7 DEF WorkerStep

-----------------------------------------------------------------------------
(* The events of the master.                                                *)

\* Steps of others bring events to the master and take none away.
LEMMA MasterKept ==
  ASSUME TypeOK, MasterEvents, UNCHANGED <<mpc, mbatch, list>>, medge \subseteq medge',
         pend[Master] \subseteq pend'[Master],
         "int" \in pend'[Master] => "int" \in pend[Master] \/ mpc \in Ended \/ "signal" \in medge',
         queue # <<>> => queue' # <<>>,
         \A w \in Workers :
           /\ up[w] > 0 => up'[w] > 0
           /\ up'[w] > 0 => up[w] > 0 \/ mpc \in Ended \/ w \in medge'
           /\ wpc[w] = "gone" => wpc'[w] = "gone"
  PROVE  MasterEvents'
<1>1. list \subseteq Workers
  BY DEF TypeOK
<1>2. MasterReadable \subseteq MasterReadable'
  BY <1>1 DEF MasterReadable
<1>3. mpc \in {"wait", "batch"} => mpc \notin Ended
  BY DEF Ended
<1> QED
  BY <1>2, <1>3 DEF MasterEvents

LEMMA OthersForMaster ==
  ASSUME PoolAssumption, SInv,
         Environment \/ (\E w \in Workers : WorkerStep(w)) \/ UNCHANGED vars
  PROVE  MasterEvents'
<1> USE DEF master, worker, inputs, Handle
<1>1. TypeOK /\ MasterEvents /\ Master \in Procs /\ Master \notin Workers
  BY DEF SInv, PInv, Procs, PoolAssumption
<1>2. \A w \in Workers : up[w] \in Nat
  BY <1>1 DEF TypeOK
<1>3. CASE UNCHANGED vars \/ \E c \in Clients : Send(c) \/ Close(c)
  BY <1>1, <1>3, MasterKept DEF Send, Close, vars
<1>4. ASSUME NEW c \in Clients, Connect(c)
      PROVE  MasterEvents'
  <2>1. queue' # <<>>
    <3>1. queue \in Seq(Clients) /\ queue' = Append(queue, c)
      BY <1>1, <1>4 DEF Connect, TypeOK
    <3>2. queue' \in Seq(Clients) /\ Len(queue') = Len(queue) + 1
      BY <3>1
    <3> QED
      BY <3>1, <3>2
  <2> QED
    BY <1>1, <1>4, <2>1, MasterKept DEF Connect
<1>5. ASSUME NEW group \in SignalGroups, NEW s \in Signals, Kill(group, s)
      PROVE  MasterEvents'
  <2>1. PICK hit :
          /\ pend' = [p \in Procs |-> IF p \in hit THEN pend[p] \cup {s} ELSE pend[p]]
          /\ medge' = IF Master \in hit THEN medge \cup {"signal"} ELSE medge
    BY <1>5 DEF Kill
  <2>2. /\ pend[Master] \subseteq pend'[Master] /\ medge \subseteq medge'
        /\ pend'[Master] = pend[Master] \/ "signal" \in medge'
    BY <1>1, <2>1
  <2>3. UNCHANGED <<master, worker, up, queue>>
    BY <1>5 DEF Kill
  <2> QED
    BY <1>1, <2>2, <2>3, MasterKept
<1>6. ASSUME NEW w \in Workers, WorkerStep(w)
      PROVE  MasterEvents'
  <2>1. /\ UNCHANGED <<mpc, mbatch, list, queue>> /\ pend'[Master] = pend[Master]
        /\ medge \subseteq medge'
        /\ \/ up' = up
           \/ up' = [up EXCEPT ![w] = @ + 1] /\ (mpc \in Ended \/ w \in medge')
        /\ \A v \in Workers : wpc[v] = "gone" => wpc'[v] = "gone"
    BY <1>1, <1>6, WorkerTouches
  <2>2. \A v \in Workers :
          /\ up[v] > 0 => up'[v] > 0
          /\ up'[v] > 0 => up[v] > 0 \/ mpc \in Ended \/ v \in medge'
          /\ wpc[v] = "gone" => wpc'[v] = "gone"
    <3>1. DOMAIN up = Workers
      BY <1>1 DEF TypeOK
    <3> QED
      BY <1>2, <2>1, <3>1
  <2>3. /\ UNCHANGED <<mpc, mbatch, list>> /\ medge \subseteq medge'
        /\ pend[Master] \subseteq pend'[Master]
    BY <2>1
  <2>4. /\ "int" \in pend'[Master] => "int" \in pend[Master] \/ mpc \in Ended \/ "signal" \in medge'
        /\ queue # <<>> => queue' # <<>>
    BY <2>1
  <2> QED
    BY <1>1, <2>2, <2>3, <2>4, MasterKept
<1> QED
  BY <1>3, <1>4, <1>5, <1>6 DEF Environment

\* The master's own steps.
LEMMA OwnForMaster ==
  ASSUME PoolAssumption, SInv, MasterStep
  PROVE  MasterEvents'
<1> USE DEF master, worker, inputs
<1>1. TypeOK /\ Token /\ MasterEvents /\ Listed /\ Master \in Procs
  BY DEF SInv, PInv, Procs
<1>2. /\ list \subseteq Workers /\ Master \notin Workers
      /\ "server" \notin Workers /\ "signal" \notin Workers
  BY <1>1 DEF PoolAssumption, TypeOK
<1>3. CASE MasterPoll
  <2>1. /\ mpc = "wait" /\ mpc' = "batch" /\ mbatch = {}
        /\ mbatch' = medge \cap MasterReadable
        /\ UNCHANGED <<list, up, wpc, pend, queue>>
    BY <1>1, <1>3 DEF MasterPoll, MasterEvents
  <2>2. MasterReadable' = MasterReadable
    BY <2>1 DEF MasterReadable
  <2>3. /\ \A w \in Workers : up[w] > 0 => w \in medge \cap MasterReadable
        /\ "int" \in pend[Master] => "signal" \in medge \cap MasterReadable
    BY <1>1, <2>1 DEF MasterEvents, MasterReadable
  <2> QED
    BY <1>1, <2>1, <2>2, <2>3 DEF MasterEvents
<1>4. CASE MasterTurn
  BY <1>1, <1>4 DEF MasterTurn, MasterEvents
<1>5. CASE MasterExit \/ \E w \in Workers : MasterReap(w) \/ \E c \in Clients : AcceptPipe(c, w)
  <2>1. mpc' \in {"done", "killed", "reap"}
    BY <1>5 DEF MasterExit, MasterReap, AcceptPipe
  <2> QED
    BY <2>1 DEF MasterEvents
<1>6. CASE MasterSignal
  <2>1. /\ mpc = "batch" /\ mpc' = "batch" /\ mbatch' = mbatch \ {"signal"}
        /\ pend'[Master] = pend[Master] \ {First(pend[Master])}
        /\ UNCHANGED <<list, medge, up, wpc, queue>>
    BY <1>1, <1>6 DEF MasterSignal, TypeOK
  <2>2. "int" \notin pend'[Master]
    BY <2>1 DEF First
  <2>3. MasterReadable \ {"signal"} \subseteq MasterReadable'
    BY <2>1 DEF MasterReadable
  <2> QED
    BY <1>1, <1>2, <2>1, <2>2, <2>3 DEF MasterEvents
<1>7. CASE AcceptFails \/ \E c \in Clients : AcceptRefuse(c) \/ \E w \in Workers : AcceptPass(c, w)
  <2>1. /\ mpc = "batch" /\ mpc' = "batch" /\ mbatch' = mbatch \ {"server"}
        /\ UNCHANGED <<list, medge, up, wpc, pend>>
    BY <1>7 DEF AcceptFails, AcceptRefuse, AcceptPass, Accept
  <2>2. MasterReadable \ {"server"} \subseteq MasterReadable'
    BY <2>1 DEF MasterReadable
  <2> QED
    BY <1>1, <1>2, <2>1, <2>2 DEF MasterEvents
<1>8. ASSUME NEW w \in Workers, MasterNotified(w)
      PROVE  MasterEvents'
  <2>1. /\ mpc = "batch" /\ mpc' = "batch" /\ mbatch' = mbatch \ {w}
        /\ up' = Notified(w)
        /\ UNCHANGED <<list, medge, wpc, pend, queue>>
    BY <1>8 DEF MasterNotified
  <2>2. up'[w] = 0 /\ \A v \in Workers : v # w => up'[v] = up[v]
    <3>1. up \in [Workers -> Nat] /\ up[w] <= 1
      BY <1>1 DEF TypeOK, Token
    <3> QED
      BY <2>1, <3>1 DEF Notified
  <2>3. MasterReadable \ {w} \subseteq MasterReadable'
    BY <1>2, <2>1, <2>2 DEF MasterReadable
  <2> QED
    BY <1>1, <1>2, <2>1, <2>2, <2>3 DEF MasterEvents
<1> QED
  BY <1>3, <1>4, <1>5, <1>6, <1>7, <1>8 DEF MasterStep

\* The list of workers is exact to the end.
LEMMA ListedStep ==
  ASSUME PoolAssumption, SInv, [Next]_vars
  PROVE  Listed'
<1> USE DEF master, worker, inputs, Handle
<1>1. TypeOK /\ Listed
  BY DEF SInv, PInv
<1>2. \A w \in Workers : wpc[w] = "gone" => wpc'[w] = "gone"
  <2>1. ASSUME NEW v \in Workers, WorkerStep(v)
        PROVE  \A w \in Workers : wpc[w] = "gone" => wpc'[w] = "gone"
    BY <1>1, <2>1, WorkerTouches
  <2>2. CASE MasterStep \/ Environment \/ UNCHANGED vars
    BY <2>2 DEF MasterStep, MasterPoll, AcceptFails, MasterSignal, MasterTurn, MasterExit,
       AcceptRefuse, AcceptPass, AcceptPipe, MasterNotified, MasterReap, Environment, Connect,
       Send, Close, Kill, vars
  <2> QED
    BY <2>1, <2>2 DEF Next
<1>3. CASE MasterExit
  BY <1>1, <1>2, <1>3 DEF MasterExit, Reaped, Listed, Alive
<1>4. ASSUME NEW w \in Workers, MasterReap(w)
      PROVE  Listed'
  BY <1>1, <1>2, <1>4 DEF MasterReap, Listed, Alive
<1>5. ASSUME list' = list, mpc' = "done" => mpc = "done"
      PROVE  Listed'
  BY <1>1, <1>2, <1>5 DEF Listed, Alive
<1>6. CASE MasterPoll \/ AcceptFails \/ MasterSignal \/ MasterTurn
           \/ (\E c \in Clients : AcceptRefuse(c) \/ \E w \in Workers : AcceptPass(c, w) \/ AcceptPipe(c, w))
           \/ \E w \in Workers : MasterNotified(w)
  BY <1>5, <1>6 DEF MasterPoll, AcceptFails, MasterSignal, MasterTurn, AcceptRefuse, AcceptPass,
     AcceptPipe, MasterNotified, Accept
<1>7. CASE Environment \/ UNCHANGED vars
  BY <1>5, <1>7 DEF Environment, Connect, Send, Close, Kill, vars
<1>8. CASE \E w \in Workers : WorkerStep(w)
  BY <1>1, <1>5, <1>8, WorkerTouches
<1> QED
  BY <1>3, <1>4, <1>6, <1>7, <1>8 DEF Next, MasterStep

-----------------------------------------------------------------------------
(* The theorems about events.                                               *)

\* Events, data and processes agree for any number of workers and connections: no
\* blocking read hangs, no passed connection, notification or SIGINT that an edge
\* announced is forgotten, and the master ends last (master_loop, worker_loop, wait_for_workers).
THEOREM EventsSound == Spec => []PoolSound
<1>1. ASSUME PoolAssumption, Init
      PROVE  SInv
  <2>1. PInv
    BY <1>1, PInvInit
  <2>2. OneWorker /\ Listed
    BY <1>1 DEF Init, MasterInit, PoolInit, WorkerInit, OneWorker, Listed, Owner
  <2>3. MasterEvents
    BY <1>1 DEF Init, MasterInit, PoolInit, MasterEvents, Procs
  <2>4. \A w \in Workers : WorkerEvents(w)
    BY <1>1 DEF Init, PoolInit, WorkerInit, WorkerEvents, Procs
  <2> QED
    BY <2>1, <2>2, <2>3, <2>4 DEF SInv
<1>2. ASSUME PoolAssumption, SInv, [Next]_vars
      PROVE  SInv'
  <2>1. PInv'
    BY <1>2, TypeStep, TokenStep, QueueStep DEF SInv, PInv
  <2>2. OneWorker'
    BY <1>2, OwnerStep, OneWorkerStep DEF SInv
  <2>3. Listed'
    BY <1>2, ListedStep
  <2>4. MasterEvents'
    BY <1>2, OwnForMaster, OthersForMaster DEF Next
  <2>5. ASSUME NEW w \in Workers
        PROVE  WorkerEvents(w)'
    BY <1>2, OthersEvents, OtherWorker, OwnEvents DEF Next
  <2> QED
    BY <2>1, <2>2, <2>3, <2>4, <2>5 DEF SInv
<1>3. SInv => PoolSound
  <2>1. ASSUME SInv
        PROVE  PoolSound
    <3>1. TypeOK /\ ReadsDoNotBlock
      BY <2>1 DEF SInv, PInv, ReadsDoNotBlock, MasterEvents, WorkerEvents
    <3>2. NoLostWakeup
      BY <2>1 DEF SInv, NoLostWakeup, MasterEvents, WorkerEvents
    <3>3. NoOrphans
      BY <2>1 DEF SInv, NoOrphans, Listed
    <3> QED
      BY <3>1, <3>2, <3>3 DEF PoolSound
  <2> QED
    BY <2>1
<1>4. PoolAssumption /\ Init => SInv
  BY <1>1
<1>5. PoolAssumption /\ SInv /\ [Next]_vars => SInv'
  BY <1>2
<1> QED
  BY <1>3, <1>4, <1>5, PoolAssumption, PTL DEF Spec

\* A worker that is noted as busy has a reason to be as long as no system call
\* fails: no place of the pool is lost (WorkerInfo::free, notify_free).
THEOREM NoPlaceLost ==
  ASSUME ~IoMayFail
  PROVE  Spec => []BusyHasReason
<1> USE DEF master, worker, inputs, Handle
<1>1. ASSUME PoolAssumption, Init
      PROVE  BusyHasReason
  BY <1>1 DEF Init, PoolInit, BusyHasReason
<1>2. ASSUME PoolAssumption, PInv, BusyHasReason, [Next]_vars
      PROVE  BusyHasReason'
  <2>1. TypeOK /\ Token
    BY <1>2 DEF PInv
  <2>2. ASSUME UNCHANGED <<free, client, down, up>>,
               \A w \in Workers : Alive(w)' => Alive(w)
        PROVE  BusyHasReason'
    BY <1>2, <2>2 DEF BusyHasReason, Idle
  <2>3. CASE \/ MasterPoll \/ AcceptFails \/ MasterSignal \/ MasterTurn \/ MasterExit
             \/ Environment \/ UNCHANGED vars
             \/ \E c \in Clients, w \in Workers : AcceptRefuse(c) \/ AcceptPipe(c, w)
             \/ \E w \in Workers : MasterReap(w)
    <3>1. UNCHANGED <<free, client, down, up, wpc>>
      BY <2>3 DEF MasterPoll, AcceptFails, MasterSignal, MasterTurn, MasterExit, AcceptRefuse,
         AcceptPipe, MasterReap, Environment, Connect, Send, Close, Kill, vars
    <3> QED
      BY <2>2, <3>1 DEF Alive
  <2>4. ASSUME NEW c \in Clients, AcceptRefuse(c)
        PROVE  BusyHasReason'
    BY <2>2, <2>4 DEF AcceptRefuse, Alive
  <2>5. ASSUME NEW c \in Clients, NEW w \in Workers, AcceptPass(c, w)
        PROVE  BusyHasReason'
    <3>1. /\ down' = [down EXCEPT ![w] = Append(@, c)] /\ free' = [free EXCEPT ![w] = FALSE]
          /\ UNCHANGED <<client, up, wpc>>
      BY <2>5 DEF AcceptPass, Busy
    <3>2. down'[w] # <<>> /\ \A v \in Workers : v # w => down'[v] = down[v] /\ free'[v] = free[v]
      <4>1. down[w] \in Seq(Clients) /\ DOMAIN down = Workers /\ DOMAIN free = Workers
        BY <2>1 DEF TypeOK
      <4> QED
        BY <3>1, <4>1, AppendProperties
    <3> QED
      BY <1>2, <3>1, <3>2 DEF BusyHasReason, Idle, Alive
  <2>6. ASSUME NEW w \in Workers, MasterNotified(w)
        PROVE  BusyHasReason'
    <3>1. /\ free' = [free EXCEPT ![w] = TRUE] /\ up' = Notified(w)
          /\ UNCHANGED <<client, down, wpc>>
      BY <2>6 DEF MasterNotified
    <3>2. free'[w] /\ \A v \in Workers : v # w => up'[v] = up[v] /\ free'[v] = free[v]
      BY <2>1, <3>1 DEF Notified, TypeOK
    <3> QED
      BY <1>2, <3>1, <3>2 DEF BusyHasReason, Idle, Alive
  <2>7. ASSUME NEW w \in Workers, WorkerStep(w)
        PROVE  BusyHasReason'
    <3>1. CASE \/ WorkerPoll(w) \/ WorkerSignal(w) \/ WorkerTurn(w)
               \/ \E c \in Clients : WorkerCommand(w, c)
      <4>1. UNCHANGED <<free, client, down, up>> /\ \A v \in Workers : Alive(v)' => Alive(v)
        BY <2>1, <3>1 DEF WorkerPoll, WorkerSignal, WorkerTurn, WorkerCommand, Alive, TypeOK
      <4> QED
        BY <2>2, <4>1
    <3>2. ASSUME ~Idle(w)' \/ ~Alive(w)', UNCHANGED free,
                 \A v \in Workers : v # w =>
                   client'[v] = client[v] /\ down'[v] = down[v] /\ up'[v] = up[v] /\ wpc'[v] = wpc[v]
          PROVE  BusyHasReason'
      BY <1>2, <3>2 DEF BusyHasReason, Idle, Alive
    <3>3. CASE WorkerExit(w)
      BY <2>1, <3>2, <3>3 DEF WorkerExit, Alive, TypeOK
    <3>4. ASSUME NEW c \in Clients, WorkerReceive(w, c)
          PROVE  BusyHasReason'
      <4>1. c # None
        BY <1>2 DEF PoolAssumption
      <4> QED
        BY <2>1, <3>2, <3>4, <4>1 DEF WorkerReceive, Idle, TypeOK
    <3>5. ASSUME NEW c \in Clients, WorkerRelease(w, c)
          PROVE  BusyHasReason'
      <4>1. up'[w] # 0
        BY <2>1, <3>5 DEF WorkerRelease, Notify, TypeOK
      <4> QED
        BY <2>1, <3>2, <3>5, <4>1 DEF WorkerRelease, Notify, Idle, TypeOK
    <3> QED
      BY <2>7, <3>1, <3>3, <3>4, <3>5 DEF WorkerStep, WorkerReceiveFails
  <2> QED
    BY <1>2, <2>3, <2>4, <2>5, <2>6, <2>7 DEF Next, MasterStep
<1>3. PoolAssumption /\ Init => BusyHasReason
  BY <1>1
<1>4. PoolAssumption /\ PInv /\ BusyHasReason /\ [Next]_vars => BusyHasReason'
  BY <1>2
<1> QED
  BY <1>3, <1>4, Invariance, PoolAssumption, PTL DEF Spec
=============================================================================
