-------------------------------- MODULE Proxy --------------------------------
(***************************************************************************)
(* The TCP proxy of src/p3: a port listener, its sessions and the completion *)
(* handlers that asio runs for them in one thread.  An operation waits in the *)
(* reactor until the kernel has a result for it, and then its handler waits  *)
(* in the queue of the io_service; in between other handlers may have closed  *)
(* the socket.  A direction of a session is named by the side whose bytes it  *)
(* carries.                                                                  *)
(***************************************************************************)
EXTENDS Integers, Sequences, FiniteSets, SequencesExt

CONSTANTS
  MaxClients,  \* bound: the clients that come
  MaxBytes,    \* bound: the bytes that a side of a session writes
  BufferSize,  \* BUFFER_SIZE
  Faults       \* what may go wrong outside of the proxy

ASSUME ProxyAssumption ==
  /\ MaxClients \in Nat /\ MaxBytes \in Nat
  /\ BufferSize \in Nat \ {0}
  /\ Faults \subseteq {"accept", "refused", "unreachable", "reset", "partial"}

Side == {"client", "server"}
Other(x) == IF x = "client" THEN "server" ELSE "client"

\* There is always one session more than clients: the one to be accepted next.
Session == 1 .. MaxClients + 1

VARIABLES
  alive,      \* no handler has thrown: an exception leaves io_service.run and main
  sessions,   \* _sessions of the listener
  over,       \* the sessions with _is_to_be_terminated
  connected,  \* [session -> the sides with _client_is_connected, _server_is_connected]
  opened,     \* [session -> the sides whose socket has a descriptor]
  buffer,     \* [session -> [side -> _client_read_buffer, _server_read_buffer]]
  waiting,    \* the operations in the reactor
  ready,      \* the queue of completed operations, whose handlers are to run
  peer,       \* [session -> [side -> the state of the connection at its far end]]
  sent,       \* [session -> [side -> the bytes its far end has written]]
  taken,      \* [session -> [side -> how many of them have been received]]
  got,        \* [session -> [side -> the bytes of it that went out at the other side]]
  cut         \* history: [session -> [side -> how many the kernel left of its sends]]

proxy == <<alive, sessions, over, connected, opened>>
queues == <<waiting, ready>>
far == <<peer, sent>>
data == <<buffer, taken, got, cut>>
vars == <<proxy, queues, far, data>>

-----------------------------------------------------------------------------
(* Operations.                                                              *)

Op(a, s, x, n) == [act |-> a, s |-> s, from |-> x, n |-> n]

Accept(s) == Op("accept", s, "client", 0)
Connect(s) == Op("connect", s, "server", 0)
Receive(s, x) == Op("receive", s, x, 0)
Send(s, x, n) == Op("send", s, x, n)

\* The socket an operation is for, and the result of an operation.
SocketOf(o) == IF o.act = "send" THEN Other(o.from) ELSE o.from
Result(o, res, n) == [op |-> o, res |-> res, n |-> n]

\* What is in front of the queue, and runs next.
Handler == Head(ready)
Runs(acts, results) ==
  /\ alive /\ ready # <<>>
  /\ Handler.op.act \in acts /\ Handler.res \in results

\* The handler starts the operations O and returns.  One on a socket without a
\* descriptor completes at once, with bad_descriptor.
Start(O) ==
  LET valid == {o \in O : o.act = "accept" \/ SocketOf(o) \in opened'[o.s]}
  IN
  /\ waiting' = waiting \cup valid
  /\ ready' = Tail(ready) \o SetToSeq({Result(o, "other", 0) : o \in O \ valid})

\* An exception in the handler ends the process.
Throw == alive' = FALSE /\ UNCHANGED <<sessions, over, connected, opened, queues, far, data>>

Init ==
  /\ alive = TRUE
  /\ sessions = {} /\ over = {}
  /\ connected = [s \in Session |-> {}]
  /\ opened = [s \in Session |-> {}]
  /\ buffer = [s \in Session |-> [x \in Side |-> [i \in 1 .. BufferSize |-> 0]]]
  /\ waiting = {Accept(1)} /\ ready = <<>>
  /\ peer = [s \in Session |-> [x \in Side |-> "none"]]
  /\ sent = [s \in Session |-> [x \in Side |-> 0]]
  /\ taken = [s \in Session |-> [x \in Side |-> 0]]
  /\ got = [s \in Session |-> [x \in Side |-> <<>>]]
  /\ cut = [s \in Session |-> [x \in Side |-> 0]]

-----------------------------------------------------------------------------
(* The kernel and the far ends.                                             *)

Complete(o, res, n) ==
  /\ waiting' = waiting \ {o}
  /\ ready' = Append(ready, Result(o, res, n))

\* A client comes; the server answers, or does not.
Accepted(o) ==
  /\ o.act = "accept" /\ o.s <= MaxClients
  /\ Complete(o, "ok", 0)
  /\ peer' = [peer EXCEPT ![o.s]["client"] = "open"]
  /\ UNCHANGED <<proxy, sent, data>>

AcceptFails(o) ==
  /\ o.act = "accept" /\ "accept" \in Faults
  /\ Complete(o, "other", 0)
  /\ UNCHANGED <<proxy, far, data>>

Connected(o) ==
  /\ o.act = "connect"
  /\ Complete(o, "ok", 0)
  /\ peer' = [peer EXCEPT ![o.s]["server"] = "open"]
  /\ UNCHANGED <<proxy, sent, data>>

ConnectFails(o) ==
  /\ o.act = "connect"
  /\ \/ "refused" \in Faults /\ Complete(o, "refused", 0)
     \/ "unreachable" \in Faults /\ Complete(o, "other", 0)
  /\ UNCHANGED <<proxy, far, data>>

\* Seeded bug: the size of the buffer is not given.
Fits_Any(n) == n

\* How many of n bytes that are there one receive takes.
Fits(n) == IF n < BufferSize THEN n ELSE BufferSize

\* What has arrived goes to the buffer of its side.
Received(o) ==
  LET t == taken[o.s][o.from]
      n == Fits(sent[o.s][o.from] - t)
  IN
  /\ o.act = "receive" /\ n > 0
  /\ buffer' = [buffer EXCEPT ![o.s][o.from] = [i \in 1 .. BufferSize |-> IF i <= n THEN t + i ELSE @[i]]]
  /\ taken' = [taken EXCEPT ![o.s][o.from] = t + n]
  /\ Complete(o, "ok", n)
  /\ UNCHANGED <<proxy, far, got, cut>>

\* After the last byte: the end.  A reset is reported once, by either
\* operation; then a receive finds the end.
ReceiveEnds(o) ==
  /\ o.act = "receive"
  /\ sent[o.s][o.from] = taken[o.s][o.from]
  /\ \/ peer[o.s][o.from] \in {"fin", "reset"} /\ Complete(o, "eof", 0)
     \/ peer[o.s][o.from] = "reset" /\ Complete(o, "reset", 0)
  /\ UNCHANGED <<proxy, far, data>>

\* Seeded bug: the buffer of the other side is sent.
BufferOf_Other(o) == buffer[o.s][Other(o.from)]

\* The buffer that a send takes its bytes from.
BufferOf(o) == buffer[o.s][o.from]

\* The kernel takes the bytes of a send, or the first of them.
Sent(o) ==
  /\ o.act = "send"
  /\ peer[o.s][SocketOf(o)] \in {"open", "fin"}
  /\ \E k \in (IF "partial" \in Faults THEN 1 .. o.n ELSE {o.n}) :
       /\ got' = [got EXCEPT ![o.s][o.from] = @ \o SubSeq(BufferOf(o), 1, k)]
       /\ cut' = [cut EXCEPT ![o.s][o.from] = @ + (o.n - k)]
       /\ Complete(o, "ok", k)
  /\ UNCHANGED <<proxy, far, buffer, taken>>

\* The far end has reset the connection; when that is known, the pipe is broken.
SendFails(o) ==
  /\ o.act = "send"
  /\ peer[o.s][SocketOf(o)] = "reset"
  /\ \E res \in {"reset", "other"} : Complete(o, res, 0)
  /\ UNCHANGED <<proxy, far, data>>

FarWrites(s, x) ==
  /\ peer[s][x] = "open" /\ s \notin over
  /\ sent[s][x] < MaxBytes
  /\ sent' = [sent EXCEPT ![s][x] = @ + 1]
  /\ UNCHANGED <<proxy, queues, peer, data>>

\* No more bytes will come from x.
FarEnds(s, x) ==
  /\ peer[s][x] = "open" /\ s \notin over
  /\ peer' = [peer EXCEPT ![s][x] = "fin"]
  /\ UNCHANGED <<proxy, queues, sent, data>>

FarResets(s, x) ==
  /\ "reset" \in Faults
  /\ peer[s][x] \in {"open", "fin"} /\ s \notin over
  /\ peer' = [peer EXCEPT ![s][x] = "reset"]
  /\ UNCHANGED <<proxy, queues, sent, data>>

-----------------------------------------------------------------------------
(* The handlers.                                                            *)

\* PortListener::handle_accept and client_start.
HandleAccept ==
  LET s == Handler.op.s IN
  /\ Runs({"accept"}, {"ok"})
  /\ sessions' = sessions \cup {s}
  /\ connected' = [connected EXCEPT ![s] = {"client"}]
  /\ opened' = [opened EXCEPT ![s] = {"client", "server"}]
  /\ Start({Connect(s), Accept(s + 1)})
  /\ UNCHANGED <<alive, over, far, data>>

HandleServerConnect ==
  LET s == Handler.op.s IN
  /\ Runs({"connect"}, {"ok"})
  /\ connected' = [connected EXCEPT ![s] = @ \cup {"server"}]
  /\ UNCHANGED opened
  /\ Start({Receive(s, "client"), Receive(s, "server")})
  /\ UNCHANGED <<alive, sessions, over, far, data>>

\* Seeded bugs: the next bytes are waited for while the last are being sent; the
\* last place of the buffer is not sent; nothing more is received.
Forward_AndGoOn(s, x, n) == {Send(s, x, n), Receive(s, x)}
Forward_ButLast(s, x, n) == {Send(s, x, IF n < BufferSize THEN n ELSE n - 1)}
Again_Not(s, x) == {}

\* What a direction does with n bytes, and after they have gone.
Forward(s, x, n) == {Send(s, x, n)}
Again(s, x) == {Receive(s, x)}

\* handle_receive_from_client, handle_receive_from_server with bytes.
HandleReceive ==
  /\ Runs({"receive"}, {"ok"})
  /\ UNCHANGED opened
  /\ Start(Forward(Handler.op.s, Handler.op.from, Handler.n))
  /\ UNCHANGED <<alive, sessions, over, connected, far, data>>

\* handle_send_to_server, handle_send_to_client.
HandleSend ==
  /\ Runs({"send"}, {"ok"})
  /\ UNCHANGED opened
  /\ Start(Again(Handler.op.s, Handler.op.from))
  /\ UNCHANGED <<alive, sessions, over, connected, far, data>>

\* Seeded bug: only the socket of the client is closed.
Closing_Client(s) == connected[s] \cap {"client"}

\* The sockets that termination_routine closes, and handle_session_close.
Closing(s) == connected[s]
Unlisted(s) == IF s \in over THEN sessions ELSE sessions \ {s}

\* termination_routine: shutdown throws where the connection is already gone.
\* What waits on a socket that is closed is aborted.
Terminate(s) ==
  LET aborted == {o \in waiting : o.s = s /\ SocketOf(o) \in Closing(s)}
  IN
  IF \E x \in connected[s] : peer[s][x] = "reset" THEN Throw ELSE
    /\ sessions' = Unlisted(s)
    /\ over' = over \cup {s}
    /\ opened' = [opened EXCEPT ![s] = @ \ Closing(s)]
    /\ connected' = [connected EXCEPT ![s] = {}]
    /\ waiting' = waiting \ aborted
    /\ ready' = Tail(ready) \o SetToSeq({Result(o, "aborted", 0) : o \in aborted})
    /\ UNCHANGED <<alive, far, data>>

\* The end of a connection, or a server that refuses it.
HandleEnd ==
  /\ Runs({"connect"}, {"refused"}) \/ Runs({"receive", "send"}, {"eof", "reset"})
  /\ Terminate(Handler.op.s)

\* Seeded bugs: an aborted operation counts as an error; the end of a connection
\* does not count.
Harmless_None == {}
Harmless_End == {"aborted", "eof"}

\* The errors that the handlers say nothing of.
Harmless == {"aborted"}

HandleAborted ==
  /\ Runs({"accept", "connect", "receive", "send"}, Harmless)
  /\ ready' = Tail(ready)
  /\ UNCHANGED <<proxy, waiting, far, data>>

\* Everything else is thrown.
HandleUnexpected ==
  /\ Runs({"accept", "connect", "receive", "send"}, {"other", "aborted"} \ Harmless)
  /\ Throw

-----------------------------------------------------------------------------

Handle ==
  \/ HandleAccept \/ HandleServerConnect \/ HandleReceive \/ HandleSend
  \/ HandleEnd \/ HandleAborted \/ HandleUnexpected

\* What the far ends owe the proxy: they answer, and take what it sends.
Serve == \E o \in waiting :
  Connected(o) \/ Received(o) \/ ReceiveEnds(o) \/ Sent(o) \/ SendFails(o)

Arrive == \E o \in waiting : Accepted(o) \/ AcceptFails(o) \/ ConnectFails(o)

Far == \E s \in Session, x \in Side : FarWrites(s, x) \/ FarEnds(s, x) \/ FarResets(s, x)

\* When the process has ended its sockets are gone, and nobody is served.
Next == Handle \/ (alive /\ (Serve \/ Arrive \/ Far))

Spec == Init /\ [][Next]_vars

\* The io_service runs what is ready, and each operation whose result is there
\* completes.
FairSpec ==
  /\ Spec
  /\ WF_vars(Handle)
  /\ WF_vars(alive /\ Serve)

-----------------------------------------------------------------------------
(* Properties.                                                              *)

Ops ==
  [act : {"accept", "connect", "receive", "send"}, s : Session, from : Side, n : 0 .. BufferSize]
Results ==
  [op : Ops, res : {"ok", "eof", "reset", "refused", "aborted", "other"}, n : 0 .. BufferSize]

TypeOK ==
  /\ alive \in BOOLEAN
  /\ sessions \subseteq Session /\ over \subseteq Session
  /\ connected \in [Session -> SUBSET Side]
  /\ opened \in [Session -> SUBSET Side]
  /\ buffer \in [Session -> [Side -> [1 .. BufferSize -> 0 .. MaxBytes]]]
  /\ waiting \subseteq Ops /\ ready \in Seq(Results)
  /\ peer \in [Session -> [Side -> {"none", "open", "fin", "reset"}]]
  /\ sent \in [Session -> [Side -> 0 .. MaxBytes]]
  /\ taken \in [Session -> [Side -> 0 .. MaxBytes]]
  /\ got \in [Session -> [Side -> Seq(1 .. MaxBytes)]] /\ cut \in [Session -> [Side -> Nat]]

\* The operations of O that are in the reactor or have their handler in the queue.
Pending(O) ==
  Cardinality(waiting \cap O) + Cardinality({i \in 1 .. Len(ready) : ready[i].op \in O})
In(s, x) == {o \in Ops : o.s = s /\ o.from = x /\ o.act \in {"receive", "send"}}

\* The callbacks of a session keep it going and do not get in each other's way:
\* while a session lives each direction has exactly one operation under way, so
\* its buffer is not written while it is being sent and the direction does not
\* stall; a session that is over has at most its last handler left; and there is
\* always exactly one session that waits for a client (session.cpp,
\* PortListener::handle_accept).
OneOperation ==
  /\ Pending({o \in Ops : o.act = "accept"}) = 1
  /\ \A s \in Session :
       /\ Pending({o \in Ops : o.act = "connect" /\ o.s = s})
            = (IF s \in sessions /\ "server" \notin connected[s] THEN 1 ELSE 0)
       /\ \A x \in Side :
            /\ connected[s] = Side => Pending(In(s, x)) = 1
            /\ s \in over => Pending(In(s, x)) <= 1
            /\ connected[s] # Side /\ s \notin over => Pending(In(s, x)) = 0

\* A session that is over leaves nothing behind: the listener has no pointer to
\* it, both sockets are closed and nothing waits on them, so that its last
\* handler frees it.  (Where the server refused, its socket has a descriptor
\* until then.)  And no session leaves the list before it is over.
NoLeak ==
  \A s \in Session :
    /\ s \in over => /\ s \notin sessions
                     /\ connected[s] = {}
                     /\ opened[s] \subseteq {"server"}
                     /\ opened[s] # {} => peer[s]["server"] = "none"
                     /\ \A o \in waiting : o.s # s
    /\ s \in sessions <=> connected[s] # {}

\* Operations, sessions and sockets agree at every moment.
SessionsSound == TypeOK /\ OneOperation /\ NoLeak

\* What can kill the proxy, with all its sessions: an error that the handlers do
\* not name; the end of a connection that was reset (shutdown throws); and one
\* end closing where bytes of the other end have come, when a handler of theirs
\* uses a closed socket.  A session that ends before the other direction has
\* carried anything never does, however its handlers are ordered: operation_aborted is
\* ignored (termination_routine, the last branch of the handlers).
DiesForAReason ==
  ~alive =>
    LET o == Handler.op IN
    \/ o.act \in {"accept", "connect"}
    \/ \E x \in Side : peer[o.s][x] = "reset"
    \/ /\ o.s \in over
       /\ peer[o.s][Other(o.from)] = "fin"
       /\ taken[o.s][o.from] > 0

\* The proxy is two pipes per session: bytes come out in order, none twice, none
\* of another session or direction, and none after the session is over; all of
\* them, unless the kernel takes only a part of a send, whose rest is lost
\* (receive and send of session.cpp).
P == INSTANCE Pipes WITH
       Whole <- "partial" \notin Faults,
       stage <- [s \in Session |-> IF s \in over THEN "over"
                                  ELSE IF "server" \in connected[s] THEN "open" ELSE "new"]
Forwards == P!Spec

\* As many bytes as one side has written come out at the other, but for what the
\* kernel leaves of partial sends, which no later send makes good (send_to_client,
\* send_to_server) - or the session or the proxy ends.  With Forwards, they are the
\* same bytes.
BytesArrive ==
  \A s \in 1 .. MaxClients, x \in Side, n \in 1 .. MaxBytes :
    sent[s][x] >= n ~> Len(got[s][x]) + cut[s][x] >= n \/ s \in over \/ ~alive

\* When one end closes its connection the session comes to its end.
EndIsHeard ==
  \A s \in 1 .. MaxClients, x \in Side : peer[s][x] = "fin" ~> s \in over \/ ~alive
=============================================================================
