----------------------------- MODULE WordsServer -----------------------------
(***************************************************************************)
(* The words server (src/p7): the main thread goes round a loop over edge-   *)
(* triggered epoll_wait, accepts clients, reads their requests, starts a     *)
(* thread for each, waits for all the threads and looks whether the file     *)
(* of the dictionary has changed.  A thread answers on the descriptor that   *)
(* its request came from, whoever has it by then.                            *)
(***************************************************************************)
EXTENDS WordsQuery

CONSTANTS
  Clients,   \* the connections, each opened at most once
  Fds,       \* the descriptors for connections, at least one per client
  Contents,  \* what the file may hold, with NoFile when it may be removed
  NoFile,    \* the file is not there
  Asked,     \* what the clients ask for
  MaxMessage,  \* MAX_MESSAGE_SIZE, in lines: how many one recv takes
  MaxLines,  \* bound: how many lines each client sends
  MaxTime    \* bound on time(NULL), in seconds since the constructor

NoFd == 0

\* What a file that is there may hold.
Files == Contents \ {NoFile}

ASSUME WordsAssumption ==
  /\ Fds \subseteq Nat \ {NoFd}
  /\ IsFiniteSet(Fds) /\ IsFiniteSet(Clients) /\ Cardinality(Fds) >= Cardinality(Clients)
  /\ Files # {}
  /\ Files \subseteq Seq(Seq(Nat)) /\ Asked \subseteq Seq(Nat)
  /\ "server" \notin Clients
  /\ MaxMessage \in Nat \ {0} /\ MaxLines \in [Clients -> Nat]
  /\ MaxTime \in Nat \ {0}

VARIABLES
  \* the main thread
  alive,     \* whether the process is
  mpc,       \* "wait", "batch", "stat", "read" or "stamp"
  batch,     \* events still to be handled: "server" or a client
  edge,      \* descriptors with a new event
  last,      \* _last_words_check_time
  dict,      \* _words_dict
  \* the other threads
  thread,    \* [client -> the descriptor its request is answered on, or NoFd]
  \* the world
  file,      \* what the file holds
  mtime,     \* its time of modification
  now,       \* time(NULL)
  conn,      \* [client -> "new", "queued", "open" or "closed"]
  fd,        \* [client -> the server's descriptor for it, or NoFd]
  queue,     \* clients to be accepted
  lines,     \* [client -> how many lines of it are there to be read]
  part,      \* [client -> and behind them the beginning of one more]
  fin,       \* [client -> the end of the stream is there to be read]
  \* history and ghosts
  asked,     \* [client -> the lines that it has sent]
  answers,   \* [client -> the answers that it has got]
  mixed,     \* clients of whom one recv did not take exactly one line
  unended,   \* clients whose last request had no end of line
  readAt,    \* when the dictionary was read last
  stampAt    \* and when that was noted

loop    == <<mpc, batch, edge>>
words   == <<last, dict, readAt, stampAt>>
disk    == <<file, mtime, now>>
stream  == <<lines, part, fin>>
clients == <<conn, fd, queue, stream>>
history == <<asked, answers, mixed, unended>>
vars    == <<alive, loop, words, thread, disk, clients, history>>

\* The constructor has read the file, a second ago, and listens.
Init ==
  /\ alive = TRUE /\ mpc = "wait" /\ batch = {} /\ edge = {}
  /\ file \in Files /\ mtime = 0 /\ now = 1
  /\ dict = DictOf(file) /\ last = 0 /\ readAt = 0 /\ stampAt = 0
  /\ thread = [c \in Clients |-> NoFd]
  /\ conn = [c \in Clients |-> "new"]
  /\ fd = [c \in Clients |-> NoFd]
  /\ queue = <<>>
  /\ lines = [c \in Clients |-> 0]
  /\ part = [c \in Clients |-> FALSE]
  /\ fin = [c \in Clients |-> FALSE]
  /\ asked = [c \in Clients |-> 0]
  /\ answers = [c \in Clients |-> 0]
  /\ mixed = {} /\ unended = {}

-----------------------------------------------------------------------------
(* The clients, the file and the clock.                                     *)

Connect(c) ==
  /\ conn[c] = "new"
  /\ conn' = [conn EXCEPT ![c] = "queued"]
  /\ queue' = Append(queue, c)
  /\ edge' = edge \cup {"server"}
  /\ UNCHANGED <<alive, mpc, batch, words, thread, disk, fd, stream, history>>

\* Something arrives: an edge, if the server watches the connection.
Arrive(c) == edge' = IF conn[c] = "open" THEN edge \cup {c} ELSE edge

Usable(c) == conn[c] \in {"queued", "open"} /\ ~fin[c]

\* A client sends a line, or what its last one lacked, whether it has the answer to
\* the one before or not.
Ask(c) ==
  /\ Usable(c) /\ asked[c] < MaxLines[c]
  /\ lines' = [lines EXCEPT ![c] = @ + 1]
  /\ part' = [part EXCEPT ![c] = FALSE]
  /\ asked' = [asked EXCEPT ![c] = @ + 1]
  /\ Arrive(c)
  /\ UNCHANGED <<alive, mpc, batch, words, thread, disk, conn, fd, queue, fin, answers, mixed, unended>>

\* A client sends a line without its end.
AskInPart(c) ==
  /\ Usable(c) /\ asked[c] < MaxLines[c]
  /\ part' = [part EXCEPT ![c] = TRUE]
  /\ Arrive(c)
  /\ UNCHANGED <<alive, mpc, batch, words, thread, disk, conn, fd, queue, lines, fin, history>>

Close(c) ==
  /\ Usable(c)
  /\ fin' = [fin EXCEPT ![c] = TRUE]
  /\ Arrive(c)
  /\ UNCHANGED <<alive, mpc, batch, words, thread, disk, conn, fd, queue, lines, part, history>>

\* The file is written, with the time, or removed.
Write ==
  /\ file' \in Contents \ {file}
  /\ mtime' = IF file' = NoFile THEN mtime ELSE now
  /\ UNCHANGED <<alive, loop, words, thread, now, clients, history>>

Tick ==
  /\ now < MaxTime
  /\ now' = now + 1
  /\ UNCHANGED <<alive, loop, words, thread, file, mtime, clients, history>>

-----------------------------------------------------------------------------
(* main_thread_loop.                                                        *)

Unread(c) == lines[c] > 0 \/ part[c]

Readable ==
  {e \in {"server"} : queue # <<>>}
  \cup {c \in Clients : conn[c] = "open" /\ (Unread(c) \/ fin[c])}

\* epoll_wait reports events, or its time (FILE_CHECK_PERIOD_MSEC) is over.
Poll ==
  /\ alive /\ mpc = "wait"
  /\ mpc' = "batch"
  /\ batch' = edge \cap Readable
  /\ edge' = {}
  /\ UNCHANGED <<alive, words, thread, disk, clients, history>>

Handle(e) ==
  /\ alive /\ mpc = "batch" /\ e \in batch
  /\ batch' = batch \ {e}
  /\ UNCHANGED <<alive, mpc, words, disk>>

\* The lowest descriptor that is not in use.
FreeFds == Fds \ {fd[c] : c \in Clients}
NextFd == CHOOSE f \in FreeFds : \A g \in FreeFds : f <= g

\* accept_client: what the connection already holds is an event.
AcceptClient ==
  /\ Handle("server")
  /\ queue # <<>>
  /\ LET c == Head(queue) IN
       /\ conn' = [conn EXCEPT ![c] = "open"]
       /\ fd' = [fd EXCEPT ![c] = NextFd]
       /\ edge' = edge \cup {c}
  /\ queue' = Tail(queue)
  /\ UNCHANGED <<thread, stream, history>>

\* disconnect_client; what is unread is dropped.
DisconnectClient(c) ==
  /\ conn' = [conn EXCEPT ![c] = "closed"]
  /\ fd' = [fd EXCEPT ![c] = NoFd]
  /\ fin' = [fin EXCEPT ![c] = FALSE]
  /\ edge' = edge \ {c}

\* Seeded bug: what is behind the first line is left for the next event.
Taken_One(c) == IF lines[c] = 0 THEN 0 ELSE 1

\* How many lines one recv takes.
Taken(c) == IF lines[c] < MaxMessage THEN lines[c] ELSE MaxMessage

\* receive_client_prefix: one recv takes all that fits into the buffer, and a thread is
\* started for the first line of it: what is behind that is dropped.  When there is
\* none a thread is started too, and the client disconnected.  (The line is looked for
\* in the whole buffer, so one may be found in what the stack held before.)
ReceiveRequest(c) ==
  LET n == Taken(c)
      rest == lines[c] - n
  IN
  /\ Handle(c)
  /\ Unread(c)
  /\ lines' = [lines EXCEPT ![c] = rest]
  /\ part' = [part EXCEPT ![c] = @ /\ rest > 0]
  /\ thread' = [thread EXCEPT ![c] = fd[c]]
  /\ \/ UNCHANGED <<conn, fd, fin, edge>>
     \/ n = 0 /\ DisconnectClient(c)
  /\ mixed' = IF n = 1 /\ lines[c] <= MaxMessage /\ ~part[c] THEN mixed ELSE mixed \cup {c}
  /\ unended' = IF n = 0 THEN unended \cup {c} ELSE unended \ {c}
  /\ UNCHANGED <<queue, asked, answers>>

ReceiveEnd(c) ==
  /\ Handle(c)
  /\ ~Unread(c)
  /\ DisconnectClient(c)
  /\ UNCHANGED <<thread, queue, lines, part, history>>

\* One step of the main thread from the label "at" to the label "to".
Step(at, to) == alive /\ mpc = at /\ mpc' = to /\ UNCHANGED alive

\* Seeded bug: the threads are not waited for.
Joined_Not == TRUE

Joined == \A c \in Clients : thread[c] = NoFd

\* Once all the events are handled.
JoinThreads ==
  /\ Step("batch", "stat")
  /\ batch = {} /\ Joined
  /\ UNCHANGED <<batch, edge, words, thread, disk, clients, history>>

-----------------------------------------------------------------------------
(* update_dict_if_necessary.                                                *)

\* Seeded bug: the times may not differ in this direction.
Changed_Never == mtime < last

Changed == mtime > last

\* stat fails, or the file is not newer than the last check.
StatOld ==
  /\ Step("stat", "wait")
  /\ file = NoFile \/ ~Changed
  /\ UNCHANGED <<batch, edge, words, thread, disk, clients, history>>

StatNew ==
  /\ Step("stat", "read")
  /\ file # NoFile /\ Changed
  /\ UNCHANGED <<batch, edge, words, thread, disk, clients, history>>

\* The dictionary is cleared and filled with what the file holds now, which is
\* nothing when it has gone since the stat.
ReadFile ==
  /\ Step("read", "stamp")
  /\ dict' = IF file = NoFile THEN <<>> ELSE DictOf(file)
  /\ readAt' = now
  /\ UNCHANGED <<batch, edge, last, stampAt, thread, disk, clients, history>>

\* Seeded bug: a second too late is noted.
Stamp_Ahead == now + 1

Stamp == now

Noted ==
  /\ Step("stamp", "wait")
  /\ last' = Stamp
  /\ stampAt' = now
  /\ UNCHANGED <<batch, edge, dict, readAt, thread, disk, clients, history>>

-----------------------------------------------------------------------------
(* worker_thread_routine.                                                   *)

\* Whose connection the descriptor f is.
Holders(f) == {c \in Clients : f # NoFd /\ fd[c] = f}

\* The thread of c's request queries the dictionary and sends the answer to whoever
\* has the descriptor.  (They are counted while every recv takes one line of c.)
ThreadAnswers(c) ==
  /\ alive /\ thread[c] # NoFd
  /\ thread' = [thread EXCEPT ![c] = NoFd]
  /\ answers' = IF c \in Holders(thread[c]) \ mixed THEN [answers EXCEPT ![c] = @ + 1] ELSE answers
  /\ UNCHANGED <<alive, loop, words, disk, clients, asked, mixed, unended>>

\* The query looks at the element after the last, and the process dies of it; the
\* system closes what it had.
ThreadCrashes(c) ==
  /\ alive /\ thread[c] # NoFd
  /\ \E p \in Asked : PastTheEnd(dict, p)
  /\ alive' = FALSE /\ mpc' = "wait" /\ batch' = {} /\ edge' = {}
  /\ thread' = [d \in Clients |-> NoFd]
  /\ conn' = [d \in Clients |-> "closed"]
  /\ fd' = [d \in Clients |-> NoFd]
  /\ queue' = <<>>
  /\ lines' = [d \in Clients |-> 0]
  /\ part' = [d \in Clients |-> FALSE]
  /\ fin' = [d \in Clients |-> FALSE]
  /\ UNCHANGED <<words, disk, history>>

-----------------------------------------------------------------------------
MainThread ==
  \/ Poll \/ AcceptClient \/ JoinThreads
  \/ \E c \in Clients : ReceiveRequest(c) \/ ReceiveEnd(c)
  \/ StatOld \/ StatNew \/ ReadFile \/ Noted

Thread(c) == ThreadAnswers(c) \/ ThreadCrashes(c)

\* As long as the server lives.
Environment ==
  /\ alive
  /\ \/ \E c \in Clients : Connect(c) \/ Ask(c) \/ AskInPart(c) \/ Close(c)
     \/ Write \/ Tick

Next == MainThread \/ (\E c \in Clients : Thread(c)) \/ Environment

Spec == Init /\ [][Next]_vars

\* Every thread runs, and epoll_wait has a timeout.  A thread also ends: its clients
\* take their answers, so that send has room for the next.
FairSpec == Spec /\ WF_vars(MainThread) /\ \A c \in Clients : WF_vars(Thread(c))

-----------------------------------------------------------------------------
(* Properties.                                                              *)

TypeOK ==
  /\ alive \in BOOLEAN
  /\ mpc \in {"wait", "batch", "stat", "read", "stamp"}
  /\ batch \subseteq Clients \cup {"server"} /\ edge \subseteq Clients \cup {"server"}
  /\ last \in 0 .. now
  /\ dict \in {DictOf(f) : f \in Files} \cup {<<>>}
  /\ thread \in [Clients -> Fds \cup {NoFd}]
  /\ file \in Files \cup {NoFile} /\ mtime \in 0 .. now /\ now \in 1 .. MaxTime
  /\ conn \in [Clients -> {"new", "queued", "open", "closed"}]
  /\ fd \in [Clients -> Fds \cup {NoFd}]
  /\ queue \in Seq(Clients)
  /\ lines \in [Clients -> Nat] /\ part \in [Clients -> BOOLEAN]
  /\ fin \in [Clients -> BOOLEAN]
  /\ asked \in [Clients -> Nat] /\ \A c \in Clients : asked[c] <= MaxLines[c]
  /\ answers \in [Clients -> Nat]
  /\ mixed \subseteq Clients /\ unended \subseteq Clients
  /\ readAt \in 0 .. now /\ stampAt \in 0 .. now

\* A client gets the answers to its own requests only, although an answer goes to
\* a number that the main thread may have closed and given to the next client -
\* but for requests without an end of line, whose thread is started after the
\* connection was closed.
OwnAnswers == \A c \in Clients : c \in unended \/ Holders(thread[c]) \subseteq {c}

\* No query is under way while the dictionary is replaced.
QueriesBetweenUpdates ==
  mpc \in {"stat", "read", "stamp"} => \A c \in Clients : thread[c] = NoFd

\* The threads and the main thread keep out of each other's way.
ThreadsSound == TypeOK /\ OwnAnswers /\ QueriesBetweenUpdates

\* Between updates, a dictionary that is not the file's will be read again, or
\* the file was written between the seconds in which the dictionary was read and
\* the reading noted (times have seconds; "newer" is strict).
StaleForAReason ==
  mpc = "wait" /\ file # NoFile /\ dict # DictOf(file) =>
    mtime > last \/ mtime \in readAt .. stampAt

\* A newer file is read, or one of those that replace it.
ChangesAreRead ==
  (alive /\ file # NoFile /\ mtime > last) ~> (~alive \/ file = NoFile \/ mtime <= last)

\* A client whose lines are taken one by one gets an answer to each, however its
\* events and those of others are grouped into batches, and however many lines come
\* before their answers do.  (What a recv takes beyond one line it drops, and what
\* does not fit it leaves without an event: receive_client_prefix.)
Answered ==
  \A c \in Clients : \A n \in 1 .. MaxLines[c] :
    (alive /\ conn[c] = "open" /\ asked[c] >= n)
      ~> (~alive \/ answers[c] >= n \/ c \in mixed)

\* Once a file is read, the query gives what a client expects of it (or would, did it
\* not look behind the end: when it does, and only then, the last word of the
\* dictionary matches and the answer is not full).
QueryExact == mpc = "stamp" =>
  \A f \in Files : dict = DictOf(f) =>
    \A p \in Asked : /\ Expected(Answer(dict, p), f, p)
                     /\ PastTheEnd(dict, p) <=> LastMatches(dict, p)
=============================================================================
