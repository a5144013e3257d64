--------------------------- MODULE WordsServerProofs ---------------------------
(***************************************************************************)
(* Proofs about WordsServer, for any number of clients, files and seconds:    *)
(* answers go to those who asked, no query meets an update, a stale           *)
(* dictionary has one reason, and a query finds what it should.               *)
(*                                                                          *)
(* An answer goes to a descriptor, and the main thread closes and reuses      *)
(* descriptors while threads run.  What saves it is that a thread only lives   *)
(* in the batch of events that started it, and that this batch has no second  *)
(* event for its client (Threads); and that no two connections ever share a   *)
(* descriptor, which needs a free one for every connection that is accepted   *)
(* (Descriptors, Queue).                                                     *)
(*                                                                          *)
(* For the query: the words are in a total order, so each kept line has a      *)
(* place of its own (Places) and the dictionary is the kept lines in another    *)
(* order (DictFrom).  The words with a prefix stand together in it (StartIs),  *)
(* and the answer begins where they do (AnswerIs).                            *)
(***************************************************************************)
EXTENDS WordsServer, FiniteSetTheorems, FunctionTheorems, SequenceTheorems,
        WellFoundedInduction, TLAPS

\* A thread lives in the batch that started it, and has its client's descriptor.
Threads ==
  \A c \in Clients : thread[c] # NoFd =>
    /\ mpc = "batch" /\ c \notin batch
    /\ c \in unended \/ fd[c] = thread[c]

Descriptors ==
  \A c, d \in Clients : fd[c] = fd[d] /\ fd[c] # NoFd => c = d

\* Who is in the queue is there once, and has no descriptor.
Queue ==
  /\ \A c \in Clients : conn[c] \in {"new", "queued"} => fd[c] = NoFd
  /\ \A i \in 1 .. Len(queue) : conn[queue[i]] = "queued"
  /\ \A i, j \in 1 .. Len(queue) : queue[i] = queue[j] => i = j

\* What is known of the dictionary's age while it is in place, and while it has
\* been read but not noted.
Ages ==
  /\ last = stampAt
  /\ mpc # "stamp" => readAt <= stampAt
  /\ file # NoFile /\ dict # DictOf(file) =>
       \/ mpc = "stamp" /\ mtime >= readAt
       \/ mpc # "stamp" /\ (mtime > last \/ mtime \in readAt .. stampAt)

\* Events that are still to be handled are of open connections.
Watched == \A c \in Clients : c \in batch => conn[c] = "open"

IInv == TypeOK /\ Threads /\ Descriptors /\ Queue /\ Ages /\ Watched

-----------------------------------------------------------------------------
(* The lowest free descriptor.                                              *)

LEMMA LessIsWellFounded == IsWellFoundedOn({p \in Nat \X Nat : p[1] < p[2]}, Nat)
BY NatLessThanWellFounded DEF OpToRel

LEMMA Lowest ==
  ASSUME NEW S \in SUBSET Nat, S # {}
  PROVE  \E x \in S : \A y \in S : x <= y
<1> DEFINE R == {p \in Nat \X Nat : p[1] < p[2]}
<1>1. PICK x \in S : \A y \in S : ~ (<<y, x>> \in R)
  BY LessIsWellFounded, WFMin
<1>2. ASSUME NEW y \in S
      PROVE  ~(y < x)
  BY <1>1
<1> QED
  BY <1>2

\* As long as a client has none, there is a free descriptor.
LEMMA FreeFd ==
  ASSUME WordsAssumption, fd \in [Clients -> Fds \cup {NoFd}],
         NEW c \in Clients, fd[c] = NoFd
  PROVE  NextFd \in Fds /\ \A d \in Clients : fd[d] # NextFd
<1> DEFINE others == Clients \ {c}
           used == {fd[d] : d \in others}
           f == [d \in others |-> fd[d]]
<1>1. /\ IsFiniteSet(Clients) /\ IsFiniteSet(Fds) /\ Cardinality(Fds) >= Cardinality(Clients)
      /\ Fds \subseteq Nat /\ NoFd \notin Fds
  BY DEF WordsAssumption
<1>2. /\ IsFiniteSet(others) /\ Cardinality(others) = Cardinality(Clients) - 1
      /\ Cardinality(Clients) \in Nat /\ Cardinality(Fds) \in Nat
  BY <1>1, FS_RemoveElement, FS_CardinalityType
<1>3. f \in Surjection(others, used)
  BY DEF Surjection
<1>4. IsFiniteSet(used) /\ Cardinality(used) <= Cardinality(others)
  BY <1>2, <1>3, FS_Surjection
<1>5. Cardinality(used) \in Nat /\ Cardinality(used) < Cardinality(Fds)
  BY <1>1, <1>2, <1>4, FS_CardinalityType
<1>6. ~(Fds \subseteq used)
  <2>1. SUFFICES ASSUME Fds \subseteq used PROVE FALSE
    OBVIOUS
  <2>2. Cardinality(Fds) <= Cardinality(used)
    BY <1>4, <2>1, FS_Subset
  <2> QED
    BY <1>2, <1>5, <2>2
<1>7. PICK g \in Fds : g \notin used
  BY <1>6
<1>8. FreeFds \in SUBSET Nat /\ FreeFds # {}
  <2>1. \A d \in Clients : fd[d] # g
    BY <1>1, <1>7
  <2> QED
    BY <1>1, <2>1 DEF FreeFds
<1>9. NextFd \in FreeFds
  BY <1>8, Lowest DEF NextFd
<1> QED
  BY <1>9 DEF FreeFds

-----------------------------------------------------------------------------
(* The steps that leave the connections alone.                              *)

LEMMA Begins ==
  ASSUME WordsAssumption, Init
  PROVE  IInv
<1>1. 0 \in 0 .. now /\ now \in 1 .. MaxTime /\ now = 1
  <2>1. now = 1 /\ MaxTime \in Nat /\ MaxTime # 0
    BY DEF Init, WordsAssumption
  <2> QED
    BY <2>1
<1>2. TypeOK
  <2>1. \A c \in Clients : 0 <= MaxLines[c]
    BY DEF WordsAssumption
  <2> QED
    BY <1>1, <2>1 DEF Init, TypeOK
<1>3. Threads /\ Descriptors /\ Queue /\ Watched
  BY DEF Init, Threads, Descriptors, Queue, Watched
<1>4. Ages
  BY <1>1 DEF Init, Ages
<1> QED
  BY <1>2, <1>3, <1>4 DEF IInv

LEMMA ConnectStep ==
  ASSUME IInv, NEW c \in Clients, Connect(c)
  PROVE  IInv'
<1>1. TypeOK /\ conn[c] = "new" /\ queue' = Append(queue, c)
      /\ conn' = [conn EXCEPT ![c] = "queued"] /\ queue \in Seq(Clients)
      /\ conn \in [Clients -> {"new", "queued", "open", "closed"}]
  BY DEF IInv, Connect, TypeOK
<1>2. TypeOK'
  <2>1. queue' \in Seq(Clients)
    BY <1>1
  <2>2. conn' \in [Clients -> {"new", "queued", "open", "closed"}]
    BY <1>1
  <2>3. UNCHANGED <<alive, mpc, batch, words, thread, disk, fd, stream, history>>
        /\ edge' = edge \cup {"server"}
    BY DEF Connect
  <2> QED
    BY <1>1, <2>1, <2>2, <2>3 DEF TypeOK, words, disk, stream, history
<1>3. Threads' /\ Descriptors'
  BY DEF IInv, Connect, Threads, Descriptors, history
<1>4. Queue'
  <2>1. /\ Len(queue') = Len(queue) + 1 /\ queue'[Len(queue) + 1] = c
        /\ \A i \in 1 .. Len(queue) : queue'[i] = queue[i] /\ queue[i] \in Clients
        /\ Len(queue) \in Nat
    BY <1>1
  <2>2. \A i \in 1 .. Len(queue) : conn[queue[i]] = "queued" /\ queue[i] # c
    BY <1>1 DEF IInv, Queue
  <2>3. \A i \in 1 .. Len(queue') : i \in 1 .. Len(queue) \/ i = Len(queue) + 1
    BY <2>1
  <2>4. \A i \in 1 .. Len(queue') : conn'[queue'[i]] = "queued"
    BY <1>1, <2>1, <2>2, <2>3
  <2>5. \A i, j \in 1 .. Len(queue') : queue'[i] = queue'[j] => i = j
    BY <2>1, <2>2, <2>3 DEF IInv, Queue
  <2>6. \A d \in Clients : conn'[d] \in {"new", "queued"} => fd'[d] = NoFd
    BY <1>1 DEF IInv, Queue, Connect
  <2> QED
    BY <2>4, <2>5, <2>6 DEF Queue
<1>5. Ages'
  BY DEF IInv, Connect, Ages, words, disk
<1>6. Watched'
  BY <1>1 DEF IInv, Connect, Watched
<1> QED
  BY <1>2, <1>3, <1>4, <1>5, <1>6 DEF IInv

LEMMA AskStep ==
  ASSUME WordsAssumption, IInv, NEW c \in Clients, Ask(c) \/ AskInPart(c)
  PROVE  IInv'
<1>1. /\ TypeOK /\ MaxLines \in [Clients -> Nat]
      /\ lines \in [Clients -> Nat] /\ part \in [Clients -> BOOLEAN]
      /\ asked \in [Clients -> Nat] /\ \A d \in Clients : asked[d] <= MaxLines[d]
  BY DEF IInv, TypeOK, WordsAssumption
<1>2. /\ UNCHANGED <<alive, mpc, batch, words, thread, disk, conn, fd, queue, fin, answers,
                     mixed, unended>>
      /\ edge' = edge \/ edge' = edge \cup {c}
  BY DEF Ask, AskInPart, Arrive, history
<1>3. /\ lines' \in [Clients -> Nat] /\ part' \in [Clients -> BOOLEAN]
      /\ asked' \in [Clients -> Nat] /\ \A d \in Clients : asked'[d] <= MaxLines[d]
  <2>1. CASE Ask(c)
    <3>1. /\ lines' = [lines EXCEPT ![c] = @ + 1] /\ part' = [part EXCEPT ![c] = FALSE]
          /\ asked' = [asked EXCEPT ![c] = @ + 1] /\ asked[c] < MaxLines[c]
      BY <2>1 DEF Ask
    <3>2. lines[c] + 1 \in Nat /\ asked[c] + 1 \in Nat /\ asked[c] + 1 <= MaxLines[c]
      BY <1>1, <3>1
    <3> QED
      BY <1>1, <3>1, <3>2
  <2>2. CASE AskInPart(c)
    BY <1>1, <2>2 DEF AskInPart, history
  <2> QED
    BY <2>1, <2>2
<1>4. TypeOK'
  BY <1>1, <1>2, <1>3 DEF TypeOK, words, disk
<1>5. Threads' /\ Descriptors' /\ Queue' /\ Watched'
  BY <1>2 DEF IInv, Threads, Descriptors, Queue, Watched
<1>6. Ages'
  BY <1>2 DEF IInv, Ages, words, disk
<1> QED
  BY <1>4, <1>5, <1>6 DEF IInv

LEMMA CloseStep ==
  ASSUME IInv, NEW c \in Clients, Close(c)
  PROVE  IInv'
<1>1. TypeOK'
  BY DEF IInv, Close, Arrive, TypeOK, words, disk, history
<1>2. Threads' /\ Descriptors' /\ Queue' /\ Watched'
  BY DEF IInv, Close, Threads, Descriptors, Queue, Watched, history
<1>3. Ages'
  BY DEF IInv, Ages, Close, words, disk
<1> QED
  BY <1>1, <1>2, <1>3 DEF IInv

LEMMA WorldStep ==
  ASSUME WordsAssumption, IInv, Write \/ Tick
  PROVE  IInv'
<1>1. /\ TypeOK /\ last \in 0 .. now /\ mtime \in 0 .. now /\ now \in 1 .. MaxTime
      /\ readAt \in 0 .. now /\ stampAt \in 0 .. now /\ MaxTime \in Nat
  BY DEF IInv, TypeOK, WordsAssumption
<1>2. UNCHANGED <<alive, loop, words, thread, clients, history>>
  BY DEF Write, Tick
<1>3. Threads' /\ Descriptors' /\ Queue' /\ Watched'
  BY <1>2 DEF IInv, Threads, Descriptors, Queue, Watched, loop, clients, history
<1>4. CASE Write
  <2>1. now' = now /\ file' \in Files \cup {NoFile} /\ (mtime' = now \/ (mtime' = mtime /\ file' = NoFile))
    BY <1>4 DEF Write, Files
  <2>2. mtime' \in 0 .. now
    BY <1>1, <2>1
  <2>3. TypeOK'
    BY <1>1, <1>2, <2>1, <2>2 DEF TypeOK, loop, words, clients, stream, history
  <2>4. Ages'
    <3>1. mtime' = now => mtime' >= readAt /\ mtime' >= last
      BY <1>1
    <3>2. mtime' = now /\ ~(mtime' > last) /\ mpc # "stamp" => mtime' \in readAt .. stampAt
      BY <1>1, <3>1 DEF IInv, Ages
    <3> QED
      BY <1>2, <2>1, <3>1, <3>2 DEF IInv, Ages, loop, words
  <2> QED
    BY <1>3, <2>3, <2>4 DEF IInv
<1>5. CASE Tick
  <2>1. now' = now + 1 /\ now < MaxTime /\ file' = file /\ mtime' = mtime
    BY <1>5 DEF Tick
  <2>2. now' \in 1 .. MaxTime /\ \A n \in 0 .. now : n \in 0 .. now'
    BY <1>1, <2>1
  <2>3. TypeOK'
    BY <1>1, <1>2, <2>1, <2>2 DEF TypeOK, loop, words, clients, stream, history
  <2>4. Ages'
    BY <1>2, <2>1 DEF IInv, Ages, loop, words
  <2> QED
    BY <1>3, <2>3, <2>4 DEF IInv
<1> QED
  BY <1>4, <1>5

-----------------------------------------------------------------------------
(* The main thread.                                                         *)

\* Its steps outside of a batch: there are no threads.
LEMMA OutsideStep ==
  ASSUME IInv, UNCHANGED <<thread, clients, history>>,
         mpc # "batch" \/ \A c \in Clients : thread[c] = NoFd
  PROVE  Threads' /\ Descriptors' /\ Queue'
<1>1. \A c \in Clients : thread[c] = NoFd
  BY DEF IInv, Threads
<1> QED
  BY <1>1 DEF IInv, Threads, Descriptors, Queue, clients, history

LEMMA PollStep ==
  ASSUME WordsAssumption, IInv, Poll
  PROVE  IInv'
<1>1. Threads' /\ Descriptors' /\ Queue'
  BY OutsideStep DEF Poll
<1>2. TypeOK'
  BY DEF IInv, TypeOK, Poll, words, disk, clients, stream, history, Readable
<1>3. Ages'
  BY DEF IInv, Ages, Poll, words, disk
<1>4. Watched'
  BY DEF WordsAssumption, Poll, Readable, Watched, clients
<1> QED
  BY <1>1, <1>2, <1>3, <1>4 DEF IInv

LEMMA JoinStep ==
  ASSUME IInv, JoinThreads
  PROVE  IInv'
<1>1. Threads' /\ Descriptors' /\ Queue'
  BY OutsideStep DEF JoinThreads, Joined
<1>2. TypeOK'
  BY DEF IInv, TypeOK, JoinThreads, Step, words, disk, clients, stream, history
<1>3. Ages'
  BY DEF IInv, Ages, JoinThreads, Step, words, disk
<1>4. Watched'
  BY DEF IInv, Watched, JoinThreads, clients
<1> QED
  BY <1>1, <1>2, <1>3, <1>4 DEF IInv

LEMMA UpdateStep ==
  ASSUME IInv, StatOld \/ StatNew \/ ReadFile \/ Noted
  PROVE  IInv'
<1>1. UNCHANGED <<batch, edge, thread, disk, clients, history, alive>> /\ mpc # "batch"
  BY DEF StatOld, StatNew, ReadFile, Noted, Step
<1>2. Threads' /\ Descriptors' /\ Queue' /\ Watched'
  BY <1>1, OutsideStep DEF IInv, Watched, clients
<1>3. /\ TypeOK /\ last \in 0 .. now /\ mtime \in 0 .. now /\ now \in 1 .. MaxTime
      /\ readAt \in 0 .. now /\ stampAt \in 0 .. now
      /\ file \in Files \cup {NoFile}
  BY DEF IInv, TypeOK
<1>4. now \in 0 .. now
  <2>1. now \in Nat
    BY <1>3
  <2> QED
    BY <2>1
<1>5. CASE StatOld \/ StatNew
  <2>1. TypeOK'
    BY <1>1, <1>3, <1>5 DEF TypeOK, StatOld, StatNew, Step, words, disk, clients, stream, history
  <2>2. Ages'
    BY <1>5 DEF IInv, Ages, StatOld, StatNew, Step, words, disk
  <2> QED
    BY <1>2, <2>1, <2>2 DEF IInv
<1>6. CASE ReadFile
  <2>1. /\ mpc' = "stamp" /\ readAt' = now /\ UNCHANGED <<last, stampAt>>
        /\ dict' = IF file = NoFile THEN <<>> ELSE DictOf(file)
    BY <1>6 DEF ReadFile, Step
  <2>2. dict' \in {DictOf(f) : f \in Files} \cup {<<>>}
    BY <1>3, <2>1
  <2>3. TypeOK'
    BY <1>1, <1>3, <1>4, <2>1, <2>2 DEF TypeOK, disk, clients, stream, history
  <2>4. Ages'
    BY <1>1, <2>1 DEF IInv, Ages, disk
  <2> QED
    BY <1>2, <2>3, <2>4 DEF IInv
<1>7. CASE Noted
  <2>1. /\ mpc = "stamp" /\ mpc' = "wait" /\ last' = now /\ stampAt' = now
        /\ UNCHANGED <<dict, readAt>>
    BY <1>7 DEF Noted, Step, Stamp
  <2>2. TypeOK'
    BY <1>1, <1>3, <1>4, <2>1 DEF TypeOK, disk, clients, stream, history
  <2>3. mtime >= readAt => mtime \in readAt .. now
    BY <1>3
  <2>4. readAt <= now
    BY <1>3
  <2>5. Ages'
    BY <1>1, <2>1, <2>3, <2>4 DEF IInv, Ages, disk
  <2> QED
    BY <1>2, <2>2, <2>5 DEF IInv
<1> QED
  BY <1>5, <1>6, <1>7

LEMMA AcceptStep ==
  ASSUME WordsAssumption, IInv, AcceptClient
  PROVE  IInv'
<1> DEFINE c == Head(queue)
<1>1. /\ TypeOK /\ queue \in Seq(Clients) /\ queue # <<>>
      /\ conn \in [Clients -> {"new", "queued", "open", "closed"}]
      /\ fd \in [Clients -> Fds \cup {NoFd}]
  BY DEF IInv, TypeOK, AcceptClient
<1>2. c \in Clients /\ c = queue[1] /\ Len(queue) \in Nat /\ Len(queue) >= 1
  BY <1>1
<1>3. conn[c] = "queued" /\ fd[c] = NoFd
  BY <1>2 DEF IInv, Queue
<1>4. NextFd \in Fds /\ \A d \in Clients : fd[d] # NextFd
  BY <1>1, <1>2, <1>3, FreeFd
<1>5. /\ conn' = [conn EXCEPT ![c] = "open"]
      /\ fd' = [fd EXCEPT ![c] = NextFd]
      /\ edge' = edge \cup {c}
      /\ queue' = Tail(queue)
      /\ batch' = batch \ {"server"}
      /\ UNCHANGED <<alive, mpc, words, disk, thread, stream, history>>
  BY DEF AcceptClient, Handle
<1> HIDE DEF c
<1>6. TypeOK'
  <2>1. queue' \in Seq(Clients)
    BY <1>1, <1>5
  <2>2. conn' \in [Clients -> {"new", "queued", "open", "closed"}]
    BY <1>1, <1>2, <1>5
  <2>3. fd' \in [Clients -> Fds \cup {NoFd}]
    BY <1>1, <1>2, <1>4, <1>5
  <2>4. edge' \subseteq Clients \cup {"server"} /\ batch' \subseteq Clients \cup {"server"}
    BY <1>1, <1>2, <1>5 DEF TypeOK
  <2> QED
    BY <1>1, <1>5, <2>1, <2>2, <2>3, <2>4 DEF TypeOK, words, disk, stream, history
<1>7. /\ conn'[c] = "open" /\ fd'[c] = NextFd
      /\ \A d \in Clients : d # c => conn'[d] = conn[d] /\ fd'[d] = fd[d]
  BY <1>1, <1>2, <1>5
<1>8. Threads'
  BY <1>3, <1>5, <1>7 DEF IInv, Threads, history
<1>9. Descriptors'
  BY <1>4, <1>7 DEF IInv, Descriptors
<1>10. Queue'
  <2>1. /\ Len(queue') = Len(queue) - 1
        /\ \A i \in 1 .. Len(queue') : /\ queue'[i] = queue[i + 1]
                                       /\ i + 1 \in 1 .. Len(queue) /\ i + 1 # 1
                                       /\ queue'[i] \in Clients
    BY <1>1, <1>2, <1>5
  <2>2. \A i \in 1 .. Len(queue') : conn[queue'[i]] = "queued" /\ queue'[i] # c
    <3>1. 1 \in 1 .. Len(queue)
      BY <1>2
    <3>2. ASSUME NEW i \in 1 .. Len(queue')
          PROVE  conn[queue'[i]] = "queued" /\ queue'[i] # c
      <4>1. queue'[i] = queue[i + 1] /\ i + 1 \in 1 .. Len(queue) /\ i + 1 # 1
        BY <2>1
      <4>2. queue[i + 1] # queue[1] /\ conn[queue[i + 1]] = "queued"
        BY <3>1, <4>1 DEF IInv, Queue
      <4> QED
        BY <1>2, <4>1, <4>2
    <3> QED
      BY <3>2
  <2>3. \A i \in 1 .. Len(queue') : conn'[queue'[i]] = "queued"
    BY <1>7, <2>1, <2>2
  <2>4. ASSUME NEW i \in 1 .. Len(queue'), NEW j \in 1 .. Len(queue'), queue'[i] = queue'[j]
        PROVE  i = j
    <3>1. /\ i + 1 \in 1 .. Len(queue) /\ j + 1 \in 1 .. Len(queue)
          /\ queue[i + 1] = queue[j + 1]
      BY <2>1, <2>4
    <3>2. i + 1 = j + 1
      BY <3>1 DEF IInv, Queue
    <3> QED
      BY <3>2
  <2>5. \A d \in Clients : conn'[d] \in {"new", "queued"} => fd'[d] = NoFd
    BY <1>7 DEF IInv, Queue
  <2> QED
    BY <2>3, <2>4, <2>5 DEF Queue
<1>11. Ages' /\ Watched'
  BY <1>5, <1>7 DEF IInv, Ages, Watched, words, disk
<1> QED
  BY <1>6, <1>8, <1>9, <1>10, <1>11 DEF IInv

\* A connection is closed in the batch, where its client has no thread or has not
\* ended its request.
LEMMA DisconnectStep ==
  ASSUME IInv, NEW c \in Clients, DisconnectClient(c), conn[c] # "queued"
  PROVE  Descriptors' /\ (UNCHANGED queue => Queue')
<1>1. /\ TypeOK /\ queue \in Seq(Clients)
      /\ conn \in [Clients -> {"new", "queued", "open", "closed"}]
      /\ fd \in [Clients -> Fds \cup {NoFd}]
  BY DEF IInv, TypeOK
<1>2. /\ conn'[c] = "closed" /\ fd'[c] = NoFd
      /\ \A d \in Clients : d # c => conn'[d] = conn[d] /\ fd'[d] = fd[d]
  BY <1>1 DEF DisconnectClient
<1>3. Descriptors'
  BY <1>2 DEF IInv, Descriptors
<1>4. ASSUME UNCHANGED queue
      PROVE  Queue'
  <2>1. \A i \in 1 .. Len(queue) : queue[i] \in Clients /\ queue[i] # c
    BY <1>1 DEF IInv, Queue
  <2> QED
    BY <1>2, <1>4, <2>1 DEF IInv, Queue
<1> QED
  BY <1>3, <1>4

\* A recv takes some of the lines that there are.
LEMMA TakenIs ==
  ASSUME WordsAssumption, TypeOK, NEW c \in Clients
  PROVE  Taken(c) \in Nat /\ lines[c] - Taken(c) \in Nat
<1>1. lines[c] \in Nat /\ MaxMessage \in Nat
  BY DEF WordsAssumption, TypeOK
<1> QED
  BY <1>1 DEF Taken

LEMMA ReceiveRequestStep ==
  ASSUME WordsAssumption, IInv, NEW c \in Clients, ReceiveRequest(c)
  PROVE  IInv'
<1> DEFINE n == Taken(c)
<1>1. /\ TypeOK /\ mpc = "batch" /\ c \in batch /\ conn[c] = "open"
      /\ batch' = batch \ {c}
      /\ UNCHANGED <<alive, mpc, words, disk, queue, asked, answers>>
      /\ lines' = [lines EXCEPT ![c] = lines[c] - n]
      /\ part' = [part EXCEPT ![c] = @ /\ lines[c] - n > 0]
      /\ thread' = [thread EXCEPT ![c] = fd[c]]
      /\ mixed' = mixed \/ mixed' = mixed \cup {c}
      /\ unended' = IF n = 0 THEN unended \cup {c} ELSE unended \ {c}
      /\ UNCHANGED <<conn, fd, fin, edge>> \/ (n = 0 /\ DisconnectClient(c))
  BY DEF IInv, ReceiveRequest, Handle, Watched
<1>2. lines[c] - n \in Nat
  BY <1>1, TakenIs
<1> HIDE DEF n
<1>3. /\ thread'[c] = fd[c]
      /\ \A d \in Clients : d # c => thread'[d] = thread[d]
      /\ thread' \in [Clients -> Fds \cup {NoFd}]
      /\ lines' \in [Clients -> Nat] /\ part' \in [Clients -> BOOLEAN]
      /\ mixed' \subseteq Clients /\ unended' \subseteq Clients
      /\ batch' \subseteq Clients \cup {"server"}
  BY <1>1, <1>2 DEF TypeOK
<1>4. Ages'
  BY <1>1 DEF IInv, Ages, words, disk
<1>5. ASSUME NEW d \in Clients, d # c, thread'[d] # NoFd
      PROVE  /\ mpc' = "batch" /\ d \notin batch'
             /\ d \in unended' \/ fd[d] = thread'[d]
  <2>1. d \notin batch /\ (d \in unended \/ fd[d] = thread[d])
    BY <1>3, <1>5 DEF IInv, Threads
  <2> QED
    BY <1>1, <1>3, <1>5, <2>1
<1>6. CASE UNCHANGED <<conn, fd, fin, edge>>
  <2>1. TypeOK'
    BY <1>1, <1>3, <1>6 DEF TypeOK, words, disk
  <2>2. Threads'
    BY <1>1, <1>3, <1>5, <1>6 DEF Threads
  <2>3. Descriptors' /\ Queue' /\ Watched'
    BY <1>1, <1>6 DEF IInv, Descriptors, Queue, Watched
  <2> QED
    BY <1>4, <2>1, <2>2, <2>3 DEF IInv
<1>7. CASE n = 0 /\ DisconnectClient(c)
  <2>1. c \in unended'
    BY <1>1, <1>7
  <2>2. /\ conn' \in [Clients -> {"new", "queued", "open", "closed"}]
        /\ fd' \in [Clients -> Fds \cup {NoFd}] /\ fin' \in [Clients -> BOOLEAN]
        /\ edge' \subseteq Clients \cup {"server"}
        /\ \A d \in Clients : d # c => conn'[d] = conn[d] /\ fd'[d] = fd[d]
    BY <1>1, <1>7 DEF TypeOK, DisconnectClient
  <2>3. TypeOK'
    BY <1>1, <1>3, <2>2 DEF TypeOK, words, disk
  <2>4. Threads'
    BY <1>1, <1>5, <2>1, <2>2 DEF Threads
  <2>5. Descriptors' /\ Queue'
    BY <1>1, <1>7, DisconnectStep
  <2>6. Watched'
    BY <1>1, <2>2 DEF IInv, Watched
  <2> QED
    BY <1>4, <2>3, <2>4, <2>5, <2>6 DEF IInv
<1> QED
  BY <1>1, <1>6, <1>7

LEMMA ReceiveEndStep ==
  ASSUME WordsAssumption, IInv, NEW c \in Clients, ReceiveEnd(c)
  PROVE  IInv'
<1>1. /\ TypeOK /\ mpc = "batch" /\ c \in batch /\ conn[c] = "open"
      /\ batch' = batch \ {c} /\ DisconnectClient(c)
      /\ UNCHANGED <<alive, mpc, words, disk, queue, thread, lines, part, history>>
  BY DEF IInv, ReceiveEnd, Handle, Watched
<1>2. thread[c] = NoFd
  BY <1>1 DEF IInv, Threads
<1>3. /\ conn' \in [Clients -> {"new", "queued", "open", "closed"}]
      /\ fd' \in [Clients -> Fds \cup {NoFd}] /\ fin' \in [Clients -> BOOLEAN]
      /\ edge' \subseteq Clients \cup {"server"} /\ batch' \subseteq Clients \cup {"server"}
      /\ \A d \in Clients : d # c => conn'[d] = conn[d] /\ fd'[d] = fd[d]
  BY <1>1 DEF TypeOK, DisconnectClient
<1>4. TypeOK'
  BY <1>1, <1>3 DEF TypeOK, words, disk, history
<1>5. Threads'
  BY <1>1, <1>2, <1>3 DEF IInv, Threads, history
<1>6. Ages' /\ Watched'
  BY <1>1, <1>3 DEF IInv, Ages, Watched, words, disk
<1>7. Descriptors' /\ Queue'
  BY <1>1, DisconnectStep
<1> QED
  BY <1>4, <1>5, <1>6, <1>7 DEF IInv

-----------------------------------------------------------------------------
(* The threads.                                                             *)

LEMMA ThreadStep ==
  ASSUME WordsAssumption, IInv, NEW c \in Clients, Thread(c)
  PROVE  IInv'
<1>1. TypeOK
  BY DEF IInv
<1>2. CASE ThreadAnswers(c)
  <2>1. /\ thread' = [thread EXCEPT ![c] = NoFd]
        /\ answers' = answers \/ answers' = [answers EXCEPT ![c] = @ + 1]
        /\ UNCHANGED <<alive, loop, words, disk, clients, asked, mixed, unended>>
    BY <1>2 DEF ThreadAnswers
  <2>2. TypeOK'
    <3>1. answers \in [Clients -> Nat] /\ answers[c] + 1 \in Nat
      BY <1>1 DEF TypeOK
    <3>2. answers' \in [Clients -> Nat]
      BY <2>1, <3>1
    <3> QED
      BY <1>1, <2>1, <3>2 DEF TypeOK, loop, words, disk, clients, stream
  <2>3. Threads'
    BY <1>1, <2>1 DEF IInv, Threads, TypeOK, loop, clients
  <2>4. Descriptors' /\ Queue' /\ Watched' /\ Ages'
    BY <2>1 DEF IInv, Descriptors, Queue, Watched, Ages, loop, words, disk, clients
  <2> QED
    BY <2>2, <2>3, <2>4 DEF IInv
<1>3. CASE ThreadCrashes(c)
  <2>1. mpc = "batch"
    BY <1>3 DEF IInv, Threads, ThreadCrashes
  <2>2. /\ mpc' = "wait" /\ batch' = {} /\ edge' = {} /\ queue' = <<>>
        /\ thread' = [d \in Clients |-> NoFd]
        /\ fd' = [d \in Clients |-> NoFd]
        /\ lines' = [d \in Clients |-> 0]
        /\ part' = [d \in Clients |-> FALSE]
        /\ conn' = [d \in Clients |-> "closed"]
        /\ fin' = [d \in Clients |-> FALSE]
        /\ alive' = FALSE
        /\ UNCHANGED <<words, disk, history>>
    BY <1>3 DEF ThreadCrashes
  <2>3. queue' \in Seq(Clients)
    BY <2>2
  <2>4. TypeOK'
    BY <1>1, <2>2, <2>3 DEF TypeOK, words, disk, history
  <2>5. Threads' /\ Descriptors' /\ Watched'
    BY <2>2 DEF Threads, Descriptors, Watched
  <2>6. Queue'
    <3>1. Len(queue') = 0
      BY <2>2
    <3> QED
      BY <2>2, <3>1 DEF Queue
  <2>7. Ages'
    BY <2>1, <2>2 DEF IInv, Ages, words, disk
  <2> QED
    BY <2>4, <2>5, <2>6, <2>7 DEF IInv
<1> QED
  BY <1>2, <1>3 DEF Thread

-----------------------------------------------------------------------------
LEMMA Stays ==
  ASSUME WordsAssumption, IInv, [Next]_vars
  PROVE  IInv'
<1>1. CASE MainThread
  BY <1>1, PollStep, AcceptStep, JoinStep, ReceiveRequestStep, ReceiveEndStep, UpdateStep
  DEF MainThread
<1>2. ASSUME NEW c \in Clients, Thread(c)
      PROVE  IInv'
  BY <1>2, ThreadStep
<1>3. CASE Environment
  BY <1>3, ConnectStep, AskStep, CloseStep, WorldStep DEF Environment
<1>4. CASE UNCHANGED vars
  <2>1. UNCHANGED <<alive, mpc, batch, edge, last, dict, readAt, stampAt, thread, file, mtime,
                    now, conn, fd, queue, lines, part, fin, asked, answers, mixed,
                    unended>>
    BY <1>4 DEF vars, loop, words, disk, clients, stream, history
  <2>2. TypeOK'
    BY <2>1 DEF IInv, TypeOK
  <2>3. Threads' /\ Descriptors' /\ Queue' /\ Watched' /\ Ages'
    BY <2>1 DEF IInv, Threads, Descriptors, Queue, Ages, Watched
  <2> QED
    BY <2>2, <2>3 DEF IInv
<1> QED
  BY <1>1, <1>2, <1>3, <1>4 DEF Next

-----------------------------------------------------------------------------
(* The order of the words.                                                  *)

Word == Seq(Nat)

\* w is greater than p at the first letter where they differ.
Above(w, p) ==
  \E i \in DOMAIN w \cap DOMAIN p : w[i] > p[i] /\ \A j \in 1 .. i - 1 : w[j] = p[j]

LEMMA PrefixIs ==
  ASSUME NEW p \in Word, NEW w \in Word
  PROVE  IsPrefix(p, w) <=> Len(p) <= Len(w) /\ \A i \in 1 .. Len(p) : p[i] = w[i]
<1>1. /\ Len(p) \in Nat /\ Len(w) \in Nat
      /\ \A i \in 1 .. Len(p) : p[i] \in Nat
      /\ \A i \in 1 .. Len(w) : w[i] \in Nat
  BY DEF Word
<1>2. /\ SubSeq(p, 1, Len(p)) \in Seq(Nat)
      /\ Len(SubSeq(p, 1, Len(p))) = Len(p)
      /\ \A i \in 1 .. Len(p) : SubSeq(p, 1, Len(p))[i] = p[i]
  BY <1>1, SubSeqProperties
<1>3. ASSUME Len(p) <= Len(w)
      PROVE  /\ SubSeq(w, 1, Len(p)) \in Seq(Nat)
             /\ Len(SubSeq(w, 1, Len(p))) = Len(p)
             /\ \A i \in 1 .. Len(p) : SubSeq(w, 1, Len(p))[i] = w[i]
  <2>1. \A i \in 1 .. Len(p) : w[i] \in Nat
    BY <1>1, <1>3
  <2> QED
    BY <1>1, <2>1, SubSeqProperties
<1>4. ASSUME Len(p) <= Len(w), \A i \in 1 .. Len(p) : p[i] = w[i]
      PROVE  SubSeq(p, 1, Len(p)) = SubSeq(w, 1, Len(p))
  <2>1. \A i \in 1 .. Len(p) : SubSeq(p, 1, Len(p))[i] = SubSeq(w, 1, Len(p))[i]
    BY <1>2, <1>3, <1>4
  <2> QED
    BY <1>2, <1>3, <1>4, <2>1, SeqEqual
<1>5. ASSUME Len(p) <= Len(w), SubSeq(p, 1, Len(p)) = SubSeq(w, 1, Len(p)),
             NEW i \in 1 .. Len(p)
      PROVE  p[i] = w[i]
  BY <1>2, <1>3, <1>5
<1> QED
  BY <1>4, <1>5 DEF IsPrefix

\* Words that agree as far as both go: one is a prefix of the other.
LEMMA Agreeing ==
  ASSUME NEW p \in Word, NEW w \in Word, \A i \in DOMAIN p \cap DOMAIN w : p[i] = w[i]
  PROVE  IsPrefix(p, w) \/ IsPrefix(w, p)
<1>1. Len(p) \in Nat /\ Len(w) \in Nat /\ DOMAIN p = 1 .. Len(p) /\ DOMAIN w = 1 .. Len(w)
  BY DEF Word
<1>2. CASE Len(p) <= Len(w)
  <2>1. \A i \in 1 .. Len(p) : p[i] = w[i]
    BY <1>1, <1>2
  <2> QED
    BY <1>2, <2>1, PrefixIs
<1>3. CASE Len(w) <= Len(p)
  <2>1. \A i \in 1 .. Len(w) : w[i] = p[i]
    BY <1>1, <1>3
  <2> QED
    BY <1>3, <2>1, PrefixIs
<1> QED
  BY <1>1, <1>2, <1>3

\* Of two words one is at least the other.
LEMMA Total ==
  ASSUME NEW w \in Word, NEW p \in Word
  PROVE  AtLeast(w, p) \/ AtLeast(p, w)
<1> DEFINE D == {i \in DOMAIN w \cap DOMAIN p : w[i] # p[i]}
<1>1. /\ Len(p) \in Nat /\ Len(w) \in Nat /\ DOMAIN p = 1 .. Len(p) /\ DOMAIN w = 1 .. Len(w)
      /\ \A i \in DOMAIN p : p[i] \in Nat
      /\ \A i \in DOMAIN w : w[i] \in Nat
  BY DEF Word
<1>2. CASE D = {}
  BY <1>2, Agreeing DEF AtLeast
<1>3. CASE D # {}
  <2>1. D \in SUBSET Nat
    BY <1>1
  <2>2. PICK i \in D : \A j \in D : i <= j
    BY <1>3, <2>1, Lowest
  <2>3. \A j \in 1 .. i - 1 : w[j] = p[j]
    BY <1>1, <2>2
  <2>4. w[i] > p[i] \/ p[i] > w[i]
    BY <1>1, <2>2
  <2> QED
    BY <2>2, <2>3, <2>4 DEF AtLeast
<1> QED
  BY <1>2, <1>3

LEMMA AtLeastItself ==
  ASSUME NEW w \in Word
  PROVE  AtLeast(w, w)
BY Total

\* And only one of them unless they are equal.
LEMMA Antisymmetric ==
  ASSUME NEW w \in Word, NEW p \in Word, AtLeast(w, p), AtLeast(p, w)
  PROVE  w = p
<1>1. /\ Len(p) \in Nat /\ Len(w) \in Nat /\ DOMAIN p = 1 .. Len(p) /\ DOMAIN w = 1 .. Len(w)
      /\ \A i \in DOMAIN p : p[i] \in Nat
      /\ \A i \in DOMAIN w : w[i] \in Nat
  BY DEF Word
<1>2. CASE IsPrefix(p, w) /\ IsPrefix(w, p)
  <2>1. Len(p) <= Len(w) /\ \A i \in 1 .. Len(p) : p[i] = w[i]
    BY <1>2, PrefixIs
  <2>2. Len(w) <= Len(p)
    BY <1>2, PrefixIs
  <2>3. Len(p) \in Nat /\ Len(w) \in Nat
    BY <1>1
  <2>4. Len(p) = Len(w)
    BY <2>1, <2>2, <2>3
  <2> QED
    BY <2>1, <2>4, SeqEqual DEF Word
<1>3. ASSUME Above(w, p), IsPrefix(w, p)
      PROVE  FALSE
  BY <1>1, <1>3, PrefixIs DEF Above
<1>4. ASSUME Above(p, w), IsPrefix(p, w)
      PROVE  FALSE
  BY <1>1, <1>4, PrefixIs DEF Above
<1>5. ASSUME Above(w, p), Above(p, w)
      PROVE  FALSE
  <2>1. PICK i \in DOMAIN w \cap DOMAIN p : w[i] > p[i] /\ \A j \in 1 .. i - 1 : w[j] = p[j]
    BY <1>5 DEF Above
  <2>2. PICK k \in DOMAIN w \cap DOMAIN p : p[k] > w[k] /\ \A j \in 1 .. k - 1 : p[j] = w[j]
    BY <1>5 DEF Above
  <2>3. i < k \/ i = k \/ k < i
    BY <1>1
  <2> QED
    BY <1>1, <2>1, <2>2, <2>3
<1>6. /\ IsPrefix(p, w) \/ Above(w, p)
      /\ IsPrefix(w, p) \/ Above(p, w)
  BY DEF AtLeast, Above
<1> QED
  BY <1>2, <1>3, <1>4, <1>5, <1>6

LEMMA Transitive ==
  ASSUME NEW u \in Word, NEW v \in Word, NEW w \in Word, AtLeast(u, v), AtLeast(v, w)
  PROVE  AtLeast(u, w)
<1>1. /\ Len(u) \in Nat /\ Len(v) \in Nat /\ Len(w) \in Nat
      /\ DOMAIN u = 1 .. Len(u) /\ DOMAIN v = 1 .. Len(v) /\ DOMAIN w = 1 .. Len(w)
      /\ \A i \in DOMAIN u : u[i] \in Nat
      /\ \A i \in DOMAIN v : v[i] \in Nat
      /\ \A i \in DOMAIN w : w[i] \in Nat
  BY DEF Word
<1>2. CASE IsPrefix(v, u) /\ IsPrefix(w, v)
  <2>1. Len(w) <= Len(u) /\ \A i \in 1 .. Len(w) : w[i] = u[i]
    BY <1>1, <1>2, PrefixIs
  <2> QED
    BY <2>1, PrefixIs DEF AtLeast
<1>3. CASE IsPrefix(v, u) /\ Above(v, w)
  <2>1. PICK i \in DOMAIN v \cap DOMAIN w : v[i] > w[i] /\ \A j \in 1 .. i - 1 : v[j] = w[j]
    BY <1>3 DEF Above
  <2>2. Len(v) <= Len(u) /\ \A j \in 1 .. Len(v) : v[j] = u[j]
    BY <1>3, PrefixIs
  <2>3. i \in DOMAIN u \cap DOMAIN w /\ u[i] > w[i] /\ \A j \in 1 .. i - 1 : u[j] = w[j]
    BY <1>1, <2>1, <2>2
  <2> QED
    BY <2>3 DEF AtLeast
<1>4. CASE Above(u, v) /\ IsPrefix(w, v)
  <2>1. PICK i \in DOMAIN u \cap DOMAIN v : u[i] > v[i] /\ \A j \in 1 .. i - 1 : u[j] = v[j]
    BY <1>4 DEF Above
  <2>2. Len(w) <= Len(v) /\ \A j \in 1 .. Len(w) : w[j] = v[j]
    BY <1>4, PrefixIs
  <2>3. CASE i <= Len(w)
    <3>1. i \in DOMAIN u \cap DOMAIN w /\ u[i] > w[i] /\ \A j \in 1 .. i - 1 : u[j] = w[j]
      BY <1>1, <2>1, <2>2, <2>3
    <3> QED
      BY <3>1 DEF AtLeast
  <2>4. CASE i > Len(w)
    <3>1. Len(w) <= Len(u) /\ \A j \in 1 .. Len(w) : w[j] = u[j]
      BY <1>1, <2>1, <2>2, <2>4
    <3> QED
      BY <3>1, PrefixIs DEF AtLeast
  <2> QED
    BY <1>1, <2>1, <2>3, <2>4
<1>5. CASE Above(u, v) /\ Above(v, w)
  <2>1. PICK i \in DOMAIN u \cap DOMAIN v : u[i] > v[i] /\ \A j \in 1 .. i - 1 : u[j] = v[j]
    BY <1>5 DEF Above
  <2>2. PICK k \in DOMAIN v \cap DOMAIN w : v[k] > w[k] /\ \A j \in 1 .. k - 1 : v[j] = w[j]
    BY <1>5 DEF Above
  <2>3. CASE i <= k
    <3>1. i \in DOMAIN u \cap DOMAIN w
      BY <1>1, <2>1, <2>2, <2>3
    <3>2. v[i] >= w[i]
      <4>1. v[i] \in Nat /\ w[i] \in Nat
        BY <1>1, <2>1, <3>1
      <4>2. i = k \/ i \in 1 .. k - 1
        BY <1>1, <2>1, <2>2, <2>3
      <4> QED
        BY <2>2, <4>1, <4>2
    <3>3. u[i] > w[i]
      BY <1>1, <2>1, <3>1, <3>2
    <3>4. \A j \in 1 .. i - 1 : u[j] = w[j]
      BY <1>1, <2>1, <2>2, <2>3
    <3> QED
      BY <3>1, <3>3, <3>4 DEF AtLeast
  <2>4. CASE k < i
    <3>1. k \in DOMAIN u \cap DOMAIN w /\ u[k] > w[k] /\ \A j \in 1 .. k - 1 : u[j] = w[j]
      BY <1>1, <2>1, <2>2, <2>4
    <3> QED
      BY <3>1 DEF AtLeast
  <2> QED
    BY <1>1, <2>1, <2>2, <2>3, <2>4
<1>6. /\ IsPrefix(v, u) \/ Above(u, v)
      /\ IsPrefix(w, v) \/ Above(v, w)
  BY DEF AtLeast, Above
<1> QED
  BY <1>2, <1>3, <1>4, <1>5, <1>6

\* What lies between a prefix and a word with it has the prefix too.
LEMMA Between ==
  ASSUME NEW p \in Word, NEW v \in Word, NEW w \in Word,
         AtLeast(v, p), AtLeast(w, v), IsPrefix(p, w)
  PROVE  IsPrefix(p, v)
<1>1. /\ Len(p) \in Nat /\ Len(v) \in Nat /\ Len(w) \in Nat
      /\ DOMAIN p = 1 .. Len(p) /\ DOMAIN v = 1 .. Len(v) /\ DOMAIN w = 1 .. Len(w)
      /\ \A i \in DOMAIN p : p[i] \in Nat
      /\ \A i \in DOMAIN v : v[i] \in Nat
      /\ \A i \in DOMAIN w : w[i] \in Nat
  BY DEF Word
<1>2. Len(p) <= Len(w) /\ \A j \in 1 .. Len(p) : p[j] = w[j]
  BY PrefixIs
<1>3. CASE ~ IsPrefix(p, v)
  <2>1. PICK i \in DOMAIN v \cap DOMAIN p : v[i] > p[i] /\ \A j \in 1 .. i - 1 : v[j] = p[j]
    BY <1>3 DEF AtLeast
  <2>2. i \in DOMAIN v \cap DOMAIN w /\ v[i] > w[i] /\ \A j \in 1 .. i - 1 : v[j] = w[j]
    BY <1>1, <1>2, <2>1
  <2>3. AtLeast(v, w)
    BY <2>2 DEF AtLeast
  <2>4. v = w
    BY <2>3, Antisymmetric
  <2> QED
    BY <2>4
<1> QED
  BY <1>3

-----------------------------------------------------------------------------
(* The dictionary is the kept lines in order.                               *)

KeptLines(f) == {i \in DOMAIN f : Kept(f[i])}

\* Line j does not come after line i in the dictionary.
NotAfter(f, j, i) == ~AtLeast(f[j], f[i]) \/ (f[j] = f[i] /\ j <= i)

LEMMA PlaceIs ==
  ASSUME NEW f, NEW i
  PROVE  PlaceOf(f, KeptLines(f), i) = Cardinality({j \in KeptLines(f) : NotAfter(f, j, i)})
BY DEF PlaceOf, NotAfter

LEMMA Linear ==
  ASSUME NEW f \in Seq(Word)
  PROVE  /\ \A i \in DOMAIN f : NotAfter(f, i, i)
         /\ \A i, j \in DOMAIN f : NotAfter(f, i, j) \/ NotAfter(f, j, i)
         /\ \A i, j \in DOMAIN f : NotAfter(f, i, j) /\ NotAfter(f, j, i) => i = j
         /\ \A i, j, k \in DOMAIN f : NotAfter(f, i, j) /\ NotAfter(f, j, k) => NotAfter(f, i, k)
         /\ \A i, j \in DOMAIN f : NotAfter(f, i, j) => AtLeast(f[j], f[i])
<1>1. DOMAIN f \subseteq Nat /\ \A i \in DOMAIN f : f[i] \in Word
  OBVIOUS
<1>2. \A i \in DOMAIN f : NotAfter(f, i, i)
  BY <1>1 DEF NotAfter
<1>3. ASSUME NEW i \in DOMAIN f, NEW j \in DOMAIN f
      PROVE  NotAfter(f, i, j) \/ NotAfter(f, j, i)
  <2>1. CASE f[i] = f[j]
    BY <1>1, <2>1 DEF NotAfter
  <2>2. CASE f[i] # f[j]
    <3>1. ~AtLeast(f[i], f[j]) \/ ~AtLeast(f[j], f[i])
      BY <1>1, <2>2, Antisymmetric
    <3> QED
      BY <3>1 DEF NotAfter
  <2> QED
    BY <2>1, <2>2
<1>4. ASSUME NEW i \in DOMAIN f, NEW j \in DOMAIN f, NotAfter(f, i, j)
      PROVE  AtLeast(f[j], f[i])
  <2>1. f[i] \in Word /\ f[j] \in Word
    BY <1>1
  <2> QED
    BY <1>4, <2>1, Total, AtLeastItself DEF NotAfter
<1>5. ASSUME NEW i \in DOMAIN f, NEW j \in DOMAIN f, NotAfter(f, i, j), NotAfter(f, j, i)
      PROVE  i = j
  <2>1. f[i] \in Word /\ f[j] \in Word
    BY <1>1
  <2>2. AtLeast(f[i], f[j]) /\ AtLeast(f[j], f[i])
    BY <1>4, <1>5
  <2> QED
    BY <1>1, <1>5, <2>2 DEF NotAfter
<1>6. ASSUME NEW i \in DOMAIN f, NEW j \in DOMAIN f, NEW k \in DOMAIN f,
             NotAfter(f, i, j), NotAfter(f, j, k)
      PROVE  NotAfter(f, i, k)
  <2>1. f[i] \in Word /\ f[j] \in Word /\ f[k] \in Word
    BY <1>1
  <2>2. AtLeast(f[j], f[i]) /\ AtLeast(f[k], f[j])
    BY <1>4, <1>6
  <2>3. CASE AtLeast(f[i], f[k])
    <3>1. AtLeast(f[i], f[j])
      BY <2>1, <2>2, <2>3, Transitive
    <3>2. f[i] = f[j]
      BY <2>1, <2>2, <3>1, Antisymmetric
    <3>3. AtLeast(f[j], f[k])
      BY <2>3, <3>2
    <3>4. f[j] = f[k]
      BY <2>1, <2>2, <3>3, Antisymmetric
    <3>5. i <= j /\ j <= k
      BY <1>6, <3>1, <3>3 DEF NotAfter
    <3> QED
      BY <1>1, <3>2, <3>4, <3>5 DEF NotAfter
  <2>4. CASE ~AtLeast(f[i], f[k])
    BY <2>4 DEF NotAfter
  <2> QED
    BY <2>3, <2>4
<1> QED
  BY <1>2, <1>3, <1>4, <1>5, <1>6

\* Each kept line has a place of its own, and each place a line.
LEMMA Places ==
  ASSUME NEW f \in Seq(Word)
  PROVE  LET K == KeptLines(f)
             Place(i) == PlaceOf(f, K, i)
         IN /\ IsFiniteSet(K) /\ Cardinality(K) \in Nat
            /\ \A i \in K : Place(i) \in 1 .. Cardinality(K)
            /\ \A i, j \in K : Place(i) <= Place(j) => NotAfter(f, i, j)
            /\ \A i, j \in K : Place(i) = Place(j) => i = j
            /\ \A n \in 1 .. Cardinality(K) : \E i \in K : Place(i) = n
<1> DEFINE K == KeptLines(f)
           Place(i) == PlaceOf(f, K, i)
           UpTo(i) == {j \in K : NotAfter(f, j, i)}
<1>1. IsFiniteSet(K) /\ Cardinality(K) \in Nat /\ K \subseteq DOMAIN f
  <2>1. Len(f) \in Nat /\ DOMAIN f = 1 .. Len(f)
    OBVIOUS
  <2>2. IsFiniteSet(1 .. Len(f))
    BY <2>1, FS_Interval
  <2>3. K \in SUBSET (1 .. Len(f))
    BY <2>1 DEF KeptLines
  <2>4. IsFiniteSet(K)
    BY <2>2, <2>3, FS_Subset
  <2> QED
    BY <2>1, <2>3, <2>4, FS_CardinalityType
<1>2. ASSUME NEW i \in K
      PROVE  /\ Place(i) = Cardinality(UpTo(i)) /\ UpTo(i) \in SUBSET K
             /\ IsFiniteSet(UpTo(i)) /\ Place(i) \in Nat /\ i \in UpTo(i)
  <2>1. Place(i) = Cardinality(UpTo(i)) /\ UpTo(i) \in SUBSET K
    BY PlaceIs
  <2>2. IsFiniteSet(UpTo(i)) /\ Cardinality(UpTo(i)) \in Nat
    BY <1>1, <2>1, FS_Subset, FS_CardinalityType
  <2>3. i \in UpTo(i)
    BY <1>1, Linear
  <2> QED
    BY <2>1, <2>2, <2>3
<1> HIDE DEF Place, UpTo, K
<1>3. ASSUME NEW i \in K
      PROVE  Place(i) \in 1 .. Cardinality(K)
  <2>1. Place(i) <= Cardinality(K)
    BY <1>1, <1>2, FS_Subset
  <2>2. Place(i) # 0
    BY <1>2, FS_EmptySet
  <2> QED
    BY <1>1, <1>2, <2>1, <2>2
<1>4. ASSUME NEW i \in K, NEW j \in K, ~NotAfter(f, i, j)
      PROVE  Place(j) < Place(i)
  <2>1. i \in DOMAIN f /\ j \in DOMAIN f
    BY <1>1
  <2>2. NotAfter(f, j, i)
    BY <1>4, <2>1, Linear
  <2>3. ASSUME NEW k \in UpTo(j)
        PROVE  k \in UpTo(i)
    <3>1. k \in K /\ k \in DOMAIN f /\ NotAfter(f, k, j)
      BY <1>1 DEF UpTo
    <3>2. NotAfter(f, k, i)
      BY <2>1, <2>2, <3>1, Linear
    <3> QED
      BY <3>1, <3>2 DEF UpTo
  <2>4. UpTo(j) \in SUBSET UpTo(i) /\ UpTo(j) # UpTo(i)
    <3>1. i \in UpTo(i)
      BY <1>2
    <3>2. i \notin UpTo(j)
      BY <1>4 DEF UpTo
    <3> QED
      BY <2>3, <3>1, <3>2
  <2>5. Cardinality(UpTo(j)) <= Cardinality(UpTo(i)) /\ Cardinality(UpTo(j)) # Cardinality(UpTo(i))
    BY <1>2, <2>4, FS_Subset
  <2> QED
    BY <1>2, <2>5
<1>5. ASSUME NEW i \in K, NEW j \in K, Place(i) <= Place(j)
      PROVE  NotAfter(f, i, j)
  BY <1>2, <1>4, <1>5
<1>6. ASSUME NEW i \in K, NEW j \in K, Place(i) = Place(j)
      PROVE  i = j
  <2>1. NotAfter(f, i, j) /\ NotAfter(f, j, i)
    BY <1>2, <1>5, <1>6
  <2> QED
    BY <1>1, <2>1, Linear
<1>7. ASSUME NEW n \in 1 .. Cardinality(K)
      PROVE  \E i \in K : Place(i) = n
  <2> DEFINE g == [i \in K |-> Place(i)]
             N == 1 .. Cardinality(K)
  <2>1. g \in Injection(K, N)
    BY <1>3, <1>6 DEF Injection, IsInjective
  <2>2. IsFiniteSet(N) /\ Cardinality(N) = Cardinality(K)
    BY <1>1, FS_Interval
  <2>3. g \in Surjection(K, N)
    BY <2>1, <2>2, FS_Injection
  <2>4. \E i \in K : g[i] = n
    BY <2>3 DEF Surjection
  <2> QED
    BY <2>4
<1> QED
  BY <1>1, <1>3, <1>5, <1>6, <1>7 DEF Place, K

\* at says which line the word at a place of the dictionary comes from.
DictFrom(d, f, at) ==
  LET K == KeptLines(f) IN
  /\ d \in Seq(Word) /\ Len(d) = Cardinality(K)
  /\ at \in Bijection(DOMAIN d, K)
  /\ \A n \in DOMAIN d : d[n] = f[at[n]] /\ Kept(d[n])
  /\ \A m, n \in DOMAIN d : m <= n => AtLeast(d[n], d[m])

LEMMA DictIs ==
  ASSUME NEW f \in Seq(Word)
  PROVE  \E at : DictFrom(DictOf(f), f, at)
<1> DEFINE K == KeptLines(f)
           d == DictOf(f)
           Place(i) == PlaceOf(f, K, i)
           at == [n \in 1 .. Cardinality(K) |-> CHOOSE i \in K : Place(i) = n]
<1>1. /\ IsFiniteSet(K) /\ Cardinality(K) \in Nat
      /\ \A i \in K : Place(i) \in 1 .. Cardinality(K)
      /\ \A i, j \in K : Place(i) <= Place(j) => NotAfter(f, i, j)
      /\ \A i, j \in K : Place(i) = Place(j) => i = j
      /\ \A n \in 1 .. Cardinality(K) : \E i \in K : Place(i) = n
  BY Places
<1>2. d = [n \in 1 .. Cardinality(K) |-> f[at[n]]]
  BY DEF DictOf, KeptLines
<1>3. ASSUME NEW n \in 1 .. Cardinality(K)
      PROVE  at[n] \in K /\ Place(at[n]) = n
  <2>1. \E i \in K : Place(i) = n
    BY <1>1
  <2>2. at[n] = CHOOSE i \in K : Place(i) = n
    OBVIOUS
  <2> HIDE DEF Place, K, at
  <2> QED
    BY <2>1, <2>2
<1>4. /\ K \subseteq DOMAIN f /\ \A i \in DOMAIN f : f[i] \in Word
      /\ \A i \in K : Kept(f[i])
  BY DEF KeptLines
<1> HIDE DEF Place, K, at, d
<1>5. d \in Seq(Word) /\ Len(d) = Cardinality(K) /\ DOMAIN d = 1 .. Cardinality(K)
  <2>1. \A n \in 1 .. Cardinality(K) : f[at[n]] \in Word
    BY <1>3, <1>4
  <2>2. d \in [1 .. Cardinality(K) -> Word]
    BY <1>2, <2>1
  <2> QED
    BY <1>1, <2>2, IsASeq
<1>6. at \in Bijection(DOMAIN d, K)
  <2>1. at \in [DOMAIN d -> K]
    <3>1. at = [n \in 1 .. Cardinality(K) |-> at[n]]
      BY DEF at
    <3> QED
      BY <1>3, <1>5, <3>1
  <2>2. ASSUME NEW m \in DOMAIN d, NEW n \in DOMAIN d, at[m] = at[n]
        PROVE  m = n
    BY <1>3, <1>5, <2>2
  <2>3. ASSUME NEW i \in K
        PROVE  \E n \in DOMAIN d : at[n] = i
    <3>1. Place(i) \in DOMAIN d
      BY <1>1, <1>5
    <3>2. at[Place(i)] \in K /\ Place(at[Place(i)]) = Place(i)
      BY <1>3, <1>5, <3>1
    <3>3. at[Place(i)] = i
      BY <1>1, <3>2
    <3> QED
      BY <3>1, <3>3
  <2> QED
    BY <2>1, <2>2, <2>3 DEF Bijection, Injection, Surjection, IsInjective
<1>7. ASSUME NEW n \in DOMAIN d
      PROVE  d[n] = f[at[n]] /\ Kept(d[n])
  BY <1>2, <1>3, <1>4, <1>5
<1>8. ASSUME NEW m \in DOMAIN d, NEW n \in DOMAIN d, m <= n
      PROVE  AtLeast(d[n], d[m])
  <2>1. at[m] \in K /\ at[n] \in K /\ Place(at[m]) <= Place(at[n])
    BY <1>3, <1>5, <1>8
  <2>2. NotAfter(f, at[m], at[n])
    BY <1>1, <2>1
  <2>3. AtLeast(f[at[n]], f[at[m]])
    BY <1>4, <2>1, <2>2, Linear
  <2> QED
    BY <1>7, <2>3
<1>9. DictFrom(d, f, at)
  BY <1>5, <1>6, <1>7, <1>8 DEF DictFrom, K
<1> QED
  BY <1>9 DEF d

-----------------------------------------------------------------------------
(* The answer is a run of the dictionary.                                   *)

Sorted(d) == d \in Seq(Word) /\ \A m, n \in DOMAIN d : m <= n => AtLeast(d[n], d[m])

\* From its start on the dictionary is at least the prefix, and its words with the
\* prefix stand together there.
LEMMA StartIs ==
  ASSUME NEW d, Sorted(d), NEW p \in Word
  PROVE  /\ Len(d) \in Nat /\ DOMAIN d = 1 .. Len(d) /\ Start(d, p) \in 1 .. Len(d) + 1
         /\ Begin(d, p) = {} <=> Start(d, p) = Len(d) + 1
         /\ \A i \in DOMAIN d : i >= Start(d, p) => AtLeast(d[i], p)
         /\ \A i \in DOMAIN d : IsPrefix(p, d[i]) =>
              /\ i >= Start(d, p)
              /\ \A j \in Start(d, p) .. i : IsPrefix(p, d[j])
<1> DEFINE S == Start(d, p)
           B == Begin(d, p)
<1>1. /\ d \in Seq(Word) /\ \A m, n \in DOMAIN d : m <= n => AtLeast(d[n], d[m])
      /\ Len(d) \in Nat /\ DOMAIN d = 1 .. Len(d) /\ \A i \in DOMAIN d : d[i] \in Word
  BY DEF Sorted
<1>2. B \in SUBSET Nat /\ \A i : i \in B <=> i \in DOMAIN d /\ AtLeast(d[i], p)
  BY <1>1 DEF Begin
<1>3. ASSUME B # {}
      PROVE  S \in B /\ \A i \in B : S <= i
  <2>1. \E i \in B : \A j \in B : i <= j
    BY <1>2, <1>3, Lowest
  <2>2. S = CHOOSE i \in B : \A j \in B : i <= j
    BY <1>3 DEF Start
  <2> HIDE DEF S, B
  <2> QED
    BY <2>1, <2>2
<1>4. B = {} => S = Len(d) + 1
  BY DEF Start
<1> HIDE DEF S, B
<1>5. S \in 1 .. Len(d) + 1 /\ (B = {} <=> S = Len(d) + 1)
  BY <1>1, <1>2, <1>3, <1>4
<1>6. ASSUME NEW i \in DOMAIN d, i >= S
      PROVE  AtLeast(d[i], p)
  <2>1. B # {}
    BY <1>1, <1>4, <1>6
  <2>2. S \in DOMAIN d /\ AtLeast(d[S], p) /\ AtLeast(d[i], d[S])
    BY <1>1, <1>2, <1>3, <1>6, <2>1
  <2> QED
    BY <1>1, <2>2, Transitive
<1>7. ASSUME NEW i \in DOMAIN d, IsPrefix(p, d[i])
      PROVE  i >= S /\ \A j \in S .. i : IsPrefix(p, d[j])
  <2>1. AtLeast(d[i], p)
    BY <1>7 DEF AtLeast
  <2>2. i \in B
    BY <1>2, <2>1
  <2>3. i >= S
    BY <1>1, <1>2, <1>3, <2>2
  <2>4. ASSUME NEW j \in S .. i
        PROVE  IsPrefix(p, d[j])
    <3>1. j \in DOMAIN d /\ j >= S /\ j <= i
      BY <1>1, <1>5, <2>3
    <3>2. AtLeast(d[j], p) /\ AtLeast(d[i], d[j])
      BY <1>1, <1>6, <3>1
    <3> QED
      BY <1>1, <1>7, <3>1, <3>2, Between
  <2> QED
    BY <2>3, <2>4
<1> QED
  BY <1>1, <1>5, <1>6, <1>7 DEF S, B

LEMMA AnswerIs ==
  ASSUME NEW d, Sorted(d), NEW p \in Word
  PROVE  LET a == Answer(d, p)
             S == Start(d, p)
             n == Len(a)
         IN /\ a \in Seq(Word) /\ n \in 0 .. MaxAnswers /\ S + n - 1 <= Len(d)
            /\ Stops(d, p, n)
            /\ \A i \in 1 .. n : a[i] = d[S + i - 1] /\ IsPrefix(p, a[i])
<1> DEFINE a == Answer(d, p)
           S == Start(d, p)
           Good(k) == k \in 0 .. Limit /\ Stops(d, p, k) /\ \A j \in 0 .. k - 1 : ~Stops(d, p, j)
           n == CHOOSE k \in 0 .. Limit :
                  Stops(d, p, k) /\ \A j \in 0 .. k - 1 : ~Stops(d, p, j)
<1>1. /\ Len(d) \in Nat /\ DOMAIN d = 1 .. Len(d) /\ S \in 1 .. Len(d) + 1
      /\ \A i \in DOMAIN d : d[i] \in Word
  BY StartIs DEF Sorted
<1>2. Limit = MaxAnswers /\ Limit \in Nat
  BY QueryAssumption DEF Limit
<1>3. Good(n)
  <2> DEFINE T == {k \in 0 .. Limit : Stops(d, p, k)}
  <2>1. T \in SUBSET Nat /\ Limit \in T
    BY <1>2 DEF Stops
  <2>2. PICK k \in T : \A j \in T : k <= j
    BY <2>1, Lowest
  <2>3. k \in 0 .. Limit /\ Stops(d, p, k) /\ \A j \in 0 .. k - 1 : ~Stops(d, p, j)
    BY <1>2, <2>2
  <2>4. \E x \in 0 .. Limit : Stops(d, p, x) /\ \A j \in 0 .. x - 1 : ~Stops(d, p, j)
    BY <2>3
  <2> QED
    BY <2>4
<1>4. a = SubSeq(d, S, S + n - 1)
  BY DEF Answer
<1>5. n \in 0 .. MaxAnswers /\ n \in Nat
  BY <1>2, <1>3
<1>6. ASSUME NEW j \in 0 .. n - 1
      PROVE  S + j <= Len(d) /\ IsPrefix(p, d[S + j])
  BY <1>1, <1>3, <1>5 DEF Stops
<1>7. Stops(d, p, n)
  BY <1>3
<1> HIDE DEF a, S, n, Good
<1>8. S + n - 1 <= Len(d)
  <2>1. CASE n = 0
    BY <1>1, <2>1
  <2>2. CASE n # 0
    <3>1. n - 1 \in 0 .. n - 1
      BY <1>5, <2>2
    <3>2. S + (n - 1) <= Len(d)
      BY <1>6, <3>1
    <3> QED
      BY <1>1, <1>5, <3>2
  <2> QED
    BY <2>1, <2>2
<1>9. /\ a \in Seq(Word) /\ Len(a) = n
      /\ \A i \in 1 .. n : a[i] = d[S + i - 1]
  <2> DEFINE e == S + n - 1
  <2>1. \A i \in S .. e : d[i] \in Word
    BY <1>1, <1>5, <1>8
  <2>2. S \in Int /\ e \in Int
    BY <1>1, <1>5
  <2>3. e - S + 1 = n /\ (S <= e <=> n # 0)
    BY <1>1, <1>5
  <2> HIDE DEF e
  <2>4. /\ SubSeq(d, S, e) \in Seq(Word)
        /\ Len(SubSeq(d, S, e)) = IF S <= e THEN e - S + 1 ELSE 0
        /\ \A i \in 1 .. e - S + 1 : SubSeq(d, S, e)[i] = d[S + i - 1]
    BY <2>1, <2>2, SubSeqProperties
  <2>5. a = SubSeq(d, S, e)
    BY <1>4 DEF e
  <2>6. Len(a) = n
    BY <1>5, <2>4, <2>3, <2>5
  <2> QED
    BY <2>4, <2>3, <2>6, <2>5
<1>10. ASSUME NEW i \in 1 .. n
       PROVE  IsPrefix(p, a[i])
  <2>1. i - 1 \in 0 .. n - 1 /\ S + (i - 1) = S + i - 1
    BY <1>1, <1>5
  <2>2. IsPrefix(p, d[S + (i - 1)])
    BY <1>6, <2>1
  <2> QED
    BY <1>9, <2>1, <2>2
<1> QED
  BY <1>5, <1>7, <1>8, <1>9, <1>10 DEF a, S

\* The undefined look behind the end.
LEMMA PastIs ==
  ASSUME NEW d, Sorted(d), NEW p \in Word
  PROVE  PastTheEnd(d, p) <=> LastMatches(d, p)
<1> DEFINE a == Answer(d, p)
           S == Start(d, p)
           n == Len(a)
           M == {i \in DOMAIN d : IsPrefix(p, d[i])}
<1>1. /\ Len(d) \in Nat /\ DOMAIN d = 1 .. Len(d) /\ S \in 1 .. Len(d) + 1
      /\ Begin(d, p) = {} <=> S = Len(d) + 1
      /\ \A i \in DOMAIN d : IsPrefix(p, d[i]) =>
           /\ i >= S
           /\ \A j \in S .. i : IsPrefix(p, d[j])
      /\ d = <<>> <=> Len(d) = 0
  BY StartIs DEF Sorted
<1>2. /\ n \in 0 .. MaxAnswers /\ S + n - 1 <= Len(d)
      /\ Stops(d, p, n)
      /\ \A i \in 1 .. n : a[i] = d[S + i - 1] /\ IsPrefix(p, a[i])
  BY AnswerIs
<1>3. PastTheEnd(d, p) <=> (S # Len(d) + 1 /\ n < MaxAnswers /\ S + n > Len(d))
  BY <1>1 DEF PastTheEnd, Limit
<1>4. LastMatches(d, p) <=> (Len(d) # 0 /\ IsPrefix(p, d[Len(d)]) /\ Cardinality(M) < MaxAnswers)
  BY <1>1 DEF LastMatches
<1>5. MaxAnswers \in Nat /\ Limit = MaxAnswers
  BY QueryAssumption DEF Limit
<1>6. Stops(d, p, n) <=> (n = Limit \/ S + n > Len(d) \/ ~IsPrefix(p, d[S + n]))
  BY DEF Stops
<1> HIDE DEF a, S, n
<1>7. ASSUME S # Len(d) + 1, IsPrefix(p, d[Len(d)])
      PROVE  Cardinality(M) = Len(d) - S + 1
  <2>1. M = S .. Len(d)
    BY <1>1, <1>7
  <2>2. S \in Int /\ Len(d) \in Int /\ ~ (S > Len(d))
    BY <1>1, <1>7
  <2>3. Cardinality(S .. Len(d)) = Len(d) - S + 1
    BY <2>2, FS_Interval
  <2> QED
    BY <2>1, <2>3
<1>8. ASSUME S # Len(d) + 1, n < MaxAnswers, S + n > Len(d)
      PROVE  Len(d) # 0 /\ IsPrefix(p, d[Len(d)]) /\ Cardinality(M) < MaxAnswers
  <2>1. S + n - 1 = Len(d) /\ n \in 1 .. n
    BY <1>1, <1>2, <1>8
  <2>2. a[n] = d[S + n - 1] /\ IsPrefix(p, a[n])
    BY <1>2, <2>1
  <2>3. IsPrefix(p, d[Len(d)])
    BY <2>1, <2>2
  <2>4. Cardinality(M) = Len(d) - S + 1
    BY <1>7, <1>8, <2>3
  <2>5. Len(d) - S + 1 = n
    BY <1>1, <1>2, <2>1
  <2>6. Len(d) # 0
    BY <1>1, <1>8
  <2> QED
    BY <1>8, <2>3, <2>4, <2>5, <2>6
<1>9. ASSUME Len(d) # 0, IsPrefix(p, d[Len(d)]), Cardinality(M) < MaxAnswers
      PROVE  S # Len(d) + 1 /\ n < MaxAnswers /\ S + n > Len(d)
  <2>1. Len(d) \in DOMAIN d
    BY <1>1, <1>9
  <2>2. Len(d) >= S /\ \A j \in S .. Len(d) : IsPrefix(p, d[j])
    BY <1>1, <1>9, <2>1
  <2>3. S # Len(d) + 1
    BY <1>1, <2>2
  <2>4. Len(d) - S + 1 < MaxAnswers
    BY <1>7, <1>9, <2>3
  <2>5. n < MaxAnswers
    BY <1>1, <1>2, <1>5, <2>4
  <2>6. CASE S + n <= Len(d)
    <3>1. S + n \in S .. Len(d)
      BY <1>1, <1>2, <2>6
    <3>2. IsPrefix(p, d[S + n])
      BY <2>2, <3>1
    <3> QED
      BY <1>1, <1>2, <1>5, <1>6, <2>5, <2>6, <3>2
  <2> QED
    BY <1>1, <1>2, <2>3, <2>5, <2>6
<1> QED
  BY <1>3, <1>4, <1>8, <1>9

-----------------------------------------------------------------------------
(* The answer is what a client expects.                                     *)

Where(s, w) == {i \in DOMAIN s : s[i] = w}

LEMMA WhereIsFinite ==
  ASSUME NEW s \in Seq(Word), NEW w
  PROVE  /\ IsFiniteSet(Where(s, w)) /\ Occurrences(s, w) = Cardinality(Where(s, w))
         /\ Occurrences(s, w) \in Nat
<1>1. Len(s) \in Nat /\ DOMAIN s = 1 .. Len(s)
  OBVIOUS
<1>2. IsFiniteSet(1 .. Len(s)) /\ Where(s, w) \in SUBSET (1 .. Len(s))
  BY <1>1, FS_Interval DEF Where
<1>3. IsFiniteSet(Where(s, w))
  BY <1>2, FS_Subset
<1>4. Occurrences(s, w) = Cardinality(Where(s, w))
  BY DEF Occurrences, Where
<1> QED
  BY <1>3, <1>4, FS_CardinalityType

\* If each place of w in s has a place of w in t of its own, w is as often in t.
LEMMA AsOften ==
  ASSUME NEW s \in Seq(Word), NEW t \in Seq(Word), NEW w, NEW g \in [DOMAIN s -> Int],
         \A i \in Where(s, w) : g[i] \in Where(t, w),
         \A i, j \in Where(s, w) : g[i] = g[j] => i = j
  PROVE  Occurrences(s, w) <= Occurrences(t, w)
<1> DEFINE h == [i \in Where(s, w) |-> g[i]]
<1>1. h \in Injection(Where(s, w), Where(t, w))
  BY DEF Injection, IsInjective
<1>2. Cardinality(Where(s, w)) <= Cardinality(Where(t, w))
  BY <1>1, WhereIsFinite, FS_Injection
<1> QED
  BY <1>2, WhereIsFinite

LEMMA ExpectedIs ==
  ASSUME NEW f \in Seq(Word), NEW p \in Word
  PROVE  Expected(Answer(DictOf(f), p), f, p)
<1> DEFINE d == DictOf(f)
           a == Answer(d, p)
           S == Start(d, p)
           n == Len(a)
<1>1. PICK at : DictFrom(d, f, at)
  BY DictIs
<1> HIDE DEF d
<1>2. Sorted(d)
  BY <1>1 DEF DictFrom, Sorted
<1>3. /\ Len(d) \in Nat /\ DOMAIN d = 1 .. Len(d) /\ S \in 1 .. Len(d) + 1
      /\ \A i \in DOMAIN d : i >= S => AtLeast(d[i], p)
      /\ \A i \in DOMAIN d : IsPrefix(p, d[i]) =>
           /\ i >= S
           /\ \A j \in S .. i : IsPrefix(p, d[j])
  BY <1>2, StartIs
<1>4. /\ a \in Seq(Word) /\ n \in 0 .. MaxAnswers /\ S + n - 1 <= Len(d)
      /\ Stops(d, p, n)
      /\ \A i \in 1 .. n : a[i] = d[S + i - 1] /\ IsPrefix(p, a[i])
  BY <1>2, AnswerIs
<1>5. Stops(d, p, n) <=> (n = Limit \/ S + n > Len(d) \/ ~IsPrefix(p, d[S + n]))
  BY DEF Stops
<1>6. MaxAnswers \in Nat \ {0} /\ Limit = MaxAnswers /\ MaxWord \in Nat \ {0}
  BY QueryAssumption DEF Limit
<1> HIDE DEF a, S
<1>7. /\ at \in [DOMAIN d -> KeptLines(f)]
      /\ \A i, j \in DOMAIN d : at[i] = at[j] => i = j
      /\ \A k \in KeptLines(f) : \E i \in DOMAIN d : at[i] = k
  BY <1>1 DEF DictFrom, Bijection, Injection, Surjection, IsInjective
<1>8. /\ \A i \in DOMAIN d : d[i] = f[at[i]] /\ Kept(d[i])
      /\ \A i, j \in DOMAIN d : i <= j => AtLeast(d[j], d[i])
      /\ \A i \in DOMAIN d : d[i] \in Word
  BY <1>1 DEF DictFrom
<1>9. /\ KeptLines(f) \subseteq DOMAIN f /\ DOMAIN f = 1 .. Len(f) /\ Len(f) \in Nat
      /\ \A k \in DOMAIN f : f[k] \in Word
  BY DEF KeptLines
<1>10. DOMAIN a = 1 .. n /\ n \in Nat
  BY <1>4
<1>11. ASSUME NEW i \in 1 .. n
       PROVE  /\ S + i - 1 \in DOMAIN d /\ a[i] = d[S + i - 1] /\ a[i] \in Word
              /\ IsPrefix(p, a[i]) /\ Len(a[i]) \in 1 .. MaxWord
  <2>1. S + i - 1 \in DOMAIN d
    BY <1>3, <1>4, <1>10
  <2>2. a[i] = d[S + i - 1] /\ IsPrefix(p, a[i])
    BY <1>4
  <2>3. a[i] \in Word /\ Kept(a[i])
    BY <1>8, <2>1, <2>2
  <2>4. Len(a[i]) \in 1 .. MaxWord
    BY <1>6, <2>3 DEF Kept, Word
  <2> QED
    BY <2>1, <2>2, <2>3, <2>4
<1>12. ASSUME NEW i \in 1 .. n, i > 1
       PROVE  AtLeast(a[i], a[i - 1])
  <2>1. i - 1 \in 1 .. n
    BY <1>10, <1>12
  <2>2. S + (i - 1) - 1 \in DOMAIN d /\ a[i - 1] = d[S + (i - 1) - 1]
    BY <1>11, <2>1
  <2>3. S + (i - 1) - 1 <= S + i - 1
    BY <1>3, <1>10
  <2> QED
    BY <1>8, <1>11, <2>2, <2>3
<1>13. ASSUME NEW w
       PROVE  Occurrences(a, w) <= Occurrences(f, w)
  <2> DEFINE g == [i \in DOMAIN a |-> at[S + i - 1]]
  <2>1. ASSUME NEW i \in DOMAIN a
        PROVE  /\ S + i - 1 \in DOMAIN d /\ g[i] = at[S + i - 1]
               /\ g[i] \in DOMAIN f /\ f[g[i]] = a[i]
    BY <1>7, <1>8, <1>9, <1>10, <1>11
  <2>2. g \in [DOMAIN a -> Int]
    BY <1>9, <2>1
  <2>3. ASSUME NEW i \in DOMAIN a, NEW j \in DOMAIN a, g[i] = g[j]
        PROVE  i = j
    <3>1. S + i - 1 = S + j - 1
      BY <1>7, <2>1, <2>3
    <3> QED
      BY <1>3, <1>10, <3>1
  <2> HIDE DEF g
  <2>4. /\ \A i \in Where(a, w) : g[i] \in Where(f, w)
        /\ \A i, j \in Where(a, w) : g[i] = g[j] => i = j
    BY <2>1, <2>3 DEF Where
  <2> QED
    BY <1>4, <2>2, <2>4, AsOften
<1>14. ASSUME NEW w \in Range(f), IsPrefix(p, w), Len(w) \in 1 .. MaxWord,
              Occurrences(a, w) < Occurrences(f, w)
       PROVE  n = MaxAnswers /\ AtLeast(w, a[MaxAnswers])
  <2>1. w \in Word /\ Kept(w)
    BY <1>6, <1>9, <1>14 DEF Range, Kept, Word
  <2> DEFINE Inside(i) == i \in S .. S + n - 1
  <2>2. ASSUME \A i \in DOMAIN d : d[i] = w => Inside(i)
        PROVE  FALSE
    <3> DEFINE From(k) == CHOOSE i \in Int : k \in KeptLines(f) => i \in DOMAIN d /\ at[i] = k
               g == [k \in DOMAIN f |-> From(k) - S + 1]
    <3>1. ASSUME NEW k \in DOMAIN f
          PROVE  /\ g[k] \in Int
                 /\ k \in KeptLines(f) => g[k] + S - 1 \in DOMAIN d /\ at[g[k] + S - 1] = k
      <4>1. \E i \in Int : k \in KeptLines(f) => i \in DOMAIN d /\ at[i] = k
        BY <1>3, <1>7
      <4>2. From(k) \in Int /\ (k \in KeptLines(f) => From(k) \in DOMAIN d /\ at[From(k)] = k)
        BY <4>1
      <4>3. g[k] = From(k) - S + 1
        OBVIOUS
      <4> HIDE DEF From, g
      <4>4. g[k] \in Int /\ g[k] + S - 1 = From(k)
        BY <1>3, <4>2, <4>3
      <4> QED
        BY <4>2, <4>4
    <3>2. g \in [DOMAIN f -> Int]
      BY <3>1
    <3> HIDE DEF g
    <3>3. ASSUME NEW k \in Where(f, w)
          PROVE  /\ k \in DOMAIN f /\ k \in KeptLines(f)
                 /\ g[k] \in Where(a, w)
      <4>1. k \in DOMAIN f /\ f[k] = w /\ k \in KeptLines(f)
        BY <2>1 DEF Where, KeptLines
      <4>2. g[k] + S - 1 \in DOMAIN d /\ at[g[k] + S - 1] = k /\ g[k] \in Int
        BY <3>1, <4>1
      <4>3. d[g[k] + S - 1] = w
        BY <1>8, <4>1, <4>2
      <4>4. Inside(g[k] + S - 1)
        BY <2>2, <4>2, <4>3
      <4>5. g[k] \in 1 .. n /\ S + g[k] - 1 = g[k] + S - 1
        BY <1>3, <1>10, <4>2, <4>4
      <4>6. a[g[k]] = w
        BY <1>11, <4>3, <4>5
      <4> QED
        BY <1>10, <4>1, <4>5, <4>6 DEF Where
    <3>4. ASSUME NEW k \in Where(f, w), NEW l \in Where(f, w), g[k] = g[l]
          PROVE  k = l
      BY <3>1, <3>3, <3>4
    <3>5. Occurrences(f, w) <= Occurrences(a, w)
      BY <1>4, <3>2, <3>3, <3>4, AsOften
    <3> QED
      BY <1>4, <1>14, <3>5, WhereIsFinite
  <2>3. PICK i \in DOMAIN d : d[i] = w /\ ~Inside(i)
    BY <2>2
  <2>4. i >= S /\ \A j \in S .. i : IsPrefix(p, d[j])
    BY <1>3, <1>14, <2>3
  <2>5. i >= S + n
    BY <1>3, <1>10, <2>3, <2>4
  <2>6. S + n \in S .. i /\ ~ (S + n > Len(d))
    BY <1>3, <1>10, <2>5
  <2>7. n = MaxAnswers
    BY <1>4, <1>5, <1>6, <2>4, <2>6
  <2>8. n \in 1 .. n /\ S + n - 1 <= i
    BY <1>3, <1>6, <1>10, <2>5, <2>7
  <2>9. S + n - 1 \in DOMAIN d /\ a[n] = d[S + n - 1]
    BY <1>11, <2>8
  <2>10. AtLeast(d[i], d[S + n - 1])
    BY <1>8, <2>8, <2>9
  <2> QED
    BY <2>3, <2>7, <2>9, <2>10
<1>15. n <= MaxAnswers
  BY <1>4, <1>6
<1>16. Expected(a, f, p)
  BY <1>10, <1>11, <1>12, <1>13, <1>14, <1>15 DEF Expected
<1> QED
  BY <1>16 DEF a, d

-----------------------------------------------------------------------------
\* The invariant that carries the others.
THEOREM Invariance == Spec => []IInv
BY Begins, Stays, WordsAssumption, PTL DEF Spec

\* A client gets the answers to its own requests only, as long as it ends them, and
\* no thread queries the dictionary while it is replaced: worker_thread_routine and
\* main_thread_loop, for any number of clients.
THEOREM AnswersAndUpdates == Spec => []ThreadsSound
<1>1. IInv => ThreadsSound
  <2> SUFFICES ASSUME IInv PROVE ThreadsSound
    OBVIOUS
  <2>1. OwnAnswers
    <3>1. ASSUME NEW c \in Clients, c \notin unended, NEW d \in Holders(thread[c])
          PROVE  d = c
      BY <3>1 DEF IInv, Threads, Descriptors, Holders
    <3> QED
      BY <3>1 DEF OwnAnswers
  <2>2. QueriesBetweenUpdates
    BY DEF IInv, Threads, QueriesBetweenUpdates
  <2> QED
    BY <2>1, <2>2 DEF ThreadsSound, IInv
<1> QED
  BY <1>1, Invariance, PTL

\* A dictionary that is not the file's is replaced at the next look, or the file was
\* written in the seconds between reading it and noting that: update_dict_if_necessary,
\* for any files and times.
THEOREM StaleOnce == Spec => []StaleForAReason
<1>1. IInv => StaleForAReason
  BY DEF IInv, Ages, StaleForAReason
<1> QED
  BY <1>1, Invariance, PTL

\* Once a file is read, an answer has the words with the prefix, in order and as often
\* as the file has them, or the smallest of them; and the look behind the end happens
\* exactly when the last word of the dictionary matches and the answer is not full:
\* get_words_with_prefix, for any files, prefixes and limits.
THEOREM Queries == Spec => []QueryExact
<1>1. QueryExact
  <2>1. ASSUME NEW f \in Files, NEW p \in Asked
        PROVE  /\ Expected(Answer(DictOf(f), p), f, p)
               /\ PastTheEnd(DictOf(f), p) <=> LastMatches(DictOf(f), p)
    <3>1. f \in Seq(Word) /\ p \in Word
      BY WordsAssumption DEF Word
    <3>2. Sorted(DictOf(f))
      BY <3>1, DictIs DEF DictFrom, Sorted
    <3> QED
      BY <3>1, <3>2, ExpectedIs, PastIs
  <2> QED
    BY <2>1 DEF QueryExact
<1> QED
  BY <1>1, PTL
================================================================================
