----------------------------- MODULE ProxyProofs -----------------------------
(***************************************************************************)
(* Proofs about Proxy, for any number of clients and bytes, any size of the   *)
(* buffers and whatever may fail outside.                                    *)
(*                                                                          *)
(* The invariant of the proxy says of each operation, whether it waits in the  *)
(* reactor or its handler in the queue, that it is the only one of its kind    *)
(* (Single) and what it means for its session (Placed, Waits, Says).          *)
(***************************************************************************)
EXTENDS Proxy, FiniteSetTheorems, FunctionTheorems, SequenceTheorems, TLAPS

\* Two operations of which a session, or the listener, has only one at a time.
Alike(o, p) ==
  \/ o.act = "accept" /\ p.act = "accept"
  \/ o.act = "connect" /\ p.act = "connect" /\ o.s = p.s
  \/ /\ o.act \in {"receive", "send"} /\ p.act \in {"receive", "send"}
     /\ o.s = p.s /\ o.from = p.from

\* The results in the queue, and the operations under way.
Queue == {ready[i] : i \in 1 .. Len(ready)}
Under == waiting \cup {r.op : r \in Queue}

Single ==
  /\ \A i, j \in 1 .. Len(ready) : Alike(ready[i].op, ready[j].op) => i = j
  /\ \A o \in waiting : \A p \in waiting : Alike(o, p) => o = p
  /\ \A o \in waiting : \A r \in Queue : ~Alike(o, r.op)

\* Nothing that has to be under way is missing.
Going ==
  /\ \E o \in Under : o.act = "accept"
  /\ \A s \in Session :
       /\ connected[s] = {"client"} => \E o \in Under : o.act = "connect" /\ o.s = s
       /\ connected[s] = Side => \A x \in Side : \E o \in Under : o \in In(s, x)

\* The state of a session.
Stands(s) ==
  /\ connected[s] \in {{}, {"client"}, Side}
  /\ s \in sessions <=> connected[s] # {}
  /\ connected[s] # {} => s \notin over /\ opened[s] = Side /\ peer[s]["client"] # "none"
  /\ connected[s] = Side => peer[s]["server"] # "none"
  /\ s \in over => opened[s] \subseteq {"server"} /\ (opened[s] # {} => peer[s]["server"] = "none")
  /\ connected[s] = {} /\ s \notin over => peer[s]["server"] = "none"
  /\ connected[s] # Side /\ (s \notin over \/ opened[s] # {}) =>
       \A x \in Side : taken[s][x] = 0 /\ got[s][x] = <<>>
  /\ \A x \in Side : taken[s][x] <= sent[s][x]

\* What an operation under way says of its session.
Placed(o) ==
  /\ o.act = "accept" => /\ o.from = "client" /\ o.n = 0
                         /\ \A s \in sessions \cup over : s < o.s
  /\ o.act = "connect" => o.from = "server" /\ o.n = 0 /\ connected[o.s] = {"client"}
  /\ o.act \in {"receive", "send"} => o.s \in over \/ connected[o.s] = Side

\* The bytes of side x of session s that have gone on are the ones up to the m-th.
UpTo(s, x, m) ==
  P!Latest(s, x) <= m /\ ("partial" \notin Faults => P!Latest(s, x) = m)

\* The last n bytes that were received are in the buffer, and have not gone on.
Loaded(s, x, n) ==
  /\ n \in 1 .. BufferSize /\ n <= taken[s][x]
  /\ \A i \in 1 .. n : buffer[s][x][i] = taken[s][x] - n + i
  /\ UpTo(s, x, taken[s][x] - n)

Reset(s) == \E x \in Side : peer[s][x] = "reset"

\* An operation in the reactor is for a session that is not over.
Waits(o) ==
  /\ o.s \notin over
  /\ o.act = "connect" => peer[o.s]["server"] = "none"
  /\ o.act = "receive" => UpTo(o.s, o.from, taken[o.s][o.from])
  /\ o.act = "send" => Loaded(o.s, o.from, o.n)

\* What the result of an operation says.
Says(r) ==
  LET s == r.op.s
      x == r.op.from
  IN
  /\ r.op.act = "accept" =>
       /\ r.res \in {"ok", "other"}
       /\ r.res = "ok" => s <= MaxClients /\ peer[s]["client"] # "none"
  /\ r.op.act = "connect" =>
       /\ r.res \in {"ok", "refused", "other"}
       /\ IF r.res = "ok" THEN peer[s]["server"] # "none" ELSE peer[s]["server"] = "none"
  /\ r.op.act \in {"receive", "send"} =>
       /\ r.res \in {"ok", "eof", "reset", "aborted", "other"}
       /\ r.res = "eof" => r.op.act = "receive" /\ peer[s][x] \in {"fin", "reset"}
       /\ r.res = "reset" => Reset(s)
       /\ r.res = "aborted" => s \in over
       /\ r.res = "ok" /\ s \in over => taken[s][x] > 0 /\ (peer[s][Other(x)] = "fin" \/ Reset(s))
       /\ r.res = "other" => \/ Reset(s)
                             \/ s \in over /\ taken[s][x] > 0 /\ peer[s][Other(x)] = "fin"
       /\ r.res = "ok" /\ r.op.act = "receive" => Loaded(s, x, r.n)
       /\ r.res = "ok" /\ r.op.act = "send" => taken[s][x] > 0 /\ UpTo(s, x, taken[s][x])

IInv ==
  /\ TypeOK
  /\ Single /\ Going
  /\ \A s \in Session : Stands(s)
  /\ \A o \in Under : Placed(o)
  /\ \A o \in waiting : Waits(o)
  /\ \A r \in Queue : Says(r)
  /\ DiesForAReason

-----------------------------------------------------------------------------
(* Sequences.                                                               *)

\* A finite set in a sequence: every element is at one place.
LEMMA Listing ==
  ASSUME NEW S, IsFiniteSet(S)
  PROVE  /\ Len(SetToSeq(S)) \in Nat /\ SetToSeq(S) \in Seq(S)
         /\ \A i \in 1 .. Len(SetToSeq(S)) : SetToSeq(S)[i] \in S
         /\ \A e \in S : \E i \in 1 .. Len(SetToSeq(S)) : SetToSeq(S)[i] = e
         /\ \A i, j \in 1 .. Len(SetToSeq(S)) : SetToSeq(S)[i] = SetToSeq(S)[j] => i = j
<1> DEFINE n == Cardinality(S)
           f == SetToSeq(S)
<1>1. n \in Nat
  BY FS_CardinalityType
<1>2. \E g \in [1 .. n -> S] : IsInjective(g)
  <2>1. ExistsBijection(1 .. n, S)
    BY FS_CardinalityType
  <2>2. PICK g : g \in Bijection(1 .. n, S)
    BY <2>1 DEF ExistsBijection
  <2> QED
    BY <2>2 DEF Bijection, Injection
<1>3. f \in [1 .. n -> S] /\ IsInjective(f)
  BY <1>2 DEF SetToSeq
<1>4. f \in Injection(1 .. n, S)
  BY <1>3 DEF Injection
<1>5. IsFiniteSet(1 .. n) /\ Cardinality(1 .. n) = n
  BY <1>1, FS_Interval
<1>6. f \in Surjection(1 .. n, S)
  BY <1>4, <1>5, FS_Injection
<1> HIDE DEF f, n
<1>7. f \in Seq(S) /\ Len(f) = n
  BY <1>1, <1>3
<1>8. \A i, j \in 1 .. n : f[i] = f[j] => i = j
  BY <1>3 DEF IsInjective
<1>9. \A e \in S : \E i \in 1 .. n : f[i] = e
  BY <1>6 DEF Surjection
<1>10. \A i \in 1 .. n : f[i] \in S
  BY <1>3
<1> QED
  BY <1>1, <1>7, <1>8, <1>9, <1>10 DEF f

\* What is in a sequence when an element is added behind ...
LEMMA Appended ==
  ASSUME NEW T, NEW q \in Seq(T), NEW e \in T
  PROVE  /\ Append(q, e) \in Seq(T) /\ Len(Append(q, e)) = Len(q) + 1 /\ Len(q) \in Nat
         /\ \A i \in 1 .. Len(q) : Append(q, e)[i] = q[i]
         /\ Append(q, e)[Len(q) + 1] = e
OBVIOUS

\* ... and when its head is taken and others are added behind.
LEMMA Turned ==
  ASSUME NEW T, NEW q \in Seq(T), q # <<>>, NEW p \in Seq(T)
  PROVE  /\ Tail(q) \o p \in Seq(T) /\ Tail(q) \in Seq(T)
         /\ Head(q) = q[1] /\ Head(q) \in T /\ Len(q) \in Nat \ {0} /\ Len(p) \in Nat
         /\ Len(Tail(q)) = Len(q) - 1
         /\ Len(Tail(q) \o p) = Len(q) - 1 + Len(p)
         /\ \A i \in 1 .. Len(q) - 1 : (Tail(q) \o p)[i] = q[i + 1]
         /\ \A i \in 1 .. Len(p) : (Tail(q) \o p)[Len(q) - 1 + i] = p[i]
<1>1. Tail(q) \in Seq(T) /\ Len(Tail(q)) = Len(q) - 1 /\ Len(q) \in Nat \ {0}
  OBVIOUS
<1>2. \A i \in 1 .. Len(q) - 1 : Tail(q)[i] = q[i + 1]
  OBVIOUS
<1>3. Head(q) = q[1] /\ Head(q) \in T
  OBVIOUS
<1> QED
  BY <1>1, <1>2, <1>3

-----------------------------------------------------------------------------
(* The queue.                                                               *)

LEMMA AlikeIsEquivalence ==
  /\ \A o \in Ops : Alike(o, o)
  /\ \A o, p : Alike(o, p) => Alike(p, o)
  /\ \A o, p, q : Alike(o, p) /\ Alike(p, q) => Alike(o, q)
BY DEF Alike, Ops

LEMMA InQueue ==
  ASSUME TypeOK
  PROVE  /\ Queue \subseteq Results /\ Under \subseteq Ops
         /\ \A i \in 1 .. Len(ready) : ready[i] \in Results /\ ready[i].op \in Ops
         /\ ready # <<>> => Handler \in Queue /\ Handler = ready[1] /\ 1 \in 1 .. Len(ready)
<1>1. ready \in Seq(Results) /\ waiting \subseteq Ops
  BY DEF TypeOK
<1>2. \A i \in 1 .. Len(ready) : ready[i] \in Results
  BY <1>1
<1>3. ready # <<>> => Handler = ready[1] /\ 1 \in 1 .. Len(ready)
  BY <1>1 DEF Handler
<1> QED
  BY <1>1, <1>2, <1>3 DEF Queue, Under, Results

\* One result is in the queue for a kind of operation.
LEMMA OneResult ==
  ASSUME TypeOK, Single, NEW q \in Queue, NEW r \in Queue, Alike(q.op, r.op)
  PROVE  q = r
BY DEF Single, Queue

\* An operation of the reactor completes.
LEMMA Completes ==
  ASSUME TypeOK, Single, NEW o \in waiting, NEW res, NEW n, Complete(o, res, n),
         Result(o, res, n) \in Results
  PROVE  /\ Single' /\ Under' = Under
         /\ waiting' = waiting \ {o} /\ Queue' = Queue \cup {Result(o, res, n)}
         /\ waiting' \subseteq Ops /\ ready' \in Seq(Results)
<1> DEFINE r == Result(o, res, n)
<1>1. waiting' = waiting \ {o} /\ ready' = Append(ready, r) /\ r.op = o /\ r \in Results
  BY DEF Complete, Result
<1>2. ready \in Seq(Results) /\ waiting \subseteq Ops
  BY DEF TypeOK
<1> HIDE DEF r
<1>3. /\ ready' \in Seq(Results) /\ Len(ready') = Len(ready) + 1 /\ Len(ready) \in Nat
      /\ \A i \in 1 .. Len(ready) : ready'[i] = ready[i]
      /\ ready'[Len(ready) + 1] = r
  BY <1>1, <1>2, Appended
<1>4. Queue' = Queue \cup {r}
  BY <1>3 DEF Queue
<1>5. Under' = Under
  BY <1>1, <1>4 DEF Under
<1>6. ASSUME NEW i \in 1 .. Len(ready'), NEW j \in 1 .. Len(ready'),
             Alike(ready'[i].op, ready'[j].op)
      PROVE  i = j
  <2>1. \A k \in 1 .. Len(ready) : ~Alike(o, ready[k].op) /\ ~Alike(ready[k].op, o)
    BY AlikeIsEquivalence DEF Single, Queue
  <2>2. CASE i \in 1 .. Len(ready) /\ j \in 1 .. Len(ready)
    BY <1>3, <1>6, <2>2 DEF Single
  <2>3. CASE i = Len(ready) + 1 /\ j \in 1 .. Len(ready)
    BY <1>1, <1>3, <1>6, <2>1, <2>3
  <2>4. CASE j = Len(ready) + 1 /\ i \in 1 .. Len(ready)
    BY <1>1, <1>3, <1>6, <2>1, <2>4
  <2>5. CASE j = Len(ready) + 1 /\ i = Len(ready) + 1
    BY <2>5
  <2> QED
    BY <1>3, <2>2, <2>3, <2>4, <2>5
<1>7. \A p \in waiting' : \A q \in Queue' : ~Alike(p, q.op)
  BY <1>1, <1>4, AlikeIsEquivalence DEF Single
<1>8. Single'
  BY <1>1, <1>6, <1>7 DEF Single
<1> QED
  BY <1>1, <1>2, <1>3, <1>4, <1>5, <1>8 DEF r

\* A handler returns and leaves the results R behind it.
LEMMA Returns ==
  ASSUME TypeOK, Single, ready # <<>>, NEW R, IsFiniteSet(R), R \subseteq Results,
         ready' = Tail(ready) \o SetToSeq(R),
         \A q, r \in R : Alike(q.op, r.op) => q = r,
         \A r \in R : \A q \in Queue \ {Handler} : ~Alike(r.op, q.op)
  PROVE  /\ Queue' = (Queue \ {Handler}) \cup R
         /\ ready' \in Seq(Results)
         /\ \A i, j \in 1 .. Len(ready') : Alike(ready'[i].op, ready'[j].op) => i = j
<1> DEFINE p == SetToSeq(R)
           m == Len(ready) - 1
<1>1. /\ Len(p) \in Nat /\ p \in Seq(Results)
      /\ \A i \in 1 .. Len(p) : p[i] \in R
      /\ \A e \in R : \E i \in 1 .. Len(p) : p[i] = e
      /\ \A i, j \in 1 .. Len(p) : p[i] = p[j] => i = j
  <2>1. p \in Seq(R)
    BY Listing
  <2> QED
    BY <2>1, Listing
<1>2. ready \in Seq(Results)
  BY DEF TypeOK
<1> HIDE DEF p
<1>3. /\ ready' \in Seq(Results) /\ Len(ready) \in Nat \ {0}
      /\ Len(ready') = m + Len(p)
      /\ \A i \in 1 .. m : ready'[i] = ready[i + 1]
      /\ \A i \in 1 .. Len(p) : ready'[m + i] = p[i]
  BY <1>1, <1>2, Turned DEF p
<1>4. Handler = ready[1] /\ 1 \in 1 .. Len(ready)
  BY InQueue
<1>5. \A i, j \in 1 .. Len(ready) : Alike(ready[i].op, ready[j].op) => i = j
  BY DEF Single
<1>6. \A i \in 1 .. Len(ready) : ready[i] = Handler => i = 1
  BY <1>4, <1>5, InQueue, AlikeIsEquivalence
<1>7. m \in Nat /\ Len(ready) = m + 1
  BY <1>3
<1> HIDE DEF m
<1>8. \A i \in 1 .. m : i + 1 \in 1 .. Len(ready) /\ ready[i + 1] \in Queue \ {Handler}
  <2> TAKE i \in 1 .. m
  <2>1. i + 1 \in 1 .. Len(ready) /\ i + 1 # 1
    BY <1>7
  <2> QED
    BY <1>6, <2>1 DEF Queue
<1>9. \A q \in Queue \ {Handler} : \E i \in 1 .. m : ready'[i] = q
  <2> TAKE q \in Queue \ {Handler}
  <2>1. PICK j \in 1 .. Len(ready) : ready[j] = q
    BY DEF Queue
  <2>2. j # 1
    BY <1>4, <2>1
  <2>3. j - 1 \in 1 .. m /\ (j - 1) + 1 = j
    BY <1>7, <2>2
  <2> QED
    BY <1>3, <2>1, <2>3
<1>10. \A i \in 1 .. Len(ready') : i \in 1 .. m \/ \E k \in 1 .. Len(p) : i = m + k
  <2> TAKE i \in 1 .. Len(ready')
  <2>1. CASE i <= m
    BY <1>7, <2>1
  <2>2. CASE ~(i <= m)
    <3>1. i - m \in 1 .. Len(p) /\ i = m + (i - m)
      BY <1>1, <1>3, <1>7, <2>2
    <3> QED
      BY <3>1
  <2> QED
    BY <2>1, <2>2
<1>11. \A i \in 1 .. m : i \in 1 .. Len(ready')
  BY <1>1, <1>3, <1>7
<1>12. \A i \in 1 .. Len(p) : m + i \in 1 .. Len(ready')
  BY <1>1, <1>3, <1>7
<1>13. Queue' = (Queue \ {Handler}) \cup R
  <2>1. ASSUME NEW q \in Queue'
        PROVE  q \in (Queue \ {Handler}) \cup R
    <3>1. PICK i \in 1 .. Len(ready') : ready'[i] = q
      BY DEF Queue
    <3>2. CASE i \in 1 .. m
      BY <1>3, <1>8, <3>1, <3>2
    <3>3. ASSUME NEW k \in 1 .. Len(p), i = m + k
          PROVE  q \in R
      BY <1>1, <1>3, <3>1, <3>3
    <3> QED
      BY <1>10, <3>2, <3>3
  <2>2. ASSUME NEW q \in Queue \ {Handler}
        PROVE  q \in Queue'
    BY <1>9, <1>11 DEF Queue
  <2>3. ASSUME NEW q \in R
        PROVE  q \in Queue'
    <3>1. PICK i \in 1 .. Len(p) : p[i] = q
      BY <1>1
    <3>2. ready'[m + i] = q
      BY <1>3, <3>1
    <3> QED
      BY <1>12, <3>2 DEF Queue
  <2> QED
    BY <2>1, <2>2, <2>3
<1>14. ASSUME NEW i \in 1 .. Len(ready'), NEW j \in 1 .. Len(ready'),
              Alike(ready'[i].op, ready'[j].op)
       PROVE  i = j
  <2>1. CASE i \in 1 .. m /\ j \in 1 .. m
    <3>1. i + 1 = j + 1
      BY <1>3, <1>5, <1>8, <1>14, <2>1
    <3> QED
      BY <1>7, <2>1, <3>1
  <2>2. ASSUME i \in 1 .. m, NEW k \in 1 .. Len(p), j = m + k
        PROVE  i = j
    <3>1. ready'[i] \in Queue \ {Handler} /\ ready'[j] \in R
      BY <1>1, <1>3, <1>8, <2>2
    <3> QED
      BY <1>14, <3>1, AlikeIsEquivalence
  <2>3. ASSUME j \in 1 .. m, NEW k \in 1 .. Len(p), i = m + k
        PROVE  i = j
    <3>1. ready'[j] \in Queue \ {Handler} /\ ready'[i] \in R
      BY <1>1, <1>3, <1>8, <2>3
    <3> QED
      BY <1>14, <3>1
  <2>4. ASSUME NEW k \in 1 .. Len(p), NEW l \in 1 .. Len(p), i = m + k, j = m + l
        PROVE  i = j
    <3>1. ready'[i] = p[k] /\ ready'[j] = p[l] /\ p[k] \in R /\ p[l] \in R
      BY <1>1, <1>3, <2>4
    <3>2. p[k] = p[l]
      BY <1>14, <3>1
    <3>3. k = l
      BY <1>1, <3>2
    <3> QED
      BY <2>4, <3>3
  <2> QED
    BY <1>10, <2>1, <2>2, <2>3, <2>4
<1> QED
  BY <1>3, <1>13, <1>14

\* A handler starts the operations O, which are the only ones of their kinds.
LEMMA Starts ==
  ASSUME TypeOK, Single, ready # <<>>, NEW O, IsFiniteSet(O), O \subseteq Ops, Start(O),
         \A o, p \in O : Alike(o, p) => o = p,
         \A o \in O : \A p \in Under : Alike(o, p) => p = Handler.op
  PROVE  /\ Single' /\ Under' = (Under \ {Handler.op}) \cup O
         /\ waiting' \subseteq Ops /\ ready' \in Seq(Results)
         /\ \A o \in waiting' :
              o \in waiting \/ (o \in O /\ (o.act = "accept" \/ SocketOf(o) \in opened'[o.s]))
         /\ \A r \in Queue' :
              \/ r \in Queue
              \/ \E o \in O : /\ r = Result(o, "other", 0)
                              /\ o.act # "accept" /\ SocketOf(o) \notin opened'[o.s]
<1> DEFINE V == {o \in O : o.act = "accept" \/ SocketOf(o) \in opened'[o.s]}
           R == {Result(o, "other", 0) : o \in O \ V}
<1>1. waiting' = waiting \cup V /\ ready' = Tail(ready) \o SetToSeq(R)
  BY DEF Start
<1>2. IsFiniteSet(R)
  <2> DEFINE f == [o \in O \ V |-> Result(o, "other", 0)]
  <2>1. IsFiniteSet(O \ V)
    BY FS_Subset
  <2>2. f \in Surjection(O \ V, R)
    BY DEF Surjection
  <2> QED
    BY <2>1, <2>2, FS_Surjection
<1>3. V \subseteq O /\ \A o \in V : o.act = "accept" \/ SocketOf(o) \in opened'[o.s]
  OBVIOUS
<1>4. \A r \in R : \E o \in O \ V : r = Result(o, "other", 0) /\ r.op = o
  BY DEF Result
<1>5. \A o \in O \ V : /\ Result(o, "other", 0) \in R /\ Result(o, "other", 0).op = o
                       /\ o.act # "accept" /\ SocketOf(o) \notin opened'[o.s]
  BY DEF Result
<1> HIDE DEF V, R
<1>6. R \subseteq Results
  BY <1>4, ProxyAssumption DEF Results, Result
<1>7. Handler \in Queue
  BY InQueue
<1>8. \A q \in Queue \ {Handler} : \A o \in O : ~Alike(o, q.op)
  <2> TAKE q \in Queue \ {Handler}
  <2> TAKE o \in O
  <2>1. SUFFICES ASSUME Alike(o, q.op) PROVE FALSE
    OBVIOUS
  <2>2. q.op = Handler.op
    BY <2>1 DEF Under
  <2>3. Alike(q.op, Handler.op)
    BY <2>2, InQueue, AlikeIsEquivalence DEF Under
  <2> QED
    BY <1>7, <2>3, OneResult
<1>9. /\ Queue' = (Queue \ {Handler}) \cup R
      /\ ready' \in Seq(Results)
      /\ \A i, j \in 1 .. Len(ready') : Alike(ready'[i].op, ready'[j].op) => i = j
  <2>1. \A q, r \in R : Alike(q.op, r.op) => q = r
    BY <1>4
  <2>2. \A r \in R : \A q \in Queue \ {Handler} : ~Alike(r.op, q.op)
    BY <1>4, <1>8
  <2> QED
    BY <1>1, <1>2, <1>6, <2>1, <2>2, Returns
<1>10. \A o \in waiting : \A p \in O : ~Alike(o, p) /\ ~Alike(p, o)
  BY <1>7, AlikeIsEquivalence DEF Single, Under
<1>11. \A o \in waiting' : \A p \in waiting' : Alike(o, p) => o = p
  BY <1>1, <1>3, <1>10 DEF Single
<1>12. \A o \in waiting' : \A r \in Queue' : ~Alike(o, r.op)
  BY <1>1, <1>3, <1>4, <1>8, <1>9, <1>10 DEF Single
<1>13. Single'
  BY <1>9, <1>11, <1>12 DEF Single
<1>14. Under' = (Under \ {Handler.op}) \cup O
  <2>1. \A q \in Queue : q.op = Handler.op => q = Handler
    BY <1>7, InQueue, OneResult, AlikeIsEquivalence DEF Under
  <2>2. Handler.op \notin waiting
    BY <1>7, AlikeIsEquivalence DEF Single, TypeOK
  <2>3. {r.op : r \in Queue \ {Handler}} = {r.op : r \in Queue} \ {Handler.op}
    BY <2>1
  <2>4. {r.op : r \in R} = O \ V
    BY <1>4, <1>5
  <2>5. Under' = (waiting \cup V) \cup {r.op : r \in (Queue \ {Handler}) \cup R}
    BY <1>1, <1>9 DEF Under
  <2>6. {r.op : r \in (Queue \ {Handler}) \cup R}
          = {r.op : r \in Queue \ {Handler}} \cup {r.op : r \in R}
    OBVIOUS
  <2>7. Under' = (waiting \cup V) \cup (({r.op : r \in Queue} \ {Handler.op}) \cup (O \ V))
    BY <2>3, <2>4, <2>5, <2>6
  <2> QED
    BY <1>3, <2>2, <2>7 DEF Under
<1>15. waiting' \subseteq Ops
  BY <1>1, <1>3 DEF TypeOK
<1>16. \A o \in waiting' :
         o \in waiting \/ (o \in O /\ (o.act = "accept" \/ SocketOf(o) \in opened'[o.s]))
  <2> TAKE o \in waiting'
  <2>1. o \in waiting \/ o \in V
    BY <1>1
  <2> QED
    BY <1>3, <2>1
<1>17. \A r \in Queue' :
         \/ r \in Queue
         \/ \E o \in O : /\ r = Result(o, "other", 0)
                         /\ o.act # "accept" /\ SocketOf(o) \notin opened'[o.s]
  BY <1>4, <1>5, <1>9
<1> QED
  BY <1>9, <1>13, <1>14, <1>15, <1>16, <1>17

\* A handler returns, and what waits on the sockets it closed is aborted.
LEMMA Aborts ==
  ASSUME TypeOK, Single, ready # <<>>, NEW A, A \subseteq waiting, IsFiniteSet(A),
         waiting' = waiting \ A,
         ready' = Tail(ready) \o SetToSeq({Result(o, "aborted", 0) : o \in A})
  PROVE  /\ Single' /\ Under' = Under \ {Handler.op}
         /\ waiting' \subseteq Ops /\ ready' \in Seq(Results)
         /\ \A r \in Queue' :
              r \in Queue \ {Handler} \/ \E o \in A : r = Result(o, "aborted", 0)
<1> DEFINE R == {Result(o, "aborted", 0) : o \in A}
<1>1. IsFiniteSet(R)
  <2> DEFINE f == [o \in A |-> Result(o, "aborted", 0)]
  <2>1. f \in Surjection(A, R)
    BY DEF Surjection
  <2> QED
    BY <2>1, FS_Surjection
<1>2. \A r \in R : \E o \in A : r = Result(o, "aborted", 0) /\ r.op = o
  BY DEF Result
<1>3. \A o \in A : Result(o, "aborted", 0) \in R /\ Result(o, "aborted", 0).op = o
  BY DEF Result
<1>4. ready' = Tail(ready) \o SetToSeq(R)
  OBVIOUS
<1> HIDE DEF R
<1>5. R \subseteq Results
  BY <1>2, ProxyAssumption DEF Results, Result, TypeOK
<1>6. Handler \in Queue
  BY InQueue
<1>7. /\ Queue' = (Queue \ {Handler}) \cup R
      /\ ready' \in Seq(Results)
      /\ \A i, j \in 1 .. Len(ready') : Alike(ready'[i].op, ready'[j].op) => i = j
  <2>1. \A q, r \in R : Alike(q.op, r.op) => q = r
    BY <1>2 DEF Single
  <2>2. \A r \in R : \A q \in Queue \ {Handler} : ~Alike(r.op, q.op)
    BY <1>2 DEF Single
  <2> QED
    BY <1>1, <1>4, <1>5, <2>1, <2>2, Returns
<1>8. \A o \in waiting' : \A r \in Queue' : ~Alike(o, r.op)
  BY <1>2, <1>7 DEF Single
<1>9. Single'
  BY <1>7, <1>8 DEF Single
<1>10. Under' = Under \ {Handler.op}
  <2>1. \A q \in Queue : q.op = Handler.op => q = Handler
    BY <1>6, InQueue, OneResult, AlikeIsEquivalence DEF Under
  <2>2. Handler.op \notin waiting
    BY <1>6, AlikeIsEquivalence DEF Single, TypeOK
  <2>3. {r.op : r \in Queue \ {Handler}} = {r.op : r \in Queue} \ {Handler.op}
    BY <2>1
  <2>4. {r.op : r \in R} = A
    BY <1>2, <1>3
  <2>5. Under' = (waiting \ A) \cup {r.op : r \in (Queue \ {Handler}) \cup R}
    BY <1>7 DEF Under
  <2> QED
    BY <2>2, <2>3, <2>4, <2>5 DEF Under
<1> QED
  BY <1>2, <1>7, <1>9, <1>10 DEF TypeOK

LEMMA OpsFinite == IsFiniteSet(Ops) /\ \A A : A \subseteq Ops => IsFiniteSet(A)
<1> DEFINE Acts == {"accept", "connect", "receive", "send"}
           T == (Acts \X Session) \X (Side \X (0 .. BufferSize))
           f == [o \in Ops |-> <<<<o.act, o.s>>, <<o.from, o.n>>>>]
<1>1. IsFiniteSet(Acts) /\ IsFiniteSet(Side)
  <2>1. IsFiniteSet({}) /\ IsFiniteSet({"accept"}) /\ IsFiniteSet({"client"})
    BY FS_EmptySet, FS_Singleton
  <2>2. IsFiniteSet({"accept"} \cup {"connect"}) /\ IsFiniteSet({"client"} \cup {"server"})
    BY <2>1, FS_AddElement
  <2>3. IsFiniteSet({"accept"} \cup {"connect"} \cup {"receive"})
    BY <2>2, FS_AddElement
  <2>4. IsFiniteSet({"accept"} \cup {"connect"} \cup {"receive"} \cup {"send"})
    BY <2>3, FS_AddElement
  <2>5. Side = {"client"} \cup {"server"}
    BY DEF Side
  <2>6. Acts = {"accept"} \cup {"connect"} \cup {"receive"} \cup {"send"}
    OBVIOUS
  <2> QED
    BY <2>2, <2>4, <2>5, <2>6
<1>2. IsFiniteSet(Session) /\ IsFiniteSet(0 .. BufferSize)
  BY ProxyAssumption, FS_Interval DEF Session
<1>3. IsFiniteSet(T)
  BY <1>1, <1>2, FS_Product
<1>4. f \in Injection(Ops, T)
  <2>1. f \in [Ops -> T]
    BY DEF Ops
  <2>2. ASSUME NEW o \in Ops, NEW p \in Ops, f[o] = f[p]
        PROVE  o = p
    <3>1. o.act = p.act /\ o.s = p.s /\ o.from = p.from /\ o.n = p.n
      BY <2>2
    <3> QED
      BY <3>1 DEF Ops
  <2> QED
    BY <2>1, <2>2 DEF Injection, IsInjective
<1>5. IsFiniteSet(Ops)
  BY <1>3, <1>4, FS_Injection
<1> QED
  BY <1>5, FS_Subset

-----------------------------------------------------------------------------
(* What a step leaves true of an operation that is not its own.              *)

\* The far ends of session s may go on, or break the connection.
GoesOn(s) ==
  \A x \in Side : /\ peer[s][x] # "none" => peer[s][x]' # "none"
                  /\ peer[s][x] \in {"fin", "reset"} => peer[s][x]' \in {"fin", "reset"}
                  /\ peer[s][x] = "reset" => peer[s][x]' = "reset"
                  /\ s \in over => peer[s][x]' = peer[s][x]

\* Direction x of session s is left as it is.
Rests(s, x) ==
  taken[s][x]' = taken[s][x] /\ got[s][x]' = got[s][x] /\ buffer[s][x]' = buffer[s][x]

LEMMA LoadedKept ==
  ASSUME NEW s \in Session, NEW x \in Side, Rests(s, x)
  PROVE  /\ \A m : UpTo(s, x, m) => UpTo(s, x, m)'
         /\ \A n : Loaded(s, x, n) => Loaded(s, x, n)'
<1>1. P!Latest(s, x)' = P!Latest(s, x)
  BY DEF Rests, P!Latest
<1>2. \A m : UpTo(s, x, m) => UpTo(s, x, m)'
  BY <1>1 DEF UpTo
<1> QED
  BY <1>2 DEF Rests, Loaded

LEMMA WaitsKept ==
  ASSUME NEW o \in Ops, Waits(o), o.s \notin over',
         o.act = "connect" => peer[o.s]["server"]' = peer[o.s]["server"],
         o.act \in {"receive", "send"} => Rests(o.s, o.from)
  PROVE  Waits(o)'
<1>1. o.s \in Session /\ o.from \in Side
  BY DEF Ops
<1>2. o.act = "receive" => UpTo(o.s, o.from, taken[o.s][o.from])'
  BY <1>1, LoadedKept DEF Waits, Rests
<1>3. o.act = "send" => Loaded(o.s, o.from, o.n)'
  BY <1>1, LoadedKept DEF Waits
<1> QED
  BY <1>2, <1>3 DEF Waits

LEMMA SaysKept ==
  ASSUME NEW r \in Results, Says(r), over' = over, GoesOn(r.op.s),
         r.op.act = "connect" => (peer[r.op.s]["server"]' = "none" <=> peer[r.op.s]["server"] = "none"),
         r.op.act \in {"receive", "send"} => Rests(r.op.s, r.op.from)
  PROVE  Says(r)'
<1> DEFINE s == r.op.s
           x == r.op.from
<1>1. s \in Session /\ x \in Side /\ Other(x) \in Side /\ "client" \in Side
  BY DEF Results, Ops, Other, Side
<1>2. Reset(s) => Reset(s)'
  BY <1>1 DEF Reset, GoesOn
<1>3. CASE r.op.act \in {"accept", "connect"}
  BY <1>1, <1>3 DEF Says, GoesOn
<1>4. CASE r.op.act \in {"receive", "send"}
  <2>1. taken[s][x]' = taken[s][x]
    BY <1>4 DEF Rests
  <2>2. r.res = "ok" /\ r.op.act = "receive" => Loaded(s, x, r.n)'
    BY <1>1, <1>4, LoadedKept DEF Says
  <2>3. r.res = "ok" /\ r.op.act = "send" => taken[s][x]' > 0 /\ UpTo(s, x, taken[s][x])'
    BY <1>1, <1>4, <2>1, LoadedKept DEF Says
  <2>4. r.res = "eof" => r.op.act = "receive" /\ peer[s][x]' \in {"fin", "reset"}
    BY <1>1, <1>4 DEF Says, GoesOn
  <2>5. s \in over /\ peer[s][Other(x)] = "fin" => peer[s][Other(x)]' = "fin"
    BY <1>1 DEF GoesOn
  <2> QED
    BY <1>2, <1>4, <2>1, <2>2, <2>3, <2>4, <2>5 DEF Says
<1>5. r.op.act \in {"accept", "connect", "receive", "send"}
  BY DEF Results, Ops
<1> QED
  BY <1>3, <1>4, <1>5

\* An operation of the reactor completes, and nothing else is disturbed.
LEMMA Reacts ==
  ASSUME IInv, alive, NEW o \in waiting, NEW res, NEW n, Complete(o, res, n),
         Result(o, res, n) \in Results, UNCHANGED proxy,
         buffer' \in [Session -> [Side -> [1 .. BufferSize -> 0 .. MaxBytes]]],
         peer' \in [Session -> [Side -> {"none", "open", "fin", "reset"}]],
         sent' \in [Session -> [Side -> 0 .. MaxBytes]],
         taken' \in [Session -> [Side -> 0 .. MaxBytes]],
         got' \in [Session -> [Side -> Seq(1 .. MaxBytes)]], cut' \in [Session -> [Side -> Nat]],
         \A s \in Session : Stands(s)',
         \A p \in waiting \ {o} : Waits(p)',
         \A r \in Queue \cup {Result(o, res, n)} : Says(r)'
  PROVE  IInv'
<1>1. TypeOK /\ Single /\ Going /\ \A p \in Under : Placed(p)
  BY DEF IInv
<1>2. /\ Single' /\ Under' = Under
      /\ waiting' = waiting \ {o} /\ Queue' = Queue \cup {Result(o, res, n)}
      /\ waiting' \subseteq Ops /\ ready' \in Seq(Results)
  BY <1>1, Completes
<1>3. TypeOK'
  BY <1>1, <1>2 DEF TypeOK, proxy
<1>4. Going'
  BY <1>1, <1>2 DEF Going, proxy
<1>5. \A p \in Under' : Placed(p)'
  BY <1>1, <1>2 DEF Placed, proxy
<1>6. DiesForAReason'
  BY DEF DiesForAReason, proxy
<1> QED
  BY <1>2, <1>3, <1>4, <1>5, <1>6 DEF IInv

-----------------------------------------------------------------------------
(* The kernel and the far ends.                                             *)

LEMMA Known ==
  ASSUME IInv
  PROVE  /\ \A o \in Under : /\ o \in Ops /\ o.s \in Session /\ o.from \in Side
                             /\ Placed(o) /\ Stands(o.s)
         /\ \A o \in waiting : o \in Under /\ o \in Ops /\ Waits(o)
         /\ \A r \in Queue : r \in Results /\ r.op \in Under /\ r.op \in Ops /\ Says(r)
<1>1. TypeOK /\ \A s \in Session : Stands(s)
  BY DEF IInv
<1>2. Queue \subseteq Results /\ Under \subseteq Ops
  BY <1>1, InQueue
<1>3. \A o \in Under : o \in Ops /\ o.s \in Session /\ o.from \in Side
  BY <1>2 DEF Ops
<1>4. \A r \in Queue : r.op \in Under
  BY DEF Under
<1> QED
  BY <1>1, <1>2, <1>3, <1>4 DEF IInv, Under

\* The session that is accepted next has nothing else under way.
LEMMA AcceptAlone ==
  ASSUME IInv, NEW o \in Under, o.act = "accept"
  PROVE  /\ o.s \notin sessions \cup over /\ connected[o.s] = {}
         /\ \A p \in Under : p.act # "accept" => p.s # o.s
<1>1. Placed(o) /\ Stands(o.s) /\ TypeOK
  BY Known DEF IInv
<1>2. o.s \notin sessions \cup over
  <2>1. o.s \in sessions \cup over => o.s < o.s
    BY <1>1 DEF Placed
  <2>2. o.s \in Int
    BY Known, ProxyAssumption DEF Session
  <2> QED
    BY <2>1, <2>2
<1>3. connected[o.s] = {}
  BY <1>1, <1>2 DEF Stands
<1>4. ASSUME NEW p \in Under, p.act # "accept"
      PROVE  p.s # o.s
  <2>1. p \in Ops /\ Placed(p)
    BY Known
  <2>2. connected[p.s] = {"client"} \/ p.s \in over \/ connected[p.s] = Side
    BY <1>4, <2>1 DEF Placed, Ops
  <2> QED
    BY <1>2, <1>3, <2>2 DEF Side
<1> QED
  BY <1>2, <1>3, <1>4

LEMMA StepAccepted ==
  ASSUME IInv, alive, NEW o \in waiting, Accepted(o)
  PROVE  IInv'
<1> DEFINE r == Result(o, "ok", 0)
<1>1. /\ o \in Under /\ o \in Ops /\ o.s \in Session /\ TypeOK
      /\ o.act = "accept" /\ o.s <= MaxClients /\ Complete(o, "ok", 0)
  BY Known DEF IInv, Accepted
<1>2. UNCHANGED proxy /\ UNCHANGED <<sent, data>> /\ UNCHANGED over
  BY DEF Accepted, proxy
<1>3. peer' = [peer EXCEPT ![o.s]["client"] = "open"]
  BY DEF Accepted
<1>4. r \in Results /\ r.op = o /\ r.res = "ok"
  BY <1>1, ProxyAssumption DEF Results, Result
<1> HIDE DEF r
<1>5. \A s \in Session, x \in Side : Rests(s, x)
  BY <1>2 DEF Rests, data
<1>6. peer' \in [Session -> [Side -> {"none", "open", "fin", "reset"}]]
  BY <1>1, <1>3 DEF TypeOK, Side
<1>7. \A s \in Session, x \in Side :
        peer[s][x]' = IF s = o.s /\ x = "client" THEN "open" ELSE peer[s][x]
  BY <1>1, <1>3 DEF TypeOK, Side
<1>8. ASSUME NEW s \in Session
      PROVE  Stands(s)'
  <2>1. Stands(s)
    BY DEF IInv
  <2> QED
    BY <1>2, <1>7, <2>1 DEF Stands, proxy, data, Side
<1>9. ASSUME NEW p \in waiting \ {o}
      PROVE  Waits(p)'
  BY <1>2, <1>5, <1>7, <1>9, Known, WaitsKept DEF Waits, Side
<1>10. ASSUME NEW q \in Queue
       PROVE  Says(q)'
  <2>1. q \in Results /\ q.op \in Ops /\ q.op \in Under /\ Says(q)
    BY Known
  <2>2. q.op.act # "accept"
    BY <1>1 DEF IInv, Single, Alike
  <2>3. q.op.s # o.s /\ q.op.s \in Session
    BY <1>1, <2>1, <2>2, AcceptAlone DEF Ops
  <2>4. \A x \in Side : peer[q.op.s][x]' = peer[q.op.s][x]
    BY <1>7, <2>3
  <2> QED
    BY <1>2, <1>5, <2>1, <2>4, Known, SaysKept DEF GoesOn, Side
<1>11. Says(r)'
  BY <1>1, <1>4, <1>7 DEF Says, Side
<1>12. \A q \in Queue \cup {r} : Says(q)'
  BY <1>10, <1>11
<1> QED
  BY <1>1, <1>2, <1>4, <1>6, <1>8, <1>9, <1>12, Reacts DEF r, data, TypeOK

\* An operation completes without any data.
LEMMA Fails ==
  ASSUME IInv, alive, NEW o \in waiting, NEW res, Complete(o, res, 0),
         res \in {"ok", "eof", "reset", "refused", "aborted", "other"},
         UNCHANGED <<proxy, far, data>>, Says(Result(o, res, 0))
  PROVE  IInv'
<1> DEFINE r == Result(o, res, 0)
<1>1. r \in Results
  BY Known, ProxyAssumption DEF Results, Result
<1>2. Says(r)
  OBVIOUS
<1> HIDE DEF r
<1>3. \A s \in Session : Stands(s)'
  BY DEF IInv, Stands, proxy, far, data
<1>4. \A p \in waiting \ {o} : Waits(p)'
  BY DEF IInv, Waits, UpTo, Loaded, P!Latest, proxy, far, data
<1>5. ASSUME NEW q \in Queue \cup {r}
      PROVE  Says(q)'
  <2>1. q \in Results /\ Says(q)
    BY <1>1, <1>2, Known
  <2>2. \A s \in Session, x \in Side : Rests(s, x)
    BY DEF Rests, data
  <2>3. GoesOn(q.op.s)
    BY DEF GoesOn, far
  <2>4. over' = over /\ peer' = peer /\ q.op.s \in Session /\ q.op.from \in Side
    BY <2>1 DEF proxy, far, Results, Ops
  <2> QED
    BY <2>1, <2>2, <2>3, <2>4, SaysKept
<1>6. TypeOK
  BY DEF IInv
<1> QED
  BY <1>1, <1>3, <1>4, <1>5, <1>6, Reacts DEF r, far, data, TypeOK

LEMMA StepAcceptFails ==
  ASSUME IInv, alive, NEW o \in waiting, AcceptFails(o)
  PROVE  IInv'
<1>1. Says(Result(o, "other", 0))
  BY DEF AcceptFails, Says, Result
<1> QED
  BY <1>1, Fails DEF AcceptFails

LEMMA StepConnectFails ==
  ASSUME IInv, alive, NEW o \in waiting, ConnectFails(o)
  PROVE  IInv'
<1>1. peer[o.s]["server"] = "none"
  BY Known DEF ConnectFails, Waits
<1>2. Says(Result(o, "refused", 0)) /\ Says(Result(o, "other", 0))
  BY <1>1 DEF ConnectFails, Says, Result
<1> QED
  BY <1>2, Fails DEF ConnectFails

LEMMA StepReceiveEnds ==
  ASSUME IInv, alive, NEW o \in waiting, ReceiveEnds(o)
  PROVE  IInv'
<1>1. o.s \notin over /\ o.from \in Side
  BY Known DEF Waits
<1>2. CASE Complete(o, "eof", 0) /\ peer[o.s][o.from] \in {"fin", "reset"}
  <2>1. Says(Result(o, "eof", 0))
    BY <1>1, <1>2 DEF ReceiveEnds, Says, Result
  <2> QED
    BY <1>2, <2>1, Fails DEF ReceiveEnds
<1>3. CASE Complete(o, "reset", 0) /\ peer[o.s][o.from] = "reset"
  <2>1. Says(Result(o, "reset", 0))
    BY <1>1, <1>3 DEF ReceiveEnds, Says, Result, Reset
  <2> QED
    BY <1>3, <2>1, Fails DEF ReceiveEnds
<1> QED
  BY <1>2, <1>3 DEF ReceiveEnds

LEMMA StepSendFails ==
  ASSUME IInv, alive, NEW o \in waiting, SendFails(o)
  PROVE  IInv'
<1>1. o.s \notin over /\ o.from \in Side
  BY Known DEF Waits
<1>2. SocketOf(o) \in Side
  BY <1>1 DEF SocketOf, Other, Side
<1>3. Reset(o.s)
  BY <1>2 DEF SendFails, Reset
<1>4. ASSUME NEW res \in {"reset", "other"}, Complete(o, res, 0)
      PROVE  IInv'
  <2>1. Says(Result(o, res, 0))
    BY <1>1, <1>3, <1>4 DEF SendFails, Says, Result
  <2> QED
    BY <1>4, <2>1, Fails DEF SendFails
<1> QED
  BY <1>4 DEF SendFails

LEMMA StepConnected ==
  ASSUME IInv, alive, NEW o \in waiting, Connected(o)
  PROVE  IInv'
<1> DEFINE r == Result(o, "ok", 0)
<1>1. /\ o \in Under /\ o \in Ops /\ o.s \in Session /\ TypeOK
      /\ o.act = "connect" /\ Complete(o, "ok", 0)
      /\ Waits(o) /\ Placed(o)
  BY Known DEF IInv, Connected
<1>2. UNCHANGED proxy /\ UNCHANGED <<sent, data>> /\ UNCHANGED over
  BY DEF Connected, proxy
<1>3. peer' = [peer EXCEPT ![o.s]["server"] = "open"]
  BY DEF Connected
<1>4. r \in Results /\ r.op = o /\ r.res = "ok"
  BY <1>1, ProxyAssumption DEF Results, Result
<1> HIDE DEF r
<1>5. \A s \in Session, x \in Side : Rests(s, x)
  BY <1>2 DEF Rests, data
<1>6. peer' \in [Session -> [Side -> {"none", "open", "fin", "reset"}]]
  BY <1>1, <1>3 DEF TypeOK, Side
<1>7. \A s \in Session, x \in Side :
        peer[s][x]' = IF s = o.s /\ x = "server" THEN "open" ELSE peer[s][x]
  BY <1>1, <1>3 DEF TypeOK, Side
<1>8. o.s \notin over /\ connected[o.s] = {"client"}
  BY <1>1 DEF Waits, Placed
<1>9. ASSUME NEW s \in Session
      PROVE  Stands(s)'
  <2>1. Stands(s)
    BY DEF IInv
  <2> QED
    BY <1>2, <1>7, <1>8, <2>1 DEF Stands, proxy, data, Side
<1>10. ASSUME NEW p \in waiting \ {o}
       PROVE  Waits(p)'
  <2>1. p \in Ops /\ Waits(p) /\ p.s \in Session /\ p.from \in Side
    BY Known
  <2>2. p.act = "connect" => p.s # o.s
    BY <1>1 DEF IInv, Single, Alike
  <2> QED
    BY <1>2, <1>5, <1>7, <2>1, <2>2, WaitsKept DEF Waits, Side
<1>11. ASSUME NEW q \in Queue
       PROVE  Says(q)'
  <2>1. q \in Results /\ q.op \in Ops /\ q.op \in Under /\ Says(q) /\ Placed(q.op)
    BY Known
  <2>2. q.op.act = "accept" => q.op.s # o.s
    BY <1>1, <2>1, AcceptAlone
  <2>3. q.op.act = "connect" => q.op.s # o.s
    BY <1>1 DEF IInv, Single, Alike
  <2>4. q.op.s # o.s /\ q.op.s \in Session
    BY <1>8, <2>1, <2>2, <2>3 DEF Ops, Placed, Side
  <2>5. \A x \in Side : peer[q.op.s][x]' = peer[q.op.s][x]
    BY <1>7, <2>4
  <2> QED
    BY <1>2, <1>5, <2>1, <2>5, Known, SaysKept DEF GoesOn, Side
<1>12. Says(r)'
  BY <1>1, <1>4, <1>7 DEF Says, Side
<1>13. \A q \in Queue \cup {r} : Says(q)'
  BY <1>11, <1>12
<1> QED
  BY <1>1, <1>2, <1>4, <1>6, <1>9, <1>10, <1>13, Reacts DEF r, data, TypeOK

\* An operation moves bytes of its own direction; nothing else is disturbed.
LEMMA Moves ==
  ASSUME IInv, alive, NEW o \in waiting, NEW n \in 0 .. BufferSize, Complete(o, "ok", n),
         o.act \in {"receive", "send"}, UNCHANGED <<proxy, far>>,
         buffer' \in [Session -> [Side -> [1 .. BufferSize -> 0 .. MaxBytes]]],
         taken' \in [Session -> [Side -> 0 .. MaxBytes]],
         got' \in [Session -> [Side -> Seq(1 .. MaxBytes)]], cut' \in [Session -> [Side -> Nat]],
         \A s \in Session, x \in Side : s # o.s \/ x # o.from => Rests(s, x),
         taken[o.s][o.from]' <= sent[o.s][o.from],
         o.act = "receive" => Loaded(o.s, o.from, n)',
         o.act = "send" => taken[o.s][o.from]' > 0 /\ UpTo(o.s, o.from, taken[o.s][o.from])'
  PROVE  IInv'
<1> DEFINE r == Result(o, "ok", n)
<1>1. /\ o \in Under /\ o \in Ops /\ o.s \in Session /\ o.from \in Side /\ TypeOK
      /\ Waits(o) /\ Placed(o) /\ Stands(o.s)
  BY Known DEF IInv
<1>2. r \in Results /\ r.op = o /\ r.res = "ok" /\ r.n = n
  BY <1>1 DEF Results, Result
<1> HIDE DEF r
<1>3. o.s \notin over /\ connected[o.s] = Side
  BY <1>1 DEF Waits, Placed
<1>4. over' = over /\ connected' = connected /\ opened' = opened /\ sessions' = sessions
      /\ peer' = peer /\ sent' = sent
  BY DEF proxy, far
<1>5. ASSUME NEW s \in Session
      PROVE  Stands(s)'
  <2>1. Stands(s)
    BY DEF IInv
  <2>2. CASE s # o.s
    <3>1. \A x \in Side : Rests(s, x)
      BY <2>2
    <3> QED
      BY <1>4, <2>1, <3>1 DEF Stands, Rests
  <2>3. CASE s = o.s
    <3>1. \A x \in Side : taken[s][x]' <= sent[s][x]'
      <4> TAKE x \in Side
      <4>1. CASE x = o.from
        BY <1>4, <2>3, <4>1
      <4>2. CASE x # o.from
        BY <1>4, <2>1, <2>3, <4>2 DEF Rests, Stands
      <4> QED
        BY <4>1, <4>2
    <3> QED
      BY <1>3, <1>4, <2>1, <2>3, <3>1 DEF Stands
  <2> QED
    BY <2>2, <2>3
<1>6. ASSUME NEW p \in waiting \ {o}
      PROVE  Waits(p)'
  <2>1. p \in Ops /\ Waits(p) /\ p.s \in Session /\ p.from \in Side
    BY Known
  <2>2. p.act \in {"receive", "send"} => p.s # o.s \/ p.from # o.from
    BY DEF IInv, Single, Alike
  <2>3. p.act \in {"receive", "send"} => Rests(p.s, p.from)
    BY <2>1, <2>2
  <2>4. p.s \notin over'
    BY <1>4, <2>1 DEF Waits
  <2> QED
    BY <1>4, <2>1, <2>3, <2>4, WaitsKept
<1>7. ASSUME NEW q \in Queue
      PROVE  Says(q)'
  <2>1. q \in Results /\ Says(q) /\ q.op.s \in Session /\ q.op.from \in Side
    BY Known
  <2>2. q.op.act \in {"receive", "send"} => q.op.s # o.s \/ q.op.from # o.from
    BY DEF IInv, Single, Alike
  <2>3. q.op.act \in {"receive", "send"} => Rests(q.op.s, q.op.from)
    BY <2>1, <2>2
  <2>4. GoesOn(q.op.s)
    BY <1>4 DEF GoesOn
  <2> QED
    BY <1>4, <2>1, <2>3, <2>4, SaysKept
<1>8. Says(r)'
  BY <1>2, <1>3, <1>4 DEF Says
<1>9. \A q \in Queue \cup {r} : Says(q)'
  BY <1>7, <1>8
<1> QED
  BY <1>1, <1>2, <1>5, <1>6, <1>9, Reacts DEF r, far, TypeOK

LEMMA StepReceived ==
  ASSUME IInv, alive, NEW o \in waiting, Received(o)
  PROVE  IInv'
<1> DEFINE s == o.s
           x == o.from
<1>1. /\ o \in Ops /\ s \in Session /\ x \in Side /\ TypeOK
      /\ Waits(o) /\ Stands(s)
  BY Known DEF IInv
<1>2. PICK t \in 0 .. MaxBytes : t = taken[s][x]
  BY <1>1 DEF TypeOK
<1>3. sent[s][x] \in 0 .. MaxBytes /\ t <= sent[s][x]
  BY <1>1, <1>2 DEF TypeOK, Stands
<1>4. Fits(sent[s][x] - t) > 0
  BY <1>2 DEF Received
<1>5. PICK n \in 1 .. BufferSize : n = Fits(sent[s][x] - t) /\ t + n <= sent[s][x]
  BY <1>3, <1>4, ProxyAssumption DEF Fits
<1>6. /\ o.act = "receive"
      /\ buffer' = [buffer EXCEPT ![s][x] = [i \in 1 .. BufferSize |-> IF i <= n THEN t + i ELSE @[i]]]
      /\ taken' = [taken EXCEPT ![s][x] = t + n]
      /\ Complete(o, "ok", n)
      /\ UNCHANGED <<proxy, far>> /\ got' = got /\ cut' = cut
  BY <1>2, <1>5 DEF Received
<1>7. t + n \in 0 .. MaxBytes /\ \A i \in 1 .. n : t + i \in 0 .. MaxBytes
  BY <1>3, <1>5, ProxyAssumption
<1>8. buffer[s][x] \in [1 .. BufferSize -> 0 .. MaxBytes]
  BY <1>1 DEF TypeOK
<1> DEFINE b == [i \in 1 .. BufferSize |-> IF i <= n THEN t + i ELSE buffer[s][x][i]]
<1>9. b \in [1 .. BufferSize -> 0 .. MaxBytes]
  <2>1. ASSUME NEW i \in 1 .. BufferSize, i <= n
        PROVE  t + i \in 0 .. MaxBytes
    <3>1. i \in 1 .. n
      BY <1>5, <2>1, ProxyAssumption
    <3> QED
      BY <1>7, <3>1
  <2> QED
    BY <1>8, <2>1
<1>10. buffer' = [buffer EXCEPT ![s][x] = b]
  BY <1>6
<1>11. \A i \in 1 .. n : b[i] = t + i
  BY <1>5, ProxyAssumption
<1> HIDE DEF b
<1>12. taken' \in [Session -> [Side -> 0 .. MaxBytes]]
  BY <1>1, <1>6, <1>7 DEF TypeOK
<1>13. buffer' \in [Session -> [Side -> [1 .. BufferSize -> 0 .. MaxBytes]]]
  BY <1>1, <1>9, <1>10 DEF TypeOK
<1>14. buffer[s][x]' = b /\ taken[s][x]' = t + n
  BY <1>1, <1>6, <1>10 DEF TypeOK
<1>15. \A u \in Session, y \in Side : u # s \/ y # x => Rests(u, y)
  BY <1>1, <1>6, <1>10 DEF TypeOK, Rests
<1>16. UpTo(s, x, t)'
  BY <1>1, <1>2, <1>6 DEF Waits, UpTo, P!Latest
<1>17. Loaded(s, x, n)'
  <2>1. (t + n) - n = t
    BY <1>5, ProxyAssumption
  <2>2. UpTo(s, x, taken[s][x] - n)'
    BY <1>14, <1>16, <2>1
  <2>3. \A i \in 1 .. n : b[i] = (t + n) - n + i
    BY <1>5, <1>11, ProxyAssumption
  <2>4. n <= t + n
    BY <1>5, ProxyAssumption
  <2> QED
    BY <1>14, <2>2, <2>3, <2>4 DEF Loaded
<1>18. got' \in [Session -> [Side -> Seq(1 .. MaxBytes)]] /\ cut' \in [Session -> [Side -> Nat]]
  BY <1>1, <1>6 DEF TypeOK
<1>19. n \in 0 .. BufferSize /\ taken[s][x]' <= sent[s][x]
  BY <1>5, <1>14, ProxyAssumption
<1> QED
  BY <1>6, <1>12, <1>13, <1>15, <1>17, <1>18, <1>19, Moves

\* What a send hands over: the first k of the bytes that were received last.
LEMMA SentBytes ==
  ASSUME IInv, NEW o \in waiting, Sent(o),
         NEW t \in Nat, t = taken[o.s][o.from]
  PROVE  /\ o.n \in 1 .. BufferSize /\ o.n <= t
         /\ UpTo(o.s, o.from, t - o.n)
         /\ \E k \in 1 .. o.n :
              /\ "partial" \notin Faults => k = o.n
              /\ got' = [got EXCEPT ![o.s][o.from] = @ \o [i \in 1 .. k |-> t - o.n + i]]
              /\ cut' = [cut EXCEPT ![o.s][o.from] = @ + (o.n - k)]
              /\ Complete(o, "ok", k)
<1> DEFINE s == o.s
           x == o.from
           n == o.n
           b == buffer[s][x]
<1>1. /\ o \in Ops /\ s \in Session /\ x \in Side /\ TypeOK /\ Waits(o)
  BY Known DEF IInv
<1>2. PICK k \in (IF "partial" \in Faults THEN 1 .. n ELSE {n}) :
        /\ got' = [got EXCEPT ![s][x] = @ \o SubSeq(b, 1, k)]
        /\ cut' = [cut EXCEPT ![s][x] = @ + (n - k)]
        /\ Complete(o, "ok", k)
  BY DEF Sent, BufferOf
<1>3. Loaded(s, x, n)
  BY <1>1 DEF Sent, Waits
<1>4. n \in 1 .. BufferSize /\ n <= t /\ UpTo(s, x, t - n)
  BY <1>1, <1>3 DEF Loaded
<1>5. k \in 1 .. n /\ k \in 0 .. BufferSize /\ ("partial" \notin Faults => k = n)
  BY <1>2, <1>4, ProxyAssumption
<1>6. b \in [1 .. BufferSize -> 0 .. MaxBytes] /\ \A i \in 1 .. n : b[i] = t - n + i
  BY <1>1, <1>3 DEF TypeOK, Loaded
<1> HIDE DEF b
<1>7. SubSeq(b, 1, k) = [i \in 1 .. k |-> b[i]]
  <2>1. b \in Seq(0 .. MaxBytes) /\ Len(b) = BufferSize
    BY <1>6, ProxyAssumption
  <2>2. /\ SubSeq(b, 1, k) \in Seq(0 .. MaxBytes) /\ Len(SubSeq(b, 1, k)) = k
        /\ \A i \in 1 .. k : SubSeq(b, 1, k)[i] = b[i]
    BY <1>4, <1>5, <2>1, ProxyAssumption
  <2> QED
    BY <1>5, <2>2
<1>8. SubSeq(b, 1, k) = [i \in 1 .. k |-> t - n + i]
  <2>1. \A i \in 1 .. k : i \in 1 .. n
    BY <1>4, <1>5, ProxyAssumption
  <2> QED
    BY <1>6, <1>7, <2>1
<1> QED
  BY <1>2, <1>4, <1>5, <1>8

LEMMA StepSent ==
  ASSUME IInv, alive, NEW o \in waiting, Sent(o)
  PROVE  IInv'
<1> DEFINE s == o.s
           x == o.from
           t == taken[s][x]
           n == o.n
           g == got[s][x]
<1>1. /\ o \in Ops /\ s \in Session /\ x \in Side /\ TypeOK /\ Stands(s)
  BY Known DEF IInv
<1>2. t \in 0 .. MaxBytes /\ t \in Nat
  BY <1>1, ProxyAssumption DEF TypeOK
<1>3. n \in 1 .. BufferSize /\ n <= t
  BY <1>2, SentBytes
<1>4. PICK k \in 1 .. n :
        /\ "partial" \notin Faults => k = n
        /\ got' = [got EXCEPT ![s][x] = g \o [i \in 1 .. k |-> t - n + i]]
        /\ cut' = [cut EXCEPT ![s][x] = @ + (n - k)]
        /\ Complete(o, "ok", k)
  BY <1>2, SentBytes
<1>5. o.act = "send" /\ UNCHANGED <<proxy, far, buffer, taken>>
  BY DEF Sent
<1>6. g \in Seq(1 .. MaxBytes)
  BY <1>1 DEF TypeOK
<1> DEFINE c == [i \in 1 .. k |-> t - n + i]
<1>7. k \in Nat \ {0} /\ k \in 1 .. k /\ k \in 0 .. BufferSize
  BY <1>3, ProxyAssumption
<1>8. \A i \in 1 .. k : t - n + i \in 1 .. MaxBytes
  BY <1>2, <1>3, ProxyAssumption
<1> HIDE DEF t, n, g
<1>9. c \in Seq(1 .. MaxBytes) /\ Len(c) = k /\ c # <<>> /\ c[k] = t - n + k
  BY <1>7, <1>8
<1> HIDE DEF c
<1>10. /\ g \o c \in Seq(1 .. MaxBytes) /\ g \o c # <<>>
       /\ (g \o c)[Len(g \o c)] = t - n + k
  BY <1>6, <1>7, <1>9
<1>11. got' = [got EXCEPT ![s][x] = g \o c]
  BY <1>4 DEF c
<1>12. got' \in [Session -> [Side -> Seq(1 .. MaxBytes)]]
  BY <1>1, <1>10, <1>11 DEF TypeOK
<1>13. got[s][x]' = g \o c
  BY <1>1, <1>11 DEF TypeOK
<1>14. \A u \in Session, y \in Side : u # s \/ y # x => Rests(u, y)
  BY <1>1, <1>5, <1>11 DEF TypeOK, Rests
<1>15. P!Latest(s, x)' = t - n + k
  BY <1>10, <1>13 DEF P!Latest
<1>16. taken[s][x]' = t /\ t > 0 /\ t - n + k <= t /\ (k = n => t - n + k = t)
       /\ t <= sent[s][x]
  BY <1>1, <1>2, <1>3, <1>5, <1>7, ProxyAssumption DEF Stands, t
<1>17. taken[s][x]' > 0 /\ UpTo(s, x, taken[s][x])'
  BY <1>4, <1>15, <1>16 DEF UpTo
<1>18. /\ buffer' \in [Session -> [Side -> [1 .. BufferSize -> 0 .. MaxBytes]]]
       /\ taken' \in [Session -> [Side -> 0 .. MaxBytes]]
  BY <1>1, <1>5 DEF TypeOK
<1>19. cut' \in [Session -> [Side -> Nat]]
  <2>1. cut \in [Session -> [Side -> Nat]] /\ cut[s][x] \in Nat /\ n - k \in Nat
    BY <1>1, <1>3, <1>7, ProxyAssumption DEF TypeOK
  <2> QED
    BY <1>1, <1>4, <2>1
<1> QED
  BY <1>4, <1>5, <1>7, <1>12, <1>14, <1>16, <1>17, <1>18, <1>19, Moves

\* The far ends go on.
LEMMA Beyond ==
  ASSUME IInv, alive, UNCHANGED <<proxy, queues, data>>,
         peer' \in [Session -> [Side -> {"none", "open", "fin", "reset"}]],
         sent' \in [Session -> [Side -> 0 .. MaxBytes]],
         \A s \in Session : GoesOn(s),
         \A s \in Session, x \in Side : /\ peer[s][x]' = "none" <=> peer[s][x] = "none"
                                        /\ sent[s][x] <= sent[s][x]'
  PROVE  IInv'
<1>1. TypeOK /\ Single /\ Going /\ \A p \in Under : Placed(p)
  BY DEF IInv
<1>2. /\ alive' = alive /\ sessions' = sessions /\ over' = over /\ connected' = connected
      /\ opened' = opened /\ waiting' = waiting /\ ready' = ready
      /\ buffer' = buffer /\ taken' = taken /\ got' = got /\ cut' = cut
  BY DEF proxy, queues, data
<1>3. TypeOK'
  BY <1>1, <1>2 DEF TypeOK
<1>4. Single' /\ Going' /\ Under' = Under /\ Queue' = Queue
  BY <1>1, <1>2 DEF Single, Going, Under, Queue
<1>5. \A s \in Session, x \in Side : Rests(s, x)
  BY <1>2 DEF Rests
<1>6. ASSUME NEW s \in Session
      PROVE  Stands(s)'
  <2>1. Stands(s)
    BY DEF IInv
  <2>2. \A x \in Side : taken[s][x]' <= sent[s][x]'
    <3> TAKE x \in Side
    <3>1. taken[s][x] \in Nat /\ sent[s][x] \in Nat /\ sent[s][x]' \in Nat
      BY <1>1, <1>3 DEF TypeOK
    <3> QED
      BY <1>2, <2>1, <3>1 DEF Stands
  <2> QED
    BY <1>2, <2>1, <2>2 DEF Stands, Side
<1>7. \A p \in Under' : Placed(p)'
  BY <1>1, <1>2, <1>4 DEF Placed
<1>8. ASSUME NEW p \in waiting'
      PROVE  Waits(p)'
  <2>1. p \in Ops /\ Waits(p) /\ p.s \in Session /\ p.from \in Side
    BY <1>2, Known
  <2>2. p.s \notin over' /\ (p.act = "connect" => peer[p.s]["server"]' = peer[p.s]["server"])
    BY <1>2, <2>1 DEF Waits, Side
  <2> QED
    BY <1>5, <2>1, <2>2, WaitsKept
<1>9. ASSUME NEW q \in Queue'
      PROVE  Says(q)'
  <2>1. q \in Results /\ Says(q) /\ q.op.s \in Session /\ q.op.from \in Side
    BY <1>4, Known
  <2>2. peer[q.op.s]["server"]' = "none" <=> peer[q.op.s]["server"] = "none"
    BY <2>1 DEF Side
  <2> QED
    BY <1>2, <1>5, <2>1, <2>2, SaysKept
<1>10. DiesForAReason'
  BY <1>2 DEF DiesForAReason
<1> QED
  BY <1>3, <1>4, <1>6, <1>7, <1>8, <1>9, <1>10 DEF IInv

LEMMA StepFar ==
  ASSUME IInv, alive, Far
  PROVE  IInv'
<1>1. PICK s \in Session, x \in Side : FarWrites(s, x) \/ FarEnds(s, x) \/ FarResets(s, x)
  BY DEF Far
<1>2. TypeOK
  BY DEF IInv
<1>3. CASE FarWrites(s, x)
  <2>1. UNCHANGED <<proxy, queues, data>> /\ peer' = peer
    BY <1>3 DEF FarWrites
  <2>2. sent[s][x] \in 0 .. MaxBytes /\ sent[s][x] + 1 \in 0 .. MaxBytes
    BY <1>2, <1>3, ProxyAssumption DEF TypeOK, FarWrites
  <2>3. sent' = [sent EXCEPT ![s][x] = sent[s][x] + 1]
    BY <1>3 DEF FarWrites
  <2>4. sent' \in [Session -> [Side -> 0 .. MaxBytes]]
    BY <1>2, <2>2, <2>3 DEF TypeOK
  <2>5. ASSUME NEW u \in Session, NEW y \in Side
        PROVE  sent[u][y] <= sent[u][y]'
    <3>1. sent \in [Session -> [Side -> 0 .. MaxBytes]] /\ sent[u][y] \in 0 .. MaxBytes
      BY <1>2 DEF TypeOK
    <3>2. sent[u][y]' = IF u = s /\ y = x THEN sent[s][x] + 1 ELSE sent[u][y]
      BY <2>3, <3>1
    <3> QED
      BY <3>1, <3>2
  <2>6. \A u \in Session : GoesOn(u)
    BY <2>1 DEF GoesOn
  <2> QED
    BY <1>2, <2>1, <2>4, <2>5, <2>6, Beyond DEF TypeOK
<1>4. CASE FarEnds(s, x) \/ FarResets(s, x)
  <2>1. UNCHANGED <<proxy, queues, data>> /\ sent' = sent /\ s \notin over
    BY <1>4 DEF FarEnds, FarResets
  <2>2. PICK e \in {"fin", "reset"} :
          /\ peer' = [peer EXCEPT ![s][x] = e]
          /\ peer[s][x] = "open" \/ (peer[s][x] = "fin" /\ e = "reset")
    BY <1>4 DEF FarEnds, FarResets
  <2>3. peer' \in [Session -> [Side -> {"none", "open", "fin", "reset"}]]
    BY <1>2, <2>2 DEF TypeOK
  <2>4. \A u \in Session, y \in Side :
          peer[u][y]' = IF u = s /\ y = x THEN e ELSE peer[u][y]
    BY <1>2, <2>2 DEF TypeOK
  <2>5. \A u \in Session : GoesOn(u)
    BY <2>1, <2>2, <2>4 DEF GoesOn
  <2>6. \A u \in Session, y \in Side : peer[u][y]' = "none" <=> peer[u][y] = "none"
    BY <2>2, <2>4
  <2>7. \A u \in Session, y \in Side : sent[u][y] <= sent[u][y]'
    BY <1>2, <2>1 DEF TypeOK
  <2> QED
    BY <1>2, <2>1, <2>3, <2>5, <2>6, <2>7, Beyond DEF TypeOK
<1> QED
  BY <1>1, <1>3, <1>4

-----------------------------------------------------------------------------
(* The handlers.                                                            *)

\* No other operation of its kind is under way while a handler runs.
LEMMA HandlerOnly ==
  ASSUME IInv, ready # <<>>
  PROVE  /\ Handler \in Queue /\ Handler \in Results /\ Handler.op \in Under
         /\ Handler.op \in Ops /\ Handler.op.s \in Session /\ Handler.op.from \in Side
         /\ Says(Handler) /\ Placed(Handler.op) /\ Stands(Handler.op.s)
         /\ \A p \in Under : Alike(p, Handler.op) => p = Handler.op
<1>1. TypeOK /\ Single
  BY DEF IInv
<1>2. Handler \in Queue
  BY <1>1, InQueue
<1>3. ASSUME NEW p \in Under, Alike(p, Handler.op)
      PROVE  p = Handler.op
  <2>1. p \notin waiting
    BY <1>1, <1>2, <1>3 DEF Single
  <2>2. PICK r \in Queue : p = r.op
    BY <2>1 DEF Under
  <2> QED
    BY <1>1, <1>2, <1>3, <2>2, OneResult
<1> QED
  BY <1>2, <1>3, Known

\* A handler starts operations, and changes nothing that the others rest on.
LEMMA GoesAhead ==
  ASSUME IInv, alive, ready # <<>>, NEW O, O \subseteq Ops, Start(O),
         \A o, p \in O : Alike(o, p) => o = p,
         \A o \in O : \A p \in Under : Alike(o, p) => p = Handler.op,
         UNCHANGED <<alive, over, far, data>>,
         sessions' \subseteq Session,
         connected' \in [Session -> SUBSET Side],
         opened' \in [Session -> SUBSET Side],
         \A s \in Session : Stands(s)',
         Under' = (Under \ {Handler.op}) \cup O => Going',
         \A p \in (Under \ {Handler.op}) \cup O : Placed(p)',
         \A o \in O : IF o.act = "accept" \/ SocketOf(o) \in opened'[o.s]
                      THEN Waits(o)
                      ELSE Says(Result(o, "other", 0))
  PROVE  IInv'
<1>1. TypeOK /\ Single
  BY DEF IInv
<1>2. /\ Single' /\ Under' = (Under \ {Handler.op}) \cup O
      /\ waiting' \subseteq Ops /\ ready' \in Seq(Results)
      /\ \A o \in waiting' :
           o \in waiting \/ (o \in O /\ (o.act = "accept" \/ SocketOf(o) \in opened'[o.s]))
      /\ \A r \in Queue' :
           \/ r \in Queue
           \/ \E o \in O : /\ r = Result(o, "other", 0)
                           /\ o.act # "accept" /\ SocketOf(o) \notin opened'[o.s]
  BY <1>1, OpsFinite, Starts
<1>3. TypeOK'
  BY <1>1, <1>2 DEF TypeOK, far, data
<1>4. over' = over /\ peer' = peer /\ sent' = sent
      /\ buffer' = buffer /\ taken' = taken /\ got' = got /\ cut' = cut
  BY DEF far, data
<1>5. \A s \in Session, x \in Side : Rests(s, x)
  BY <1>4 DEF Rests
<1>6. \A o \in waiting' : o \in Ops /\ Waits(o)
  BY <1>2, Known
<1>7. \A o \in waiting' : Waits(o)'
  <2> TAKE o \in waiting'
  <2>1. o \in Ops /\ Waits(o) /\ o.s \in Session /\ o.from \in Side
    BY <1>6 DEF Ops
  <2>2. o.s \notin over'
    BY <1>4, <2>1 DEF Waits
  <2> QED
    BY <1>4, <1>5, <2>1, <2>2, WaitsKept
<1>8. \A r \in Queue' : r \in Results /\ Says(r)
  <2> TAKE r \in Queue'
  <2>1. r \in Results
    BY <1>2 DEF Queue
  <2> QED
    BY <1>2, <2>1, Known
<1>9. \A r \in Queue' : Says(r)'
  <2> TAKE r \in Queue'
  <2>1. r \in Results /\ Says(r) /\ r.op.s \in Session /\ r.op.from \in Side
    BY <1>8 DEF Results, Ops
  <2>2. GoesOn(r.op.s)
    BY <1>4 DEF GoesOn
  <2> QED
    BY <1>4, <1>5, <2>1, <2>2, SaysKept
<1>10. DiesForAReason'
  BY DEF DiesForAReason
<1> QED
  BY <1>2, <1>3, <1>7, <1>9, <1>10 DEF IInv

LEMMA StepHandleAccept ==
  ASSUME IInv, HandleAccept
  PROVE  IInv'
<1>1. alive /\ ready # <<>> /\ Handler.op.act = "accept" /\ Handler.res = "ok"
  BY DEF HandleAccept, Runs
<1>2. PICK h \in Ops : h = Handler.op
  BY <1>1, HandlerOnly
<1>3. PICK s \in Session : s = h.s
  BY <1>2 DEF Ops
<1>4. /\ h \in Under /\ Says(Handler) /\ Placed(h) /\ Stands(s) /\ TypeOK
      /\ \A p \in Under : Alike(p, h) => p = h
  BY <1>1, <1>2, <1>3, HandlerOnly DEF IInv
<1>5. s <= MaxClients /\ peer[s]["client"] # "none"
  BY <1>1, <1>2, <1>3, <1>4 DEF Says
<1>6. s + 1 \in Session /\ s \in Int /\ s < s + 1
  BY <1>5, ProxyAssumption DEF Session
<1>7. /\ s \notin sessions \cup over /\ connected[s] = {}
      /\ \A p \in Under : p.act # "accept" => p.s # s
  BY <1>1, <1>2, <1>3, <1>4, AcceptAlone
<1> DEFINE O == {Connect(s), Accept(s + 1)}
<1>8. /\ sessions' = sessions \cup {s}
      /\ connected' = [connected EXCEPT ![s] = {"client"}]
      /\ opened' = [opened EXCEPT ![s] = {"client", "server"}]
      /\ Start(O)
      /\ UNCHANGED <<alive, over, far, data>>
  BY <1>2, <1>3 DEF HandleAccept
<1>9. O \subseteq Ops
  BY <1>6, ProxyAssumption DEF Connect, Accept, Op, Ops, Side
<1>10. \A o, p \in O : Alike(o, p) => o = p
  BY DEF Connect, Accept, Op, Alike
<1>11. \A p \in Under : p.act = "accept" => p = h
  BY <1>1, <1>2, <1>4 DEF Alike
<1>12. \A o \in O : \A p \in Under : Alike(o, p) => p = h
  BY <1>7, <1>11 DEF Connect, Accept, Op, Alike
<1>13. /\ sessions' \subseteq Session
       /\ connected' \in [Session -> SUBSET Side]
       /\ opened' \in [Session -> SUBSET Side]
  BY <1>4, <1>8 DEF TypeOK, Side
<1>14. \A u \in Session : /\ connected'[u] = IF u = s THEN {"client"} ELSE connected[u]
                          /\ opened'[u] = IF u = s THEN Side ELSE opened[u]
  BY <1>4, <1>8 DEF TypeOK, Side
<1>15. ASSUME NEW u \in Session
       PROVE  Stands(u)'
  <2>1. Stands(u)
    BY DEF IInv
  <2>2. CASE u # s
    BY <1>8, <1>14, <2>1, <2>2 DEF Stands, far, data
  <2>3. CASE u = s
    <3>1. {} # Side /\ {"client"} # Side /\ {"client"} # {}
      BY DEF Side
    <3>2. /\ \A x \in Side : taken[u][x]' = 0 /\ got[u][x]' = <<>>
          /\ \A x \in Side : taken[u][x]' <= sent[u][x]'
      BY <1>7, <1>8, <2>1, <2>3, <3>1 DEF Stands, far, data
    <3>3. connected'[u] = {"client"} /\ opened'[u] = Side /\ u \in sessions' /\ u \notin over'
      BY <1>7, <1>8, <1>14, <2>3
    <3>4. peer[u]["client"]' # "none"
      BY <1>5, <1>8, <2>3 DEF far
    <3> QED
      BY <3>1, <3>2, <3>3, <3>4 DEF Stands
  <2> QED
    BY <2>2, <2>3
<1>16. ASSUME Under' = (Under \ {h}) \cup O
       PROVE  Going'
  <2>1. \E o \in Under' : o.act = "accept"
    <3>1. Accept(s + 1).act = "accept" /\ Accept(s + 1) \in Under'
      BY <1>16 DEF Accept, Op
    <3> QED
      BY <3>1
  <2>2. ASSUME NEW u \in Session, connected'[u] = {"client"}
        PROVE  \E o \in Under' : o.act = "connect" /\ o.s = u
    <3>1. CASE u = s
      <4>1. /\ Connect(s).act = "connect" /\ Connect(s).s = s
            /\ Connect(s) \in Under'
        BY <1>16 DEF Connect, Op
      <4> QED
        BY <3>1, <4>1
    <3>2. CASE u # s
      BY <1>1, <1>2, <1>14, <1>16, <2>2, <3>2 DEF IInv, Going
    <3> QED
      BY <3>1, <3>2
  <2>3. ASSUME NEW u \in Session, connected'[u] = Side, NEW x \in Side
        PROVE  \E o \in Under' : o \in In(u, x)
    <3>1. u # s
      BY <1>14, <2>3 DEF Side
    <3>2. PICK o \in Under : o \in In(u, x)
      BY <1>14, <2>3, <3>1 DEF IInv, Going
    <3> QED
      BY <1>1, <1>2, <1>16, <3>2 DEF In
  <2> QED
    BY <2>1, <2>2, <2>3 DEF Going
<1>17. ASSUME NEW p \in (Under \ {h}) \cup O
       PROVE  Placed(p)'
  <2>1. CASE p \in Under \ {h}
    <3>1. p.act # "accept" /\ p.s # s /\ p.s \in Session /\ Placed(p)
      BY <1>7, <1>11, <2>1, Known
    <3> QED
      BY <1>8, <1>14, <3>1 DEF Placed
  <2>2. CASE p = Connect(s)
    BY <1>14, <2>2 DEF Connect, Op, Placed
  <2>3. CASE p = Accept(s + 1)
    <3>1. ASSUME NEW u \in sessions' \cup over'
          PROVE  u < s + 1
      <4>1. u \in Int
        BY <1>4, <1>8, <1>13, <3>1, ProxyAssumption DEF TypeOK, Session
      <4>2. u = s \/ u < s
        BY <1>1, <1>2, <1>3, <1>4, <1>8, <3>1 DEF Placed
      <4> QED
        BY <1>6, <4>1, <4>2
    <3> QED
      BY <2>3, <3>1 DEF Accept, Op, Placed
  <2> QED
    BY <2>1, <2>2, <2>3
<1>18. Waits(Connect(s))
  BY <1>4, <1>7 DEF Connect, Op, Waits, Stands
<1>19. Waits(Accept(s + 1))
  <2>1. s + 1 \notin over
    <3>1. s + 1 \in over => s + 1 < s
      BY <1>1, <1>2, <1>3, <1>4 DEF Placed
    <3> QED
      BY <1>6, <3>1
  <2> QED
    BY <2>1 DEF Accept, Op, Waits
<1>20. \A o \in O : IF o.act = "accept" \/ SocketOf(o) \in opened'[o.s]
                    THEN Waits(o) ELSE Says(Result(o, "other", 0))
  <2>1. SocketOf(Connect(s)) \in opened'[Connect(s).s]
    BY <1>14 DEF SocketOf, Connect, Op, Side
  <2>2. Accept(s + 1).act = "accept"
    BY DEF Accept, Op
  <2> QED
    BY <1>18, <1>19, <2>1, <2>2
<1> HIDE DEF O
<1> QED
  BY <1>1, <1>2, <1>8, <1>9, <1>10, <1>12, <1>13, <1>15, <1>16, <1>17, <1>20, GoesAhead

LEMMA StepHandleServerConnect ==
  ASSUME IInv, HandleServerConnect
  PROVE  IInv'
<1>1. alive /\ ready # <<>> /\ Handler.op.act = "connect" /\ Handler.res = "ok"
  BY DEF HandleServerConnect, Runs
<1>2. PICK h \in Ops : h = Handler.op
  BY <1>1, HandlerOnly
<1>3. PICK s \in Session : s = h.s
  BY <1>2 DEF Ops
<1>4. /\ h \in Under /\ Says(Handler) /\ Placed(h) /\ Stands(s) /\ TypeOK
      /\ \A p \in Under : Alike(p, h) => p = h
  BY <1>1, <1>2, <1>3, HandlerOnly DEF IInv
<1>5. {} # Side /\ {"client"} # Side /\ {"client"} # {} /\ {"client"} \cup {"server"} = Side
  BY DEF Side
<1>6. connected[s] = {"client"} /\ s \notin over /\ peer[s]["server"] # "none"
      /\ opened[s] = Side /\ peer[s]["client"] # "none" /\ s \in sessions
      /\ \A x \in Side : taken[s][x] = 0 /\ got[s][x] = <<>> /\ taken[s][x] <= sent[s][x]
  BY <1>1, <1>2, <1>3, <1>4, <1>5 DEF Says, Placed, Stands
<1> DEFINE O == {Receive(s, "client"), Receive(s, "server")}
<1>7. /\ connected' = [connected EXCEPT ![s] = @ \cup {"server"}]
      /\ opened' = opened /\ sessions' = sessions
      /\ Start(O)
      /\ UNCHANGED <<alive, over, far, data>>
  BY <1>2, <1>3 DEF HandleServerConnect
<1>8. O \subseteq Ops
  BY ProxyAssumption DEF Receive, Op, Ops, Side
<1>9. \A o, p \in O : Alike(o, p) => o = p
  BY DEF Receive, Op, Alike
<1>10. \A p \in Under : p.act \in {"receive", "send"} => p.s # s
  BY <1>5, <1>6, Known DEF Placed
<1>11. \A o \in O : \A p \in Under : Alike(o, p) => p = h
  BY <1>10 DEF Receive, Op, Alike
<1>12. /\ sessions' \subseteq Session
       /\ connected' \in [Session -> SUBSET Side]
       /\ opened' \in [Session -> SUBSET Side]
  BY <1>4, <1>7 DEF TypeOK, Side
<1>13. \A u \in Session : connected'[u] = IF u = s THEN Side ELSE connected[u]
  BY <1>4, <1>5, <1>6, <1>7 DEF TypeOK
<1>14. ASSUME NEW u \in Session
       PROVE  Stands(u)'
  <2>1. Stands(u)
    BY DEF IInv
  <2>2. CASE u # s
    BY <1>7, <1>13, <2>1, <2>2 DEF Stands, far, data
  <2>3. CASE u = s
    BY <1>5, <1>6, <1>7, <1>13, <2>1, <2>3 DEF Stands, far, data
  <2> QED
    BY <2>2, <2>3
<1>15. ASSUME Under' = (Under \ {h}) \cup O
       PROVE  Going'
  <2>1. \E o \in Under' : o.act = "accept"
    BY <1>1, <1>2, <1>15 DEF IInv, Going
  <2>2. ASSUME NEW u \in Session, connected'[u] = {"client"}
        PROVE  \E o \in Under' : o.act = "connect" /\ o.s = u
    <3>1. u # s
      BY <1>5, <1>13, <2>2
    <3> QED
      BY <1>3, <1>13, <1>15, <2>2, <3>1 DEF IInv, Going
  <2>3. ASSUME NEW u \in Session, connected'[u] = Side, NEW x \in Side
        PROVE  \E o \in Under' : o \in In(u, x)
    <3>1. CASE u = s
      <4>1. Receive(s, x) \in Under' /\ Receive(s, x) \in Ops
        BY <1>8, <1>15 DEF Side
      <4>2. Receive(s, x) \in In(u, x)
        BY <3>1, <4>1 DEF Receive, Op, In
      <4> QED
        BY <4>1, <4>2
    <3>2. CASE u # s
      <4>1. PICK o \in Under : o \in In(u, x)
        BY <1>13, <2>3, <3>2 DEF IInv, Going
      <4> QED
        BY <1>3, <1>15, <3>2, <4>1 DEF In
    <3> QED
      BY <3>1, <3>2
  <2> QED
    BY <2>1, <2>2, <2>3 DEF Going
<1>16. ASSUME NEW p \in (Under \ {h}) \cup O
       PROVE  Placed(p)'
  <2>1. CASE p \in Under \ {h}
    <3>1. p.act = "connect" => p.s # s
      BY <1>1, <1>2, <1>3, <1>4, <2>1 DEF Alike
    <3>2. p.s \in Session /\ Placed(p)
      BY <2>1, Known
    <3> QED
      BY <1>7, <1>13, <3>1, <3>2 DEF Placed
  <2>2. CASE p \in O
    BY <1>13, <2>2 DEF Receive, Op, Placed
  <2> QED
    BY <2>1, <2>2
<1>17. \A x \in Side : Waits(Receive(s, x))
  BY <1>6, ProxyAssumption DEF Receive, Op, Waits, UpTo, P!Latest
<1>18. \A o \in O : IF o.act = "accept" \/ SocketOf(o) \in opened'[o.s]
                    THEN Waits(o) ELSE Says(Result(o, "other", 0))
  <2>1. \A x \in Side : SocketOf(Receive(s, x)) \in opened'[Receive(s, x).s]
    BY <1>6, <1>7 DEF SocketOf, Receive, Op
  <2>2. \A o \in O : \E x \in Side : o = Receive(s, x)
    BY DEF Side
  <2> QED
    BY <1>17, <2>1, <2>2
<1> HIDE DEF O
<1> QED
  BY <1>1, <1>2, <1>7, <1>8, <1>9, <1>11, <1>12, <1>14, <1>15, <1>16, <1>18, GoesAhead

\* A session that is over and has received anything has no descriptor left.
LEMMA OverIsClosed ==
  ASSUME IInv, NEW s \in Session, s \in over, NEW x \in Side, taken[s][x] > 0
  PROVE  opened[s] = {}
<1>1. Stands(s)
  BY DEF IInv
<1>2. connected[s] = {} /\ {} # Side
  BY <1>1 DEF Stands, Side
<1>3. opened[s] # {} => taken[s][x] = 0
  BY <1>1, <1>2 DEF Stands
<1> QED
  BY <1>3

\* The handler of a direction starts the next operation of that direction.
LEMMA TakesTurns ==
  ASSUME IInv, alive, ready # <<>>, Handler.op.act \in {"receive", "send"}, Handler.res = "ok",
         NEW o \in Ops, Start({o}), o.act \in {"receive", "send"},
         o.s = Handler.op.s, o.from = Handler.op.from,
         taken[o.s][o.from] > 0,
         o.s \notin over => Waits(o),
         UNCHANGED <<alive, sessions, over, connected, opened, far, data>>
  PROVE  IInv'
<1>1. PICK h \in Ops : h = Handler.op
  BY HandlerOnly
<1>2. /\ h \in Under /\ Says(Handler) /\ Placed(h) /\ Stands(h.s) /\ TypeOK
      /\ h.s \in Session /\ h.from \in Side
      /\ \A p \in Under : Alike(p, h) => p = h
  BY <1>1, HandlerOnly DEF IInv
<1>3. \A p \in {o} : \A q \in Under : Alike(p, q) => q = h
  BY <1>1, <1>2 DEF Alike
<1>4. \A s \in Session : Stands(s)'
  BY DEF IInv, Stands, far, data
<1>5. ASSUME Under' = (Under \ {h}) \cup {o}
      PROVE  Going'
  <2>1. \E p \in Under' : p.act = "accept"
    BY <1>1, <1>5 DEF IInv, Going
  <2>2. \A u \in Session :
          connected'[u] = {"client"} => \E p \in Under' : p.act = "connect" /\ p.s = u
    BY <1>1, <1>5 DEF IInv, Going
  <2>3. ASSUME NEW u \in Session, connected'[u] = Side, NEW x \in Side
        PROVE  \E p \in Under' : p \in In(u, x)
    <3>1. PICK p \in Under : p \in In(u, x)
      BY <2>3 DEF IInv, Going
    <3>2. CASE p = h
      <4>1. o \in In(u, x)
        BY <1>1, <3>1, <3>2 DEF In
      <4> QED
        BY <1>5, <4>1
    <3> QED
      BY <1>5, <3>1, <3>2
  <2> QED
    BY <2>1, <2>2, <2>3 DEF Going
<1>6. Placed(o)
  BY <1>1, <1>2 DEF Placed
<1>7. \A p \in (Under \ {h}) \cup {o} : Placed(p)'
  BY <1>6, Known DEF Placed
<1>8. IF SocketOf(o) \in opened'[o.s] THEN Waits(o) ELSE Says(Result(o, "other", 0))
  <2>1. CASE o.s \in over
    <3>1. opened[o.s] = {}
      BY <1>1, <1>2, <2>1, OverIsClosed
    <3>2. Reset(o.s) \/ peer[o.s][Other(o.from)] = "fin"
      BY <1>1, <1>2, <2>1 DEF Says
    <3>3. Says(Result(o, "other", 0))
      BY <2>1, <3>2 DEF Says, Result
    <3> QED
      BY <3>1, <3>3
  <2>2. CASE o.s \notin over
    <3>1. opened[o.s] = Side
      BY <1>1, <1>2, <2>2 DEF Placed, Stands, Side
    <3>2. SocketOf(o) \in Side
      BY <1>1, <1>2 DEF SocketOf, Other, Side
    <3> QED
      BY <2>2, <3>1, <3>2
  <2> QED
    BY <2>1, <2>2
<1>9. /\ sessions' \subseteq Session
      /\ connected' \in [Session -> SUBSET Side]
      /\ opened' \in [Session -> SUBSET Side]
  BY <1>2 DEF TypeOK
<1> QED
  BY <1>1, <1>3, <1>4, <1>5, <1>7, <1>8, <1>9, GoesAhead

LEMMA StepHandleReceive ==
  ASSUME IInv, HandleReceive
  PROVE  IInv'
<1>1. alive /\ ready # <<>> /\ Handler.op.act = "receive" /\ Handler.res = "ok"
  BY DEF HandleReceive, Runs
<1> DEFINE h == Handler.op
<1>2. PICK o \in [act : {"send"}, s : {h.s}, from : {h.from}, n : {Handler.n}] :
        o = Send(h.s, h.from, Handler.n)
  BY DEF Send, Op
<1>3. Loaded(h.s, h.from, o.n) /\ h.s \in Session /\ h.from \in Side /\ TypeOK
  BY <1>1, <1>2, HandlerOnly DEF Says, IInv
<1>4. o \in Ops /\ taken[o.s][o.from] > 0
  <2>1. taken[h.s][h.from] \in Nat
    BY <1>3 DEF TypeOK
  <2>2. o.act = "send" /\ o.s = h.s /\ o.from = h.from
    BY <1>2
  <2>3. o.n \in 1 .. BufferSize /\ taken[h.s][h.from] > 0
    BY <1>3, <2>1, ProxyAssumption DEF Loaded
  <2> QED
    BY <1>2, <1>3, <2>2, <2>3, ProxyAssumption DEF Ops
<1>5. o.s \notin over => Waits(o)
  BY <1>2, <1>3 DEF Waits
<1>6. /\ Start({o})
      /\ UNCHANGED <<alive, sessions, over, connected, opened, far, data>>
  BY <1>2 DEF HandleReceive, Forward
<1> QED
  BY <1>1, <1>2, <1>4, <1>5, <1>6, TakesTurns

LEMMA StepHandleSend ==
  ASSUME IInv, HandleSend
  PROVE  IInv'
<1>1. alive /\ ready # <<>> /\ Handler.op.act = "send" /\ Handler.res = "ok"
  BY DEF HandleSend, Runs
<1> DEFINE h == Handler.op
<1>2. PICK o \in [act : {"receive"}, s : {h.s}, from : {h.from}, n : {0}] :
        o = Receive(h.s, h.from)
  BY DEF Receive, Op
<1>3. /\ UpTo(h.s, h.from, taken[h.s][h.from]) /\ taken[h.s][h.from] > 0
      /\ h.s \in Session /\ h.from \in Side
  BY <1>1, HandlerOnly DEF Says
<1>4. o \in Ops /\ taken[o.s][o.from] > 0
  BY <1>2, <1>3, ProxyAssumption DEF Ops
<1>5. o.s \notin over => Waits(o)
  BY <1>2, <1>3 DEF Waits
<1>6. /\ Start({o})
      /\ UNCHANGED <<alive, sessions, over, connected, opened, far, data>>
  BY <1>2 DEF HandleSend, Again
<1> QED
  BY <1>1, <1>2, <1>4, <1>5, <1>6, TakesTurns

\* A handler returns and leaves nothing but what it aborted.
LEMMA Ends ==
  ASSUME IInv, alive, ready # <<>>, NEW A, A \subseteq waiting,
         waiting' = waiting \ A,
         ready' = Tail(ready) \o SetToSeq({Result(o, "aborted", 0) : o \in A}),
         UNCHANGED <<alive, far, data>>,
         sessions' \subseteq Session, over' \subseteq Session,
         connected' \in [Session -> SUBSET Side],
         opened' \in [Session -> SUBSET Side],
         \A s \in Session : Stands(s)',
         Under' = Under \ {Handler.op} => Going',
         \A p \in Under \ {Handler.op} : Placed(p)',
         \A o \in waiting \ A : o.s \notin over',
         \A r \in (Queue \ {Handler}) \cup {Result(o, "aborted", 0) : o \in A} : Says(r)'
  PROVE  IInv'
<1>1. TypeOK /\ Single
  BY DEF IInv
<1>2. IsFiniteSet(A)
  BY <1>1, OpsFinite DEF TypeOK
<1>3. /\ Single' /\ Under' = Under \ {Handler.op}
      /\ waiting' \subseteq Ops /\ ready' \in Seq(Results)
      /\ \A r \in Queue' :
           r \in Queue \ {Handler} \/ \E o \in A : r = Result(o, "aborted", 0)
  BY <1>1, <1>2, Aborts
<1>4. TypeOK'
  BY <1>1, <1>3 DEF TypeOK, far, data
<1>5. peer' = peer /\ buffer' = buffer /\ taken' = taken /\ got' = got /\ cut' = cut
  BY DEF far, data
<1>6. \A s \in Session, x \in Side : Rests(s, x)
  BY <1>5 DEF Rests
<1>7. \A o \in waiting' : Waits(o)'
  <2> TAKE o \in waiting'
  <2>1. o \in Ops /\ Waits(o) /\ o.s \in Session /\ o.from \in Side
    BY Known
  <2> QED
    BY <1>5, <1>6, <2>1, WaitsKept
<1>8. DiesForAReason'
  BY DEF DiesForAReason
<1> QED
  BY <1>3, <1>4, <1>7, <1>8 DEF IInv

\* A handler of a session that is over returns and leaves nothing.
LEMMA Drops ==
  ASSUME IInv, alive, ready # <<>>, Handler.op.s \in over,
         waiting' = waiting, ready' = Tail(ready) \o SetToSeq({}),
         UNCHANGED <<alive, sessions, over, connected, opened, far, data>>
  PROVE  IInv'
<1>1. PICK h \in Ops : h = Handler.op
  BY HandlerOnly
<1>2. /\ h \in Under /\ Stands(h.s) /\ TypeOK /\ Placed(h)
      /\ h.s \in Session /\ h.from \in Side
  BY <1>1, HandlerOnly DEF IInv
<1>3. h.act # "accept"
  BY <1>1, <1>2, AcceptAlone
<1>4. connected[h.s] = {}
  BY <1>1, <1>2 DEF Stands
<1>5. \A s \in Session : Stands(s)'
  BY DEF IInv, Stands, far, data
<1>6. ASSUME Under' = Under \ {h}
      PROVE  Going'
  <2>1. \E p \in Under' : p.act = "accept"
    BY <1>3, <1>6 DEF IInv, Going
  <2>2. \A u \in Session :
          connected'[u] = {"client"} => \E p \in Under' : p.act = "connect" /\ p.s = u
    BY <1>4, <1>6 DEF IInv, Going
  <2>3. ASSUME NEW u \in Session, connected'[u] = Side, NEW x \in Side
        PROVE  \E p \in Under' : p \in In(u, x)
    <3>1. PICK p \in Under : p \in In(u, x)
      BY <2>3 DEF IInv, Going
    <3>2. u # h.s
      BY <1>4, <2>3 DEF Side
    <3> QED
      BY <1>6, <3>1, <3>2 DEF In
  <2> QED
    BY <2>1, <2>2, <2>3 DEF Going
<1>7. \A p \in Under \ {h} : Placed(p)'
  BY Known DEF Placed
<1>8. \A o \in waiting \ {} : o.s \notin over'
  BY Known DEF Waits
<1>9. ASSUME NEW r \in Queue
      PROVE  Says(r)'
  <2>1. r \in Results /\ Says(r) /\ r.op.s \in Session /\ r.op.from \in Side
    BY Known
  <2>2. GoesOn(r.op.s) /\ \A s \in Session, x \in Side : Rests(s, x)
    BY DEF GoesOn, Rests, far, data
  <2> QED
    BY <2>1, <2>2, SaysKept DEF far
<1>10. /\ sessions' \subseteq Session /\ over' \subseteq Session
       /\ connected' \in [Session -> SUBSET Side]
       /\ opened' \in [Session -> SUBSET Side]
  BY <1>2 DEF TypeOK
<1> DEFINE A == {}
<1>11. {Result(o, "aborted", 0) : o \in A} = {}
  OBVIOUS
<1>12. /\ A \subseteq waiting /\ waiting' = waiting \ A
       /\ ready' = Tail(ready) \o SetToSeq({Result(o, "aborted", 0) : o \in A})
       /\ \A r \in (Queue \ {Handler}) \cup {Result(o, "aborted", 0) : o \in A} : Says(r)'
       /\ \A o \in waiting \ A : o.s \notin over'
  BY <1>8, <1>9, <1>11
<1> HIDE DEF A
<1> QED
  BY <1>1, <1>5, <1>6, <1>7, <1>10, <1>12, Ends

LEMMA StepHandleAborted ==
  ASSUME IInv, HandleAborted
  PROVE  IInv'
<1>1. alive /\ ready # <<>> /\ Handler.res = "aborted"
  BY DEF HandleAborted, Runs, Harmless
<1>2. Handler.op.s \in over
  BY <1>1, HandlerOnly DEF Says, Ops
<1>3. SetToSeq({}) = <<>>
  <2>1. IsFiniteSet({})
    BY FS_EmptySet
  <2>2. /\ SetToSeq({}) \in Seq({}) /\ Len(SetToSeq({})) \in Nat
        /\ \A i \in 1 .. Len(SetToSeq({})) : SetToSeq({})[i] \in {}
    BY <2>1, Listing
  <2>3. Len(SetToSeq({})) = 0
    BY <2>2
  <2> QED
    BY <2>2, <2>3
<1>4. Tail(ready) \o <<>> = Tail(ready)
  BY <1>1 DEF IInv, TypeOK
<1> QED
  BY <1>1, <1>2, <1>3, <1>4, Drops DEF HandleAborted, proxy

\* A handler that throws.
LEMMA Thrown ==
  ASSUME IInv, alive, ready # <<>>, Throw,
         \/ Handler.op.act \in {"accept", "connect"}
         \/ Reset(Handler.op.s)
         \/ Handler.res = "other"
  PROVE  IInv'
<1>1. /\ alive' = FALSE /\ sessions' = sessions /\ over' = over /\ connected' = connected
      /\ opened' = opened /\ waiting' = waiting /\ ready' = ready /\ peer' = peer /\ sent' = sent
      /\ buffer' = buffer /\ taken' = taken /\ got' = got /\ cut' = cut
  BY DEF Throw, queues, far, data
<1>2. TypeOK' /\ Single' /\ Going' /\ Queue' = Queue /\ Under' = Under
  <2>1. TypeOK'
    BY <1>1 DEF IInv, TypeOK
  <2>2. Queue' = Queue /\ Under' = Under
    BY <1>1 DEF Queue, Under
  <2>3. Single' /\ Going'
    BY <1>1, <2>2 DEF IInv, Single, Going
  <2> QED
    BY <2>1, <2>2, <2>3
<1>3. \A s \in Session : Stands(s)'
  BY <1>1 DEF IInv, Stands
<1>4. \A o \in Under' : Placed(o)'
  BY <1>1, <1>2 DEF IInv, Placed
<1>5. \A s \in Session, x \in Side : Rests(s, x)
  BY <1>1 DEF Rests
<1>6. ASSUME NEW o \in waiting'
      PROVE  Waits(o)'
  <2>1. o \in Ops /\ Waits(o) /\ o.s \in Session /\ o.from \in Side
    BY <1>1, Known
  <2>2. o.s \notin over'
    BY <1>1, <2>1 DEF Waits
  <2> QED
    BY <1>1, <1>5, <2>1, <2>2, WaitsKept
<1>7. ASSUME NEW r \in Queue'
      PROVE  Says(r)'
  <2>1. r \in Results /\ Says(r) /\ r.op.s \in Session /\ r.op.from \in Side
    BY <1>2, Known
  <2>2. GoesOn(r.op.s)
    BY <1>1 DEF GoesOn
  <2> QED
    BY <1>1, <1>5, <2>1, <2>2, SaysKept
<1>8. DiesForAReason'
  <2>1. /\ Handler.op \in Ops /\ Says(Handler) /\ Handler.op.s \in Session
    BY HandlerOnly
  <2>2. CASE Handler.op.act \in {"accept", "connect"}
    BY <1>1, <2>2 DEF DiesForAReason, Handler
  <2>3. CASE Reset(Handler.op.s)
    BY <1>1, <2>3 DEF DiesForAReason, Handler, Reset
  <2>4. CASE Handler.res = "other" /\ Handler.op.act \in {"receive", "send"}
    <3>1. \/ Reset(Handler.op.s)
          \/ /\ Handler.op.s \in over /\ taken[Handler.op.s][Handler.op.from] > 0
             /\ peer[Handler.op.s][Other(Handler.op.from)] = "fin"
      BY <2>1, <2>4 DEF Says
    <3> QED
      BY <1>1, <2>3, <3>1 DEF DiesForAReason, Handler
  <2> QED
    BY <2>1, <2>2, <2>3, <2>4 DEF Ops
<1> QED
  BY <1>2, <1>3, <1>4, <1>6, <1>7, <1>8 DEF IInv

LEMMA StepHandleUnexpected ==
  ASSUME IInv, HandleUnexpected
  PROVE  IInv'
<1>1. alive /\ ready # <<>> /\ Handler.res = "other" /\ Throw
  BY DEF HandleUnexpected, Runs, Harmless
<1> QED
  BY <1>1, Thrown

\* A server refuses its session.
LEMMA EndsRefused ==
  ASSUME IInv, alive, ready # <<>>, Handler.op.act = "connect", Handler.res = "refused",
         Terminate(Handler.op.s)
  PROVE  IInv'
<1>1. PICK h \in Ops : h = Handler.op
  BY HandlerOnly
<1>2. PICK s \in Session : s = h.s
  BY DEF Ops
<1>3. /\ h \in Under /\ Says(Handler) /\ Placed(h) /\ Stands(s) /\ TypeOK
      /\ \A p \in Under : Alike(p, h) => p = h
  BY <1>1, <1>2, HandlerOnly DEF IInv
<1>4. {} # Side /\ {"client"} # Side /\ {"client"} # {} /\ Side \ {"client"} = {"server"}
  BY DEF Side
<1>5. /\ connected[s] = {"client"} /\ s \notin over /\ peer[s]["server"] = "none"
      /\ opened[s] = Side /\ s \in sessions
      /\ \A x \in Side : taken[s][x] = 0 /\ got[s][x] = <<>> /\ taken[s][x] <= sent[s][x]
  BY <1>1, <1>2, <1>3, <1>4 DEF Says, Placed, Stands
<1>6. CASE \E x \in connected[s] : peer[s][x] = "reset"
  <2>1. Reset(s)
    BY <1>5, <1>6 DEF Reset, Side
  <2> QED
    BY <1>1, <1>2, <1>6, <2>1, Thrown DEF Terminate
<1>7. CASE ~(\E x \in connected[s] : peer[s][x] = "reset")
  <2> DEFINE A == {o \in waiting : o.s = s /\ SocketOf(o) \in Closing(s)}
  <2>1. /\ sessions' = sessions \ {s}
        /\ over' = over \cup {s}
        /\ opened' = [opened EXCEPT ![s] = @ \ {"client"}]
        /\ connected' = [connected EXCEPT ![s] = {}]
        /\ waiting' = waiting \ A
        /\ ready' = Tail(ready) \o SetToSeq({Result(o, "aborted", 0) : o \in A})
        /\ UNCHANGED <<alive, far, data>>
    <3>1. Terminate(s)
      BY <1>1, <1>2
    <3>2. Unlisted(s) = sessions \ {s} /\ Closing(s) = {"client"}
      BY <1>5 DEF Unlisted, Closing
    <3> QED
      BY <1>7, <3>1, <3>2 DEF Terminate
  <2>2. A \subseteq waiting
    OBVIOUS
  <2> HIDE DEF A
  <2>3. ASSUME NEW p \in Under, p.s = s
        PROVE  p = h
    <3>1. p \in Ops /\ Placed(p)
      BY Known
    <3>2. p.act # "accept"
      BY <1>5, <2>3, AcceptAlone
    <3>3. p.act \notin {"receive", "send"}
      BY <1>4, <1>5, <2>3, <3>1 DEF Placed
    <3> QED
      BY <1>1, <1>2, <1>3, <2>3, <3>1, <3>2, <3>3 DEF Alike, Ops
  <2>4. h \notin waiting
    BY <1>1, HandlerOnly, AlikeIsEquivalence DEF IInv, Single
  <2>5. \A o \in waiting : o.s # s
    BY <2>3, <2>4, Known
  <2>6. A = {}
    BY <2>5 DEF A
  <2>7. /\ sessions' \subseteq Session /\ over' \subseteq Session
        /\ connected' \in [Session -> SUBSET Side]
        /\ opened' \in [Session -> SUBSET Side]
    BY <1>3, <2>1 DEF TypeOK
  <2>8. \A u \in Session : /\ connected'[u] = IF u = s THEN {} ELSE connected[u]
                           /\ opened'[u] = IF u = s THEN {"server"} ELSE opened[u]
    <3>1. /\ connected \in [Session -> SUBSET Side]
          /\ opened \in [Session -> SUBSET Side]
      BY <1>3 DEF TypeOK
    <3>2. \A u \in Session : connected'[u] = IF u = s THEN {} ELSE connected[u]
      BY <2>1, <3>1
    <3>3. \A u \in Session : opened'[u] = IF u = s THEN {"server"} ELSE opened[u]
      BY <1>4, <1>5, <2>1, <3>1
    <3> QED
      BY <3>2, <3>3
  <2>9. ASSUME NEW u \in Session
        PROVE  Stands(u)'
    <3>1. Stands(u)
      BY DEF IInv
    <3>2. CASE u # s
      BY <2>1, <2>8, <3>1, <3>2 DEF Stands, far, data
    <3>3. CASE u = s
      BY <1>4, <1>5, <2>1, <2>8, <3>3 DEF Stands, far, data
    <3> QED
      BY <3>2, <3>3
  <2>10. ASSUME Under' = Under \ {h}
         PROVE  Going'
    <3>1. \E p \in Under' : p.act = "accept"
      BY <1>1, <2>10 DEF IInv, Going
    <3>2. ASSUME NEW u \in Session, connected'[u] = {"client"}
          PROVE  \E p \in Under' : p.act = "connect" /\ p.s = u
      <4>1. u # s /\ connected[u] = {"client"}
        BY <1>4, <2>8, <3>2
      <4> QED
        BY <1>2, <2>10, <4>1 DEF IInv, Going
    <3>3. ASSUME NEW u \in Session, connected'[u] = Side, NEW x \in Side
          PROVE  \E p \in Under' : p \in In(u, x)
      <4>1. u # s /\ connected[u] = Side
        BY <1>4, <2>8, <3>3
      <4>2. PICK p \in Under : p \in In(u, x)
        BY <4>1 DEF IInv, Going
      <4> QED
        BY <1>2, <2>10, <4>1, <4>2 DEF In
    <3> QED
      BY <3>1, <3>2, <3>3 DEF Going
  <2>11. ASSUME NEW p \in Under \ {h}
         PROVE  Placed(p)'
    <3>1. p.s # s /\ p.s \in Session /\ Placed(p)
      BY <2>3, <2>11, Known
    <3> QED
      BY <1>5, <2>1, <2>8, <3>1 DEF Placed
  <2>12. \A o \in waiting \ A : o.s \notin over'
    BY <2>1, <2>5, Known DEF Waits
  <2>13. ASSUME NEW r \in Queue \ {Handler}
         PROVE  Says(r)'
    <3>1. r \in Results /\ Says(r) /\ r.op.s \in Session /\ r.op.from \in Side /\ r.op \in Under
      BY Known
    <3>2. r.op # h
      BY <1>1, <1>3, HandlerOnly, OneResult, AlikeIsEquivalence DEF IInv
    <3>3. r.op.s # s
      BY <2>3, <3>1, <3>2
    <3> QED
      BY <2>1, <3>1, <3>3 DEF Says, Reset, UpTo, Loaded, P!Latest, far, data
  <2>14. \A r \in (Queue \ {Handler}) \cup {Result(o, "aborted", 0) : o \in A} : Says(r)'
    BY <2>6, <2>13
  <2> QED
    BY <1>1, <2>1, <2>2, <2>7, <2>9, <2>10, <2>11, <2>12, <2>14, Ends
<1> QED
  BY <1>6, <1>7

\* The end of a connection ends its session.
LEMMA EndsHeard ==
  ASSUME IInv, alive, ready # <<>>, Handler.op.act \in {"receive", "send"},
         Handler.res \in {"eof", "reset"}, Handler.op.s \notin over,
         Terminate(Handler.op.s)
  PROVE  IInv'
<1>1. PICK h \in Ops : h = Handler.op
  BY HandlerOnly
<1>2. PICK s \in Session : s = h.s
  BY DEF Ops
<1>3. /\ h \in Under /\ Says(Handler) /\ Placed(h) /\ Stands(s) /\ TypeOK
      /\ h.from \in Side /\ \A p \in Under : Alike(p, h) => p = h
  BY <1>1, <1>2, HandlerOnly DEF IInv
<1>4. {} # Side /\ {"client"} # Side /\ Side \ Side = {}
  BY DEF Side
<1>5. /\ connected[s] = Side /\ s \notin over /\ opened[s] = Side /\ s \in sessions
      /\ \A x \in Side : taken[s][x] <= sent[s][x]
  BY <1>1, <1>2, <1>3, <1>4 DEF Placed, Stands
<1>6. CASE Reset(s)
  <2>1. \E x \in connected[s] : peer[s][x] = "reset"
    BY <1>5, <1>6 DEF Reset
  <2> QED
    BY <1>1, <1>2, <1>6, <2>1, Thrown DEF Terminate
<1>7. CASE ~Reset(s)
  <2> DEFINE A == {o \in waiting : o.s = s /\ SocketOf(o) \in Closing(s)}
  <2>1. /\ sessions' = sessions \ {s}
        /\ over' = over \cup {s}
        /\ opened' = [opened EXCEPT ![s] = @ \ Side]
        /\ connected' = [connected EXCEPT ![s] = {}]
        /\ waiting' = waiting \ A
        /\ ready' = Tail(ready) \o SetToSeq({Result(o, "aborted", 0) : o \in A})
        /\ UNCHANGED <<alive, far, data>>
    BY <1>1, <1>2, <1>5, <1>7 DEF Terminate, Unlisted, Closing, Reset
  <2>2. A \subseteq waiting
    OBVIOUS
  <2>3. A = {o \in waiting : o.s = s}
    <3>1. \A o \in waiting : SocketOf(o) \in Side
      BY Known DEF SocketOf, Other, Side
    <3> QED
      BY <1>5, <3>1 DEF Closing
  <2> HIDE DEF A
  <2>4. h.act = "receive" /\ peer[s][h.from] = "fin"
    BY <1>1, <1>2, <1>3, <1>7 DEF Says, Reset
  <2>5. ASSUME NEW p \in Under, p.s = s, p # h
        PROVE  p.act \in {"receive", "send"} /\ Other(p.from) = h.from /\ p.from \in Side
    <3>1. p \in Ops /\ Placed(p) /\ p.from \in Side
      BY Known
    <3>2. p.act # "accept"
      BY <1>5, <2>5, AcceptAlone
    <3>3. p.act # "connect"
      BY <1>4, <1>5, <2>5, <3>1 DEF Placed
    <3>4. p.act \in {"receive", "send"}
      BY <3>1, <3>2, <3>3 DEF Ops
    <3>5. p.from # h.from
      BY <1>2, <1>3, <2>4, <2>5, <3>4 DEF Alike
    <3> QED
      BY <1>3, <3>1, <3>4, <3>5 DEF Other, Side
  <2>6. h \notin waiting
    BY <1>1, HandlerOnly, AlikeIsEquivalence DEF IInv, Single
  <2>7. /\ sessions' \subseteq Session /\ over' \subseteq Session
        /\ connected' \in [Session -> SUBSET Side]
        /\ opened' \in [Session -> SUBSET Side]
    BY <1>3, <2>1 DEF TypeOK
  <2>8. \A u \in Session : /\ connected'[u] = IF u = s THEN {} ELSE connected[u]
                           /\ opened'[u] = IF u = s THEN {} ELSE opened[u]
    <3>1. /\ connected \in [Session -> SUBSET Side]
          /\ opened \in [Session -> SUBSET Side]
      BY <1>3 DEF TypeOK
    <3>2. \A u \in Session : connected'[u] = IF u = s THEN {} ELSE connected[u]
      BY <2>1, <3>1
    <3>3. \A u \in Session : opened'[u] = IF u = s THEN {} ELSE opened[u]
      BY <1>4, <1>5, <2>1, <3>1
    <3> QED
      BY <3>2, <3>3
  <2>9. ASSUME NEW u \in Session
        PROVE  Stands(u)'
    <3>1. Stands(u)
      BY DEF IInv
    <3>2. CASE u # s
      BY <2>1, <2>8, <3>1, <3>2 DEF Stands, far, data
    <3>3. CASE u = s
      BY <1>4, <1>5, <2>1, <2>8, <3>3 DEF Stands, far, data
    <3> QED
      BY <3>2, <3>3
  <2>10. ASSUME Under' = Under \ {h}
         PROVE  Going'
    <3>1. \E p \in Under' : p.act = "accept"
      BY <2>4, <2>10 DEF IInv, Going
    <3>2. ASSUME NEW u \in Session, connected'[u] = {"client"}
          PROVE  \E p \in Under' : p.act = "connect" /\ p.s = u
      <4>1. u # s /\ connected[u] = {"client"}
        BY <1>4, <2>8, <3>2
      <4> QED
        BY <1>2, <2>10, <4>1 DEF IInv, Going
    <3>3. ASSUME NEW u \in Session, connected'[u] = Side, NEW x \in Side
          PROVE  \E p \in Under' : p \in In(u, x)
      <4>1. u # s /\ connected[u] = Side
        BY <1>4, <2>8, <3>3
      <4>2. PICK p \in Under : p \in In(u, x)
        BY <4>1 DEF IInv, Going
      <4> QED
        BY <1>2, <2>10, <4>1, <4>2 DEF In
    <3> QED
      BY <3>1, <3>2, <3>3 DEF Going
  <2>11. ASSUME NEW p \in Under \ {h}
         PROVE  Placed(p)'
    <3>1. p.s \in Session /\ Placed(p) /\ p \in Ops
      BY Known
    <3>2. CASE p.s # s
      BY <1>5, <2>1, <2>8, <3>1, <3>2 DEF Placed
    <3>3. CASE p.s = s
      <4>1. p.act \in {"receive", "send"} /\ p.s \in over'
        BY <2>1, <2>5, <2>11, <3>3
      <4> QED
        BY <4>1 DEF Placed
    <3> QED
      BY <3>2, <3>3
  <2>12. \A o \in waiting \ A : o.s \notin over'
    BY <2>1, <2>3, Known DEF Waits
  <2>13. ASSUME NEW r \in Queue \ {Handler}
         PROVE  Says(r)'
    <3>1. r \in Results /\ Says(r) /\ r.op.s \in Session /\ r.op.from \in Side /\ r.op \in Under
      BY Known
    <3>2. CASE r.op.s # s
      BY <2>1, <3>1, <3>2 DEF Says, Reset, UpTo, Loaded, P!Latest, far, data
    <3>3. CASE r.op.s = s
      <4>1. r.op # h
        BY <1>1, <1>3, HandlerOnly, OneResult, AlikeIsEquivalence DEF IInv
      <4>2. r.op.act \in {"receive", "send"} /\ Other(r.op.from) = h.from
        BY <2>5, <3>1, <3>3, <4>1
      <4>3. r.res = "ok" => taken[s][r.op.from] > 0
        <5>1. taken[s][r.op.from] \in Nat
          BY <1>3, <3>1 DEF TypeOK
        <5> QED
          BY <3>1, <3>3, <4>2, <5>1, ProxyAssumption DEF Says, Loaded
      <4>4. r.res \in {"ok", "eof", "aborted"}
        BY <1>5, <1>7, <3>1, <3>3, <4>2 DEF Says
      <4>5. r.res = "eof" => r.op.act = "receive" /\ peer[s][r.op.from]' \in {"fin", "reset"}
        BY <2>1, <3>1, <3>3, <4>2 DEF Says, far
      <4>6. s \in over' /\ peer[s][Other(r.op.from)]' = "fin" /\ taken' = taken
        BY <2>1, <2>4, <4>2 DEF far, data
      <4>7. Rests(s, r.op.from)
        BY <2>1 DEF Rests, data
      <4>8. /\ r.res = "ok" /\ r.op.act = "receive" => Loaded(s, r.op.from, r.n)'
            /\ r.res = "ok" /\ r.op.act = "send" => UpTo(s, r.op.from, taken[s][r.op.from])'
        BY <3>1, <3>3, <4>2, <4>6, <4>7, LoadedKept DEF Says
      <4> QED
        BY <3>3, <4>2, <4>3, <4>4, <4>5, <4>6, <4>8 DEF Says
    <3> QED
      BY <3>2, <3>3
  <2>14. ASSUME NEW o \in A
         PROVE  Says(Result(o, "aborted", 0))'
    <3>1. o \in Under /\ o # h /\ o.s = s
      BY <2>3, <2>6, Known
    <3>2. o.act \in {"receive", "send"} /\ s \in over'
      BY <2>1, <2>5, <3>1
    <3> QED
      BY <3>1, <3>2 DEF Says, Result
  <2>15. \A r \in (Queue \ {Handler}) \cup {Result(o, "aborted", 0) : o \in A} : Says(r)'
    BY <2>13, <2>14
  <2> QED
    BY <1>1, <2>1, <2>2, <2>7, <2>9, <2>10, <2>11, <2>12, <2>15, Ends
<1> QED
  BY <1>6, <1>7

LEMMA StepHandleEnd ==
  ASSUME IInv, HandleEnd
  PROVE  IInv'
<1> DEFINE h == Handler.op
<1>1. /\ alive /\ ready # <<>> /\ Terminate(h.s)
      /\ \/ h.act = "connect" /\ Handler.res = "refused"
         \/ h.act \in {"receive", "send"} /\ Handler.res \in {"eof", "reset"}
  BY DEF HandleEnd, Runs
<1>2. CASE h.act = "connect"
  BY <1>1, <1>2, EndsRefused
<1>3. CASE h.act # "connect" /\ h.s \notin over
  BY <1>1, <1>3, EndsHeard
<1>4. CASE h.act # "connect" /\ h.s \in over
  <2>1. PICK s \in Session : s = h.s
    BY <1>1, HandlerOnly
  <2>2. connected[s] = {} /\ TypeOK
    BY <1>1, <1>4, <2>1, HandlerOnly DEF Stands, IInv
  <2>3. \A o \in waiting : ~(o.s = s /\ SocketOf(o) \in Closing(s))
    BY <2>2 DEF Closing
  <2>4. {o \in waiting : o.s = s /\ SocketOf(o) \in Closing(s)} = {}
    BY <2>3
  <2>5. {Result(o, "aborted", 0) : o \in {p \in waiting : p.s = s /\ SocketOf(p) \in Closing(s)}} = {}
    BY <2>4
  <2>6. /\ sessions' = Unlisted(s)
        /\ over' = over \cup {s}
        /\ opened' = [opened EXCEPT ![s] = @ \ Closing(s)]
        /\ connected' = [connected EXCEPT ![s] = {}]
        /\ waiting' = waiting \ {o \in waiting : o.s = s /\ SocketOf(o) \in Closing(s)}
        /\ ready' = Tail(ready) \o SetToSeq({Result(o, "aborted", 0) :
                       o \in {p \in waiting : p.s = s /\ SocketOf(p) \in Closing(s)}})
        /\ UNCHANGED <<alive, far, data>>
    BY <1>1, <2>1, <2>2 DEF Terminate
  <2>7. sessions' = sessions /\ over' = over
    BY <1>4, <2>1, <2>6 DEF Unlisted
  <2>8. opened' = opened /\ connected' = connected
    BY <2>2, <2>6 DEF Closing, TypeOK
  <2>9. waiting' = waiting /\ ready' = Tail(ready) \o SetToSeq({})
    BY <2>4, <2>5, <2>6
  <2> QED
    BY <1>1, <1>4, <2>6, <2>7, <2>8, <2>9, Drops
<1> QED
  BY <1>2, <1>3, <1>4

-----------------------------------------------------------------------------
(* The theorems.                                                            *)

LEMMA InitIInv == Init => IInv
<1> SUFFICES ASSUME Init PROVE IInv
  OBVIOUS
<1>1. 1 \in Session /\ Accept(1) \in Ops
  BY ProxyAssumption DEF Session, Accept, Op, Ops, Side
<1>2. /\ alive = TRUE /\ sessions = {} /\ over = {}
      /\ waiting = {Accept(1)} /\ ready = <<>> /\ Len(ready) = 0
      /\ connected = [s \in Session |-> {}] /\ opened = [s \in Session |-> {}]
      /\ buffer = [s \in Session |-> [x \in Side |-> [i \in 1 .. BufferSize |-> 0]]]
      /\ peer = [s \in Session |-> [x \in Side |-> "none"]]
      /\ sent = [s \in Session |-> [x \in Side |-> 0]]
      /\ taken = [s \in Session |-> [x \in Side |-> 0]]
      /\ got = [s \in Session |-> [x \in Side |-> <<>>]]
      /\ cut = [s \in Session |-> [x \in Side |-> 0]]
  BY DEF Init
<1>3. TypeOK
  <2>1. 0 \in 0 .. MaxBytes /\ <<>> \in Seq(1 .. MaxBytes) /\ <<>> \in Seq(Results)
    BY ProxyAssumption
  <2> QED
    BY <1>1, <1>2, <2>1 DEF TypeOK
<1>4. Queue = {} /\ Under = {Accept(1)}
  BY <1>2 DEF Queue, Under
<1>5. Single
  BY <1>2, <1>4 DEF Single
<1>6. {} # Side /\ {} # {"client"}
  BY DEF Side
<1>7. Going
  <2>1. Accept(1) \in Under /\ Accept(1).act = "accept"
    BY <1>4 DEF Accept, Op
  <2> QED
    BY <1>2, <1>6, <2>1 DEF Going
<1>8. \A s \in Session : Stands(s)
  BY <1>2, <1>6 DEF Stands, Side
<1>9. Placed(Accept(1)) /\ Waits(Accept(1))
  BY <1>2 DEF Accept, Op, Placed, Waits
<1>10. DiesForAReason
  BY <1>2 DEF DiesForAReason
<1> QED
  BY <1>2, <1>3, <1>4, <1>5, <1>7, <1>8, <1>9, <1>10 DEF IInv

\* Every step of the proxy keeps the invariant.
LEMMA IInvNext == IInv /\ [Next]_vars => IInv'
<1> SUFFICES ASSUME IInv, [Next]_vars PROVE IInv'
  OBVIOUS
<1>1. CASE Handle
  BY <1>1, StepHandleAccept, StepHandleServerConnect, StepHandleReceive, StepHandleSend,
     StepHandleEnd, StepHandleAborted, StepHandleUnexpected DEF Handle
<1>2. CASE alive /\ Serve
  BY <1>2, StepConnected, StepReceived, StepReceiveEnds, StepSent, StepSendFails DEF Serve
<1>3. CASE alive /\ Arrive
  BY <1>3, StepAccepted, StepAcceptFails, StepConnectFails DEF Arrive
<1>4. CASE alive /\ Far
  BY <1>4, StepFar
<1>5. CASE UNCHANGED vars
  <2>1. /\ alive' = alive /\ sessions' = sessions /\ over' = over /\ connected' = connected
        /\ opened' = opened /\ waiting' = waiting /\ ready' = ready
        /\ peer' = peer /\ sent' = sent
        /\ buffer' = buffer /\ taken' = taken /\ got' = got /\ cut' = cut
    BY <1>5 DEF vars, proxy, queues, far, data
  <2>2. TypeOK'
    BY <2>1 DEF IInv, TypeOK
  <2>3. Queue' = Queue /\ Under' = Under
    BY <2>1 DEF Queue, Under
  <2>4. Single' /\ Going'
    BY <2>1, <2>3 DEF IInv, Single, Going
  <2>5. (\A s \in Session : Stands(s)') /\ \A o \in Under' : Placed(o)'
    BY <2>1, <2>3 DEF IInv, Stands, Placed
  <2>6. \A o \in waiting' : Waits(o)'
    BY <2>1 DEF IInv, Waits, Loaded, UpTo, P!Latest
  <2>7. \A r \in Queue' : Says(r)'
    <3>1. ASSUME NEW r \in Queue
          PROVE  Says(r)'
      <4>1. Says(r)
        BY <3>1 DEF IInv
      <4>2. ASSUME NEW s, NEW x, NEW k
            PROVE  /\ Reset(s)' = Reset(s)
                   /\ UpTo(s, x, k)' = UpTo(s, x, k)
                   /\ Loaded(s, x, k)' = Loaded(s, x, k)
        BY <2>1 DEF Reset, Loaded, UpTo, P!Latest
      <4> QED
        BY <2>1, <4>1, <4>2 DEF Says
    <3> QED
      BY <2>3, <3>1
  <2>8. DiesForAReason'
    BY <2>1 DEF IInv, DiesForAReason, Handler
  <2> QED
    BY <2>2, <2>4, <2>5, <2>6, <2>7, <2>8 DEF IInv
<1> QED
  BY <1>1, <1>2, <1>3, <1>4, <1>5 DEF Next

\* The invariant of the proxy.
THEOREM Invariance == Spec => []IInv
<1> QED
  BY InitIInv, IInvNext, PTL DEF Spec

LEMMA UnderOnly ==
  ASSUME IInv, NEW o \in Under, NEW p \in Under, Alike(o, p)
  PROVE  o = p
<1>1. Single /\ TypeOK
  BY DEF IInv
<1>2. CASE o \in waiting /\ p \in waiting
  BY <1>1, <1>2 DEF Single
<1>3. ASSUME o \in waiting, NEW r \in Queue, p = r.op
      PROVE  FALSE
  BY <1>1, <1>3 DEF Single
<1>4. ASSUME p \in waiting, NEW r \in Queue, o = r.op
      PROVE  FALSE
  BY <1>1, <1>4, AlikeIsEquivalence DEF Single
<1>5. ASSUME NEW q \in Queue, NEW r \in Queue, o = q.op, p = r.op
      PROVE  o = p
  BY <1>1, <1>5, OneResult
<1> QED
  BY <1>2, <1>3, <1>4, <1>5 DEF Under

LEMMA PendingNone ==
  ASSUME IInv, NEW O, O \cap Under = {}
  PROVE  Pending(O) = 0
<1>1. waiting \cap O = {}
  BY DEF Under
<1>2. {i \in 1 .. Len(ready) : ready[i].op \in O} = {}
  BY DEF Under, Queue
<1>3. Cardinality({}) = 0
  BY FS_EmptySet
<1>4. Cardinality(waiting \cap O) = 0
  BY <1>1, <1>3
<1>5. Cardinality({i \in 1 .. Len(ready) : ready[i].op \in O}) = 0
  BY <1>2, <1>3
<1> QED
  BY <1>4, <1>5 DEF Pending

LEMMA PendingOne ==
  ASSUME IInv, NEW O, NEW o \in O, o \in Under, \A p \in O \cap Under : Alike(o, p)
  PROVE  Pending(O) = 1
<1>1. \A p \in O \cap Under : p = o
  BY UnderOnly
<1>2. Single /\ TypeOK /\ o \in Ops
  BY Known DEF IInv
<1>3. CASE o \in waiting
  <2>1. waiting \cap O = {o}
    BY <1>1, <1>3 DEF Under
  <2>2. {i \in 1 .. Len(ready) : ready[i].op \in O} = {}
    <3>1. \A i \in 1 .. Len(ready) : ready[i].op \in O => ready[i].op = o
      BY <1>1 DEF Under, Queue
    <3>2. \A i \in 1 .. Len(ready) : ready[i].op # o
      BY <1>2, <1>3, AlikeIsEquivalence DEF Single, Queue
    <3> QED
      BY <3>1, <3>2
  <2>3. Cardinality(waiting \cap O) = 1
    BY <2>1, FS_Singleton
  <2>4. Cardinality({i \in 1 .. Len(ready) : ready[i].op \in O}) = 0
    BY <2>2, FS_EmptySet
  <2> QED
    BY <2>3, <2>4 DEF Pending
<1>4. CASE o \notin waiting
  <2>1. waiting \cap O = {}
    BY <1>1, <1>4 DEF Under
  <2>2. PICK j \in 1 .. Len(ready) : ready[j].op = o
    BY <1>4 DEF Under, Queue
  <2>3. {i \in 1 .. Len(ready) : ready[i].op \in O} = {j}
    <3>1. \A i \in 1 .. Len(ready) : ready[i].op \in O => ready[i].op = o
      BY <1>1 DEF Under, Queue
    <3>2. \A i \in 1 .. Len(ready) : ready[i].op = o => i = j
      BY <1>2, <2>2, AlikeIsEquivalence DEF Single
    <3> QED
      BY <2>2, <3>1, <3>2
  <2>4. Cardinality(waiting \cap O) = 0
    BY <2>1, FS_EmptySet
  <2>5. Cardinality({i \in 1 .. Len(ready) : ready[i].op \in O}) = 1
    BY <2>3, FS_Singleton
  <2> QED
    BY <2>4, <2>5 DEF Pending
<1> QED
  BY <1>3, <1>4

LEMMA IInvOneOperation == IInv => OneOperation
<1> SUFFICES ASSUME IInv PROVE OneOperation
  OBVIOUS
<1>1. Going /\ TypeOK
  BY DEF IInv
<1>2. Pending({o \in Ops : o.act = "accept"}) = 1
  <2> DEFINE O == {o \in Ops : o.act = "accept"}
  <2>1. PICK o \in Under : o.act = "accept"
    BY <1>1 DEF Going
  <2>2. o \in O /\ \A p \in O \cap Under : Alike(o, p)
    BY <2>1, Known DEF Alike
  <2> HIDE DEF O
  <2> QED
    BY <2>2, PendingOne DEF O
<1>3. ASSUME NEW s \in Session
      PROVE  Pending({o \in Ops : o.act = "connect" /\ o.s = s})
               = (IF s \in sessions /\ "server" \notin connected[s] THEN 1 ELSE 0)
  <2> DEFINE O == {o \in Ops : o.act = "connect" /\ o.s = s}
  <2>1. Stands(s)
    BY DEF IInv
  <2>2. s \in sessions /\ "server" \notin connected[s] <=> connected[s] = {"client"}
    BY <2>1 DEF Stands, Side
  <2>3. CASE connected[s] = {"client"}
    <3>1. PICK o \in Under : o.act = "connect" /\ o.s = s
      BY <1>1, <2>3 DEF Going
    <3>2. o \in O /\ \A p \in O \cap Under : Alike(o, p)
      BY <3>1, Known DEF Alike
    <3> HIDE DEF O
    <3>3. Pending(O) = 1
      BY <3>2, PendingOne
    <3> QED
      BY <2>2, <2>3, <3>3 DEF O
  <2>4. CASE connected[s] # {"client"}
    <3>1. O \cap Under = {}
      BY <2>4, Known DEF Placed
    <3> HIDE DEF O
    <3>2. Pending(O) = 0
      BY <3>1, PendingNone
    <3> QED
      BY <2>2, <2>4, <3>2 DEF O
  <2> QED
    BY <2>3, <2>4
<1>4. ASSUME NEW s \in Session, NEW x \in Side
      PROVE  /\ connected[s] = Side => Pending(In(s, x)) = 1
             /\ s \in over => Pending(In(s, x)) <= 1
             /\ connected[s] # Side /\ s \notin over => Pending(In(s, x)) = 0
  <2>1. ASSUME NEW o \in In(s, x), o \in Under
        PROVE  Pending(In(s, x)) = 1
    <3>1. \A p \in In(s, x) \cap Under : Alike(o, p)
      BY <2>1 DEF In, Alike
    <3> QED
      BY <2>1, <3>1, PendingOne
  <2>2. CASE In(s, x) \cap Under = {}
    <3>1. Pending(In(s, x)) = 0
      BY <2>2, PendingNone
    <3>2. connected[s] # Side
      BY <1>1, <2>2 DEF Going
    <3> QED
      BY <3>1, <3>2
  <2>3. CASE In(s, x) \cap Under # {}
    <3>1. PICK o \in In(s, x) : o \in Under
      BY <2>3
    <3>2. Pending(In(s, x)) = 1
      BY <2>1, <3>1
    <3>3. s \in over \/ connected[s] = Side
      BY <3>1, Known DEF Placed, In
    <3> QED
      BY <3>2, <3>3
  <2> QED
    BY <2>2, <2>3
<1> QED
  BY <1>2, <1>3, <1>4 DEF OneOperation

\* Each direction of a session that lives has exactly one operation under way, one
\* that is over at most its last handler, and it leaves no socket and no pointer
\* behind; and there is always exactly one session that waits for a client.
THEOREM Sound == Spec => []SessionsSound
<1>1. IInv => NoLeak
  <2> SUFFICES ASSUME IInv, NEW s \in Session
               PROVE  /\ s \in over => /\ s \notin sessions
                                       /\ connected[s] = {}
                                       /\ opened[s] \subseteq {"server"}
                                       /\ opened[s] # {} => peer[s]["server"] = "none"
                                       /\ \A o \in waiting : o.s # s
                      /\ s \in sessions <=> connected[s] # {}
    BY DEF NoLeak
  <2>1. Stands(s)
    BY DEF IInv
  <2>2. \A o \in waiting : o.s = s => s \notin over
    BY DEF IInv, Waits
  <2> QED
    BY <2>1, <2>2 DEF Stands
<1>2. IInv => SessionsSound
  BY <1>1, IInvOneOperation DEF SessionsSound, IInv
<1> QED
  BY <1>2, Invariance, PTL

\* The proxy only dies of an accept or connect that failed, of a connection that was
\* reset, or of one end that closes where bytes of the other have come, in a handler
\* of that other direction.
THEOREM DiesOnlyThen == Spec => []DiesForAReason
<1>1. IInv => DiesForAReason
  BY DEF IInv
<1> QED
  BY <1>1, Invariance, PTL

-----------------------------------------------------------------------------
(* The proxy implements Pipes.                                              *)

\* The stage of each session, as Proxy gives it to Pipes.
Stage == [s \in Session |-> IF s \in over THEN "over"
                            ELSE IF "server" \in connected[s] THEN "open" ELSE "new"]

\* A step that the pipes do not see.
LEMMA Unseen ==
  ASSUME over' = over, sent' = sent, got' = got,
         \A s \in Session : "server" \in connected[s]' <=> "server" \in connected[s]
  PROVE  UNCHANGED <<Stage, sent, got>>
BY DEF Stage

LEMMA ServerConnectOpens ==
  ASSUME IInv, HandleServerConnect
  PROVE  \E s \in Session : P!Open(s)
<1>1. ready # <<>> /\ Handler.op.act = "connect"
  BY DEF HandleServerConnect, Runs
<1>2. PICK s \in Session : s = Handler.op.s
  BY <1>1, HandlerOnly
<1>3. connected[s] = {"client"} /\ Stands(s) /\ TypeOK
  BY <1>1, <1>2, HandlerOnly DEF Placed, IInv
<1>4. s \notin over
  BY <1>3 DEF Stands
<1>5. /\ connected' = [connected EXCEPT ![s] = @ \cup {"server"}]
      /\ over' = over /\ sent' = sent /\ got' = got
  BY <1>2 DEF HandleServerConnect, far, data
<1>6. \A u \in Session :
        connected'[u] = IF u = s THEN connected[s] \cup {"server"} ELSE connected[u]
  BY <1>3, <1>5 DEF TypeOK
<1>7. Stage[s] = "new"
  BY <1>3, <1>4 DEF Stage
<1>8. Stage' = [Stage EXCEPT ![s] = "open"]
  <2>1. "server" \in connected'[s]
    BY <1>6
  <2>2. \A u \in Session : u # s => connected'[u] = connected[u]
    BY <1>6
  <2> QED
    BY <1>4, <1>5, <2>1, <2>2 DEF Stage
<1>9. P!Open(s)
  BY <1>5, <1>7, <1>8 DEF P!Open, Stage
<1> QED
  BY <1>9

LEMMA TerminateCuts ==
  ASSUME IInv, NEW s \in Session, Terminate(s)
  PROVE  (\E u \in Session : P!Cut(u)) \/ UNCHANGED <<Stage, sent, got>>
<1>1. CASE Throw
  <2>1. over' = over /\ sent' = sent /\ got' = got /\ connected' = connected
    BY <1>1 DEF Throw, far, data
  <2> QED
    BY <2>1, Unseen
<1>2. CASE /\ over' = over \cup {s}
           /\ connected' = [connected EXCEPT ![s] = {}]
           /\ UNCHANGED <<alive, far, data>>
  <2>1. Stands(s) /\ TypeOK
    BY DEF IInv
  <2>2. sent' = sent /\ got' = got
    BY <1>2 DEF far, data
  <2>3. \A u \in Session : connected'[u] = IF u = s THEN {} ELSE connected[u]
    BY <1>2, <2>1 DEF TypeOK
  <2>4. CASE s \in over
    <3>1. connected[s] = {} /\ over' = over
      BY <1>2, <2>1, <2>4 DEF Stands
    <3> QED
      BY <2>2, <2>3, <3>1, Unseen
  <2>5. CASE s \notin over
    <3>1. Stage[s] # "over"
      BY <2>5 DEF Stage
    <3>2. Stage' = [Stage EXCEPT ![s] = "over"]
      BY <1>2, <2>3 DEF Stage
    <3>3. P!Cut(s)
      BY <2>2, <3>1, <3>2 DEF P!Cut, Stage
    <3> QED
      BY <3>3
  <2> QED
    BY <2>4, <2>5
<1> QED
  BY <1>1, <1>2 DEF Terminate

LEMMA SentDelivers ==
  ASSUME IInv, NEW o \in waiting, Sent(o)
  PROVE  \E s \in Session, x \in Side : \E a, b \in 1 .. sent[s][x] : P!Deliver(s, x, a, b)
<1> DEFINE s == o.s
           x == o.from
           n == o.n
<1>1. /\ o \in Ops /\ s \in Session /\ x \in Side /\ TypeOK
      /\ Waits(o) /\ Placed(o) /\ Stands(s)
  BY Known DEF IInv
<1>2. PICK t \in Nat : t = taken[s][x]
  BY <1>1, ProxyAssumption DEF TypeOK
<1>3. n \in 1 .. BufferSize /\ n <= t /\ UpTo(s, x, t - n)
  BY <1>2, SentBytes
<1>4. PICK k \in 1 .. n :
        /\ "partial" \notin Faults => k = n
        /\ got' = [got EXCEPT ![s][x] = @ \o [i \in 1 .. k |-> t - n + i]]
  <2>1. t = taken[o.s][o.from]
    BY <1>2
  <2>2. \E k \in 1 .. o.n :
          /\ "partial" \notin Faults => k = o.n
          /\ got' = [got EXCEPT ![o.s][o.from] = @ \o [i \in 1 .. k |-> t - o.n + i]]
          /\ Complete(o, "ok", k)
    BY <2>1, SentBytes
  <2> QED
    BY <2>2
<1>5. s \notin over /\ connected[s] = Side
  BY <1>1 DEF Waits, Placed, Sent
<1>6. over' = over /\ connected' = connected /\ sent' = sent
  BY DEF Sent, proxy, far
<1>7. sent[s][x] \in Nat /\ t <= sent[s][x]
  BY <1>1, <1>2, ProxyAssumption DEF TypeOK, Stands
<1>8. PICK a \in Nat : a = t - n + 1
  BY <1>2, <1>3, ProxyAssumption
<1>9. PICK b \in Nat : b = t - n + k
  BY <1>2, <1>3, <1>4, ProxyAssumption
<1>10. a \in 1 .. sent[s][x] /\ b \in 1 .. sent[s][x] /\ a <= b
  <2>1. n \in Nat /\ k \in Nat /\ 1 <= k /\ k <= n /\ n <= t
    BY <1>3, <1>4, ProxyAssumption
  <2>2. 1 <= a /\ a <= b /\ b <= t
    BY <1>8, <1>9, <2>1
  <2> QED
    BY <1>7, <2>2
<1>11. P!Latest(s, x) \in Int
  <2>1. got[s][x] \in Seq(1 .. MaxBytes)
    BY <1>1 DEF TypeOK
  <2>2. ASSUME NEW T, NEW g \in Seq(T), g # <<>>
        PROVE  g[Len(g)] \in T
    <3>1. Len(g) \in 1 .. Len(g)
      BY <2>2
    <3> QED
      BY <3>1, ElementOfSeq
  <2> QED
    BY <2>1, <2>2, ProxyAssumption DEF P!Latest
<1>12. P!Latest(s, x) < a /\ ("partial" \notin Faults => a = P!Latest(s, x) + 1)
  BY <1>2, <1>3, <1>8, <1>11, ProxyAssumption DEF UpTo
<1>13. [i \in 1 .. k |-> t - n + i] = [i \in 1 .. b - a + 1 |-> a + i - 1]
  <2>1. n \in Nat /\ k \in Nat
    BY <1>3, <1>4, ProxyAssumption
  <2> HIDE DEF n
  <2>2. b - a + 1 = k
    BY <1>8, <1>9, <2>1
  <2>3. \A i \in 1 .. k : t - n + i = a + i - 1
    BY <1>8, <2>1
  <2> QED
    BY <2>2, <2>3
<1>14. Stage[s] = "open" /\ Stage' = Stage
  BY <1>1, <1>5, <1>6 DEF Stage, Side
<1>15. got' = [got EXCEPT ![s][x] = @ \o [i \in 1 .. b - a + 1 |-> a + i - 1]]
  BY <1>4, <1>13
<1>16. P!Deliver(s, x, a, b)
  BY <1>6, <1>10, <1>12, <1>14, <1>15 DEF P!Deliver, Stage
<1> QED
  BY <1>1, <1>10, <1>16

\* Every step of the proxy is one of the pipes, or is not seen by them.
LEMMA Refines ==
  ASSUME IInv, [Next]_vars
  PROVE  [P!Next]_<<Stage, sent, got>>
<1>1. CASE HandleAccept
  <2>1. ready # <<>> /\ Handler.op.act = "accept"
    BY <1>1 DEF HandleAccept, Runs
  <2>2. PICK s \in Session : s = Handler.op.s
    BY <2>1, HandlerOnly
  <2>3. connected[s] = {} /\ TypeOK
    BY <2>1, <2>2, HandlerOnly, AcceptAlone DEF IInv
  <2>4. connected' = [connected EXCEPT ![s] = {"client"}]
    BY <1>1, <2>2 DEF HandleAccept
  <2>5. \A u \in Session : "server" \in connected'[u] <=> "server" \in connected[u]
    BY <2>3, <2>4 DEF TypeOK
  <2>6. over' = over /\ sent' = sent /\ got' = got
    BY <1>1 DEF HandleAccept, far, data
  <2> QED
    BY <2>5, <2>6, Unseen
<1>2. CASE HandleServerConnect
  BY <1>2, ServerConnectOpens DEF P!Next
<1>3. CASE HandleEnd
  <2>1. ready # <<>> /\ Terminate(Handler.op.s)
    BY <1>3 DEF HandleEnd, Runs
  <2>2. PICK s \in Session : s = Handler.op.s
    BY <2>1, HandlerOnly
  <2>3. (\E u \in Session : P!Cut(u)) \/ UNCHANGED <<Stage, sent, got>>
    BY <2>1, <2>2, TerminateCuts
  <2> QED
    BY <2>3 DEF P!Next
<1>4. CASE \E o \in waiting : Sent(o)
  BY <1>4, SentDelivers DEF P!Next
<1>5. CASE \E s \in Session, x \in Side : FarWrites(s, x)
  <2>1. PICK s \in Session, x \in Side : FarWrites(s, x)
    BY <1>5
  <2>2. over' = over /\ connected' = connected /\ got' = got
    BY <2>1 DEF FarWrites, proxy, data
  <2>3. Stage' = Stage
    BY <2>2 DEF Stage
  <2>4. P!Write(s, x)
    BY <2>1, <2>2, <2>3 DEF FarWrites, P!Write, Stage
  <2> QED
    BY <2>4 DEF P!Next
<1>6. CASE UNCHANGED <<over, connected, sent, got>>
  BY <1>6, Unseen
<1>7. HandleReceive \/ HandleSend \/ HandleAborted \/ HandleUnexpected
        => UNCHANGED <<over, connected, sent, got>>
  BY DEF HandleReceive, HandleSend, HandleAborted, HandleUnexpected, Throw, proxy, far, data
<1>8. ASSUME NEW o, Connected(o) \/ Received(o) \/ ReceiveEnds(o) \/ SendFails(o)
                    \/ Accepted(o) \/ AcceptFails(o) \/ ConnectFails(o)
      PROVE  UNCHANGED <<over, connected, sent, got>>
  BY <1>8 DEF Connected, Received, ReceiveEnds, SendFails, Accepted, AcceptFails, ConnectFails,
       proxy, far, data
<1>9. ASSUME NEW s, NEW x, FarEnds(s, x) \/ FarResets(s, x)
      PROVE  UNCHANGED <<over, connected, sent, got>>
  BY <1>9 DEF FarEnds, FarResets, proxy, data
<1>10. UNCHANGED vars => UNCHANGED <<over, connected, sent, got>>
  BY DEF vars, proxy, far, data
<1> QED
  BY <1>1, <1>2, <1>3, <1>4, <1>5, <1>6, <1>7, <1>8, <1>9, <1>10
     DEF Next, Handle, Serve, Arrive, Far

\* The proxy is two pipes per session: whatever the handlers' order, bytes come out
\* in the order in which they came in, none twice, none of another direction, none
\* before the server is connected or after the session is over, and, unless the
\* kernel takes only a part of a send, none is left out.
THEOREM Piped == Spec => Forwards
<1>1. Init => P!Init
  <2> SUFFICES ASSUME Init PROVE P!Init
    OBVIOUS
  <2>1. /\ over = {} /\ connected = [s \in Session |-> {}]
        /\ sent = [s \in Session |-> [x \in Side |-> 0]]
        /\ got = [s \in Session |-> [x \in Side |-> <<>>]]
    BY DEF Init
  <2> QED
    BY <2>1 DEF P!Init
<1>2. IInv /\ [Next]_vars => [P!Next]_<<Stage, sent, got>>
  BY Refines
<1> QED
  BY <1>1, <1>2, Invariance, PTL DEF Spec, Forwards, P!Spec, Stage
=============================================================================
