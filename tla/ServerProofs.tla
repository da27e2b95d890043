------------------------------ MODULE ServerProofs ------------------------------
(***************************************************************************)
(* Proofs about Server: nobody is left behind when serve returns, a          *)
(* connection that TLS hands to HTTP has been through a sound handshake, an  *)
(* upload is pushed as it was sent, a request is answered on the branch its  *)
(* target, method and configuration choose, and the writer and the reader of *)
(* a TlsStream lose and repeat nothing however the socket cuts the bytes.    *)
(***************************************************************************)
EXTENDS Server, TotalsProofs, WellFoundedInduction, SequenceTheorems, TLAPS

-------------------------------------------------------------------------------
(* serve and its tasks.                                                      *)

\* Every connection has a task.
Tasks == DOMAIN task = Conns

\* What a step may do to serve and its tasks: serve returns only when no task is
\* left to join, and only at the top of its loop does a task begin.
Serves ==
  /\ loop' = "returned" => loop = "returned" \/ (Unjoined = {} /\ task' = task)
  /\ \A d \in Conns : task'[d] \in {"running", "ended"} =>
       task[d] \in {"running", "ended"} \/ (loop = "select" /\ loop' = loop)
  /\ DOMAIN task' = Conns

LEMMA LoopServes ==
  ASSUME Tasks,
         AcceptTransient \/ BackoffOver \/ AcceptFatal \/ Signal \/ Shutdown \/ Drained \/ Deadline
           \/ Reload
  PROVE  Serves
  BY DEF Tasks, Serves, AcceptTransient, BackoffOver, AcceptFatal, Signal, Shutdown, Drained,
         Deadline, Reload, LoopTo, serving

LEMMA EndServes ==
  ASSUME Tasks, NEW c \in Conns, Running(c), TaskEnds(c)
  PROVE  Serves
  BY DEF Tasks, Serves, Running, TaskEnds

LEMMA QuietServes ==
  ASSUME Tasks, UNCHANGED <<loop, task>>
  PROVE  Serves
  BY DEF Tasks, Serves

LEMMA TaskServes ==
  ASSUME Tasks, NEW c \in Conns, Connect(c) \/ Accept(c) \/ Join(c)
  PROVE  Serves
  BY DEF Tasks, Serves, Connect, Accept, Join, LoopTo

\* The steps of a connection that are not about its task's beginning or its end
\* leave serve alone, or end the task.
LEMMA ConnServes ==
  ASSUME Tasks, NEW c \in Conns, ConnStep(c)
  PROVE  Serves
<1>1. CASE Connect(c) \/ Accept(c) \/ Join(c)
  BY <1>1, TaskServes
<1>2. CASE Cancelled(c) \/ HandshakeTimeout(c) \/ ConnectionOver(c) \/ HandshakeEof(c)
  <2>1. Running(c) /\ TaskEnds(c)
    BY <1>2 DEF Cancelled, HandshakeTimeout, ConnectionOver, HandshakeEof
  <2> QED
    BY <2>1, EndServes
<1>3. CASE HandlerReset(c) \/ ClientHandshake(c) \/ ClientRecord(c) \/ SocketDown(c)
             \/ \E k \in 0 .. Len(lane[c]) : ClientEof(c, k)
  <2>1. UNCHANGED <<loop, task>>
    BY <1>3 DEF HandlerReset, ClientHandshake, ClientRecord, SocketDown, ClientEof, Sends, serving
  <2> QED
    BY <2>1, QuietServes
<1>4. CASE ReadHello(c) \/ Prepare(c) \/ SendFlight(c) \/ ReadFinished(c)
  <2>1. Running(c)
    BY <1>4 DEF ReadHello, Prepare, SendFlight, ReadFinished, Takes
  <2>2. TaskEnds(c) \/ UNCHANGED <<loop, task>>
    BY <1>4 DEF ReadHello, Prepare, SendFlight, ReadFinished, GoesOn, serving
  <2> QED
    BY <2>1, <2>2, EndServes, QuietServes
<1>5. CASE \/ \E n \in 1 .. 2 : PollReadPlain(c, n)
           \/ PollReadHeader(c) \/ PollReadRecord(c) \/ PollReadEof(c)
           \/ \E k \in 1 .. Len(lane[c]) : PollReadFill(c, k)
  <2>1. UNCHANGED <<loop, task>>
    BY <1>5 DEF PollReadPlain, PollReadHeader, PollReadRecord, PollReadEof, PollReadFill,
                ReadKeeps, serving
  <2> QED
    BY <2>1, QuietServes
<1>6. CASE \/ \E n \in 1 .. MaxApp + 1 : PollWrite(c, n)
           \/ PollStuck(c) \/ PollFlush(c) \/ PollShutdown(c)
  <2>1. UNCHANGED <<loop, task>>
    BY <1>6 DEF PollWrite, PollStuck, PollFlush, PollShutdown, WriteKeeps, serving
  <2> QED
    BY <2>1, QuietServes
<1>7. CASE \/ Handle(c) \/ BodyEnd(c) \/ BodyError(c) \/ DownloadOver(c)
           \/ \E n \in 0 .. MaxPost + 1 : BodyFrame(c, n)
           \/ \E result \in DOMAIN PushStatus : Push(c, result)
  <2>1. HandlerKeeps
    BY <1>7 DEF Handle, BodyEnd, BodyError, DownloadOver, BodyFrame, Push, HandlerStep
  <2>2. UNCHANGED <<loop, task>>
    BY <2>1 DEF HandlerKeeps, serving
  <2> QED
    BY <2>2, QuietServes
<1> QED
  BY <1>1, <1>2, <1>3, <1>4, <1>5, <1>6, <1>7 DEF ConnStep

LEMMA NextServes ==
  ASSUME Tasks, Next
  PROVE  Serves
  BY LoopServes, ConnServes DEF Next

\* When serve has returned, for any number of connections, no task of theirs runs
\* or waits to be joined, however shutdown, deadline and their own ends interleave.
THEOREM ServerNoneLeft == Spec => []NoneLeft
<1>1. Init => Tasks /\ NoneLeft
  BY DEF Init, Tasks, NoneLeft
<1>2. Tasks /\ NoneLeft /\ [Next]_vars => Tasks' /\ NoneLeft'
  <2> SUFFICES ASSUME Tasks, NoneLeft, [Next]_vars PROVE Tasks' /\ NoneLeft'
    OBVIOUS
  <2>1. CASE Next
    <3>1. Serves
      BY <2>1, NextServes
    <3> QED
      BY <3>1 DEF Serves, Tasks, NoneLeft, Unjoined
  <2>2. CASE UNCHANGED vars
    BY <2>2 DEF vars, Tasks, NoneLeft, Unjoined
  <2> QED
    BY <2>1, <2>2
<1> QED
  BY <1>1, <1>2, PTL DEF Spec


-------------------------------------------------------------------------------
(* Sequences, whatever their elements are.                                   *)

IsSeq(s) == s \in Seq({s[i] : i \in 1 .. Len(s)})

LEMMA SeqAny ==
  ASSUME NEW S, NEW s \in Seq(S)
  PROVE  IsSeq(s) /\ Len(s) \in Nat
  BY DEF IsSeq

LEMMA SeqAppend ==
  ASSUME NEW s, IsSeq(s), NEW e
  PROVE  /\ IsSeq(Append(s, e)) /\ Len(s) \in Nat /\ Len(Append(s, e)) = Len(s) + 1
         /\ \A i \in 1 .. Len(s) : Append(s, e)[i] = s[i]
         /\ Append(s, e)[Len(s) + 1] = e
<1> DEFINE S == {s[i] : i \in 1 .. Len(s)}  T == S \cup {e}
<1>1. s \in Seq(T) /\ e \in T
  BY DEF IsSeq
<1>2. Append(s, e) \in Seq(T)
  BY <1>1
<1> HIDE DEF T
<1>3. IsSeq(Append(s, e))
  BY <1>2, SeqAny
<1>4. Len(s) \in Nat /\ Len(Append(s, e)) = Len(s) + 1
  BY <1>1
<1>5. \A i \in 1 .. Len(s) : Append(s, e)[i] = s[i]
  BY <1>1, <1>4
<1>6. Append(s, e)[Len(s) + 1] = e
  BY <1>1, <1>4
<1> QED
  BY <1>3, <1>4, <1>5, <1>6

LEMMA SeqConcat ==
  ASSUME NEW s, IsSeq(s), NEW t, IsSeq(t)
  PROVE  /\ IsSeq(s \o t) /\ Len(s \o t) = Len(s) + Len(t)
         /\ \A i \in 1 .. Len(s \o t) :
              \/ i \in 1 .. Len(s) /\ (s \o t)[i] = s[i]
              \/ i - Len(s) \in 1 .. Len(t) /\ (s \o t)[i] = t[i - Len(s)]
<1> DEFINE T == {s[i] : i \in 1 .. Len(s)} \cup {t[i] : i \in 1 .. Len(t)}
<1>1. s \in Seq(T) /\ t \in Seq(T)
  BY DEF IsSeq
<1> HIDE DEF T
<1>2. s \o t \in Seq(T) /\ Len(s) \in Nat /\ Len(t) \in Nat
  BY <1>1
<1>3. IsSeq(s \o t)
  BY <1>2, SeqAny
<1>4. Len(s \o t) = Len(s) + Len(t)
  BY <1>1
<1>5. ASSUME NEW i \in 1 .. Len(s \o t)
      PROVE  \/ i \in 1 .. Len(s) /\ (s \o t)[i] = s[i]
             \/ i - Len(s) \in 1 .. Len(t) /\ (s \o t)[i] = t[i - Len(s)]
  BY <1>1, <1>2, <1>4
<1> QED
  BY <1>3, <1>4, <1>5

LEMMA SeqSub ==
  ASSUME NEW s, IsSeq(s), NEW m \in Nat \ {0}, NEW n \in Nat, n <= Len(s)
  PROVE  /\ IsSeq(SubSeq(s, m, n))
         /\ Len(SubSeq(s, m, n)) = IF m <= n THEN n - m + 1 ELSE 0
         /\ \A i \in 1 .. Len(SubSeq(s, m, n)) :
              m + i - 1 \in 1 .. Len(s) /\ SubSeq(s, m, n)[i] = s[m + i - 1]
<1> DEFINE T == {s[i] : i \in 1 .. Len(s)}
<1>1. s \in Seq(T)
  BY DEF IsSeq
<1> HIDE DEF T
<1>2. SubSeq(s, m, n) \in Seq(T) /\ Len(s) \in Nat
  BY <1>1
<1>3. Len(SubSeq(s, m, n)) = IF m <= n THEN n - m + 1 ELSE 0
  BY <1>1, <1>2
<1>4. \A i \in 1 .. Len(SubSeq(s, m, n)) :
        m + i - 1 \in 1 .. Len(s) /\ SubSeq(s, m, n)[i] = s[m + i - 1]
  BY <1>1, <1>2, <1>3
<1> QED
  BY <1>2, <1>3, <1>4, SeqAny

\* An empty sequence is one of length 0.
LEMMA SeqEmpty ==
  ASSUME NEW s, IsSeq(s)
  PROVE  Len(s) \in Nat /\ (Len(s) = 0 <=> s = <<>>)
<1> DEFINE T == {s[i] : i \in 1 .. Len(s)}
<1>1. s \in Seq(T)
  BY DEF IsSeq
<1> HIDE DEF T
<1> QED
  BY <1>1

-------------------------------------------------------------------------------
(* What the operators of a handshake give.                                   *)

LEMMA Least ==
  ASSUME NEW T \in SUBSET Nat, T # {}
  PROVE  Min(T) \in T
<1>1. PICK i \in T : \A j \in T : ~(<<j, i>> \in OpToRel(<, Nat))
  BY NatLessThanWellFounded, WFMin
<1>2. ASSUME NEW j \in T PROVE i <= j
  <2>1. ~(<<j, i>> \in OpToRel(<, Nat))
    BY <1>1
  <2> QED
    BY <2>1 DEF OpToRel
<1>3. \E k \in T : \A j \in T : k <= j
  BY <1>2
<1> QED
  BY <1>3 DEF Min

\* The first of order that is in list is in both.
LEMMA FirstInBoth ==
  ASSUME NEW order, NEW list, NEW default, FirstIn(order, list, default) # default
  PROVE  /\ Contains(order, FirstIn(order, list, default))
         /\ Contains(list, FirstIn(order, list, default))
<1> DEFINE both == {i \in 1 .. Len(order) : Contains(list, order[i])}
<1>1. FirstIn(order, list, default) = IF both = {} THEN default ELSE order[Min(both)]
  BY DEF FirstIn
<1>2. both # {} /\ both \in SUBSET Nat
  BY <1>1
<1>3. Min(both) \in both
  BY <1>2, Least
<1>4. FirstIn(order, list, default) = order[Min(both)]
  BY <1>1, <1>2
<1> HIDE DEF both
<1>5. Min(both) \in 1 .. Len(order) /\ Contains(list, order[Min(both)])
  BY <1>3 DEF both
<1> QED
  BY <1>4, <1>5 DEF Contains

PlainHandshake(r) == r.key = "plain" /\ r.type = "handshake"

\* The bytes of the ClientHello grow with a record that is a piece of it.
LEMMA HelloBytesAppend ==
  ASSUME NEW s, IsSeq(s), \A i \in 1 .. Len(s) : s[i].len \in Nat, NEW r, r.len \in Nat
  PROVE  /\ HelloBytes(s) \in Nat
         /\ HelloBytes(Append(s, r)) = HelloBytes(s) + (IF PlainHandshake(r) THEN r.len ELSE 0)
<1> DEFINE n == Len(s)
           t == Append(s, r)
           f == [i \in 1 .. Len(s) |-> s[i].len]
           g == [i \in 1 .. Len(t) |-> t[i].len]
           A == {i \in 1 .. Len(s) : s[i].key = "plain" /\ s[i].type = "handshake"}
           B == {i \in 1 .. Len(t) : t[i].key = "plain" /\ t[i].type = "handshake"}
<1>1. n \in Nat /\ Len(t) = n + 1 /\ (\A i \in 1 .. n : t[i] = s[i]) /\ t[n + 1] = r
  BY SeqAppend
<1>2. IsFiniteSet(1 .. n) /\ IsFiniteSet(A)
  <2>1. 1 \in Int /\ n \in Int /\ A \subseteq 1 .. n
    BY <1>1
  <2> HIDE DEF A, n
  <2> QED
    BY <2>1, FS_Interval, FS_Subset
<1>3. HelloBytes(s) = Total(f, A) /\ HelloBytes(t) = Total(g, B)
  BY DEF HelloBytes
<1>4. \A i \in A : f[i] \in Nat /\ g[i] = f[i]
  BY <1>1
<1>5. Total(f, A) \in Nat /\ Total(g, A) = Total(f, A)
  <2>1. \A i \in A : f[i] \in Int
    BY <1>4
  <2> HIDE DEF A, f, g
  <2> QED
    BY <1>2, <1>4, <2>1, TotalType, TotalSame
<1>6. CASE PlainHandshake(r)
  <2>1. B = A \cup {n + 1} /\ n + 1 \notin A /\ g[n + 1] = r.len
    BY <1>1, <1>6 DEF PlainHandshake
  <2>2. \A i \in A : g[i] \in Int
    BY <1>4
  <2> HIDE DEF A, B, f, g, n, t
  <2>3. Total(g, A \cup {n + 1}) = Total(g, A) + g[n + 1]
    BY <2>1, <2>2, <1>2, TotalAdd, ZenonT(60)
  <2> QED
    BY <2>1, <2>3, <1>3, <1>5, <1>6 DEF t
<1>7. CASE ~PlainHandshake(r)
  <2>1. B = A
    BY <1>1, <1>7 DEF PlainHandshake
  <2> HIDE DEF A, B, f, g, n
  <2> QED
    BY <2>1, <1>3, <1>5, <1>7
<1> QED
  BY <1>6, <1>7

LEMMA HelloBytesNone == HelloBytes(<<>>) = 0
<1>1. \A i \in 1 .. Len(<<>>) : FALSE
  OBVIOUS
<1> QED
  BY <1>1, TotalZero DEF HelloBytes


-------------------------------------------------------------------------------
(* The invariant of a handshake, one connection at a time.                   *)

Algs == {"rsa", "p256", "p384", "ed25519"}
Past == {"loaded", "flight", "finished", "stream"}

\* The state of every connection is there, and is what its fields say.
Typed(c) ==
  /\ IsSeq(lane[c]) /\ IsSeq(peer[c].sent) /\ DOMAIN peer[c] = {"sent", "eof"}
  /\ \A i \in 1 .. Len(peer[c].sent) : peer[c].sent[i].len \in Nat

Counted(c) ==
  IsSeq(taken[c]) /\ \A i \in 1 .. Len(taken[c]) : taken[c][i].len \in Nat

Shaped ==
  /\ scen \in DOMAIN Scenarios /\ identity.alg \in Algs
  /\ DOMAIN task = Conns /\ DOMAIN stage = Conns /\ DOMAIN hs = Conns
  /\ DOMAIN lane = Conns /\ DOMAIN peer = Conns /\ DOMAIN taken = Conns

\* A client sends nothing before its connection was accepted.
Fresh(c) ==
  task[c] \in {"none", "queued"} =>
    peer[c].sent = <<>> /\ ~peer[c].eof /\ lane[c] = <<>> /\ taken[c] = <<>>

\* What is on its way was sent by the client.
Traced(c) ==
  \A i \in 1 .. Len(lane[c]) :
    \E j \in 1 .. Len(peer[c].sent) : lane[c][i].rec = peer[c].sent[j]

\* While the ClientHello is gathered, every piece that was read is counted, and the
\* client has no keys to seal a handshake message with.
Gathering(c) ==
  stage[c] = "hello" =>
    /\ DOMAIN hs[c] = {"hello", "had"} /\ hs[c].had \in Nat /\ hs[c].hello.len \in Nat
    /\ HelloBytes(taken[c]) = hs[c].had
    /\ \A j \in 1 .. Len(peer[c].sent) :
         peer[c].sent[j].type = "handshake" => peer[c].sent[j].key = "plain"

\* After it, all of it has been read, and no more, ...
Whole(c) ==
  stage[c] \in Past =>
    /\ hs[c].hello.msg = "client_hello"
    /\ HelloBytes(taken[c]) = MsgHeader + hs[c].hello.len
    /\ HelloBytes(taken[c]) <= MaxHello

\* ... there is a cipher, and an identity to sign with, ...
Chosen(c) ==
  stage[c] = "loaded" => hs[c].loaded.alg \in Algs /\ ChooseCipher(hs[c].hello) # "none"

\* ... then the flight, ...
Verifiable(h, f) ==
  LET fits == [rsa |-> {"pss256", "pss384", "pss512"}, p256 |-> {"ecdsa256"},
               p384 |-> {"ecdsa384"}, ed25519 |-> {"ed25519"}]
  IN /\ Contains(h.suites, f.suite)
     /\ f.alpn = "none" \/ (Contains(OfferedAlpn(h), f.alpn) /\ Contains(AlpnOrder, f.alpn))
     /\ Contains(Signatures(h), f.scheme)
     /\ f.signer.gen = f.cert /\ f.scheme \in fits[f.signer.alg]

Flown(c) ==
  stage[c] \in {"flight", "finished", "stream"} => Verifiable(hs[c].hello, hs[c].flight)

\* ... and the client's Finished.
Proved(c) ==
  Plan.tls /\ stage[c] \in {"stream", "http"} =>
    /\ stage[c] = "stream"
    /\ Len(taken[c]) > 0 /\ taken[c][Len(taken[c])].key = "hs"
    /\ taken[c][Len(taken[c])].msg = "good"

Shakes(c) ==
  /\ Typed(c) /\ Counted(c) /\ Fresh(c) /\ Traced(c)
  /\ Gathering(c) /\ Whole(c) /\ Chosen(c) /\ Flown(c) /\ Proved(c)

Shaking == Shaped /\ \A c \in Conns : Shakes(c)


\* Nothing of connection d changes, but that it may be over.
Leaves(d) ==
  /\ hs'[d] = hs[d] /\ lane'[d] = lane[d] /\ peer'[d] = peer[d] /\ taken'[d] = taken[d]
  /\ stage'[d] \in {stage[d], "closed"}
  /\ task'[d] \in {"none", "queued"} => task[d] \in {"none", "queued"}

\* The shape of the state is kept.
Shape ==
  /\ scen' = scen /\ identity'.alg \in Algs
  /\ DOMAIN task' = Conns /\ DOMAIN stage' = Conns /\ DOMAIN hs' = Conns
  /\ DOMAIN lane' = Conns /\ DOMAIN peer' = Conns /\ DOMAIN taken' = Conns

\* A step touches connection c only.
Touches(c) == Shape /\ \A d \in Conns \ {c} : Leaves(d)

LEMMA Left ==
  ASSUME NEW d \in Conns, Shakes(d), scen' = scen, Leaves(d)
  PROVE  Shakes(d)'
<1>1. Typed(d)' /\ Fresh(d)' /\ Traced(d)'
  BY SMTT(30) DEF Shakes, Leaves, Typed, Fresh, Traced
<1>2. Gathering(d)' /\ Counted(d)'
  BY DEF Shakes, Leaves, Gathering, Counted
<1>3. Whole(d)' /\ Chosen(d)' /\ Flown(d)'
  BY DEF Shakes, Leaves, Whole, Chosen, Flown, Past
<1>4. Proved(d)'
  BY DEF Shakes, Leaves, Proved, Plan
<1> QED
  BY <1>1, <1>2, <1>3, <1>4 DEF Shakes

LEMMA OneTouched ==
  ASSUME Shaking, NEW c \in Conns, Touches(c), Shakes(c)'
  PROVE  Shaking'
<1>1. Shaped'
  BY DEF Shaking, Touches, Shape, Shaped
<1>2. ASSUME NEW d \in Conns \ {c} PROVE Shakes(d)'
  BY <1>2, Left DEF Shaking, Touches, Shape
<1> QED
  BY <1>1, <1>2 DEF Shaking

LEMMA NoneTouched ==
  ASSUME Shaking, Shape, \A d \in Conns : Leaves(d)
  PROVE  Shaking'
<1>1. Shaped'
  BY DEF Shaking, Shape, Shaped
<1>2. ASSUME NEW d \in Conns PROVE Shakes(d)'
  BY <1>2, Left DEF Shaking, Shape
<1> QED
  BY <1>1, <1>2 DEF Shaking

\* What the constants give about the scenario that is played.
Plans(p) ==
  /\ p.tls \in BOOLEAN /\ p.alg \in Algs /\ p.nextAlg \in Algs
  /\ \A h \in p.hellos : h.len \in Nat
  /\ \A r \in p.pieces \cup p.replies \cup p.traffic :
       DOMAIN r = {"key", "seq", "type", "body", "len", "msg", "app"} /\ r.len \in Nat
  /\ \A r \in p.pieces : r.type = "handshake" => r.key = "plain"

LEMMA PlanOk ==
  ASSUME Shaped
  PROVE  Plans(Plan)
<1> DEFINE p == Scenarios[scen]
<1>1. scen \in DOMAIN Scenarios
  BY DEF Shaped
<1>2. /\ p.tls \in BOOLEAN
      /\ {p.alg, p.nextAlg} \subseteq {"rsa", "p256", "p384", "ed25519"}
      /\ \A h \in p.hellos : h.len \in Nat
      /\ \A r \in p.pieces \cup p.replies \cup p.traffic :
           /\ DOMAIN r = {"key", "seq", "type", "body", "len", "msg", "app"}
           /\ r.len \in Nat
      /\ \A r \in p.pieces : r.type = "handshake" => r.key = "plain"
  BY <1>1, OriginAssumption
<1> HIDE DEF p
<1>3. Plans(p)
  BY <1>2 DEF Plans, Algs
<1> QED
  BY <1>3 DEF p, Plan

-------------------------------------------------------------------------------
(* The steps that leave every handshake alone, or end it.                    *)

LEMMA LoopLeaves ==
  ASSUME Shaped,
         AcceptTransient \/ BackoffOver \/ AcceptFatal \/ Signal \/ Shutdown \/ Drained \/ Deadline
  PROVE  Shape /\ \A d \in Conns : Leaves(d)
  BY DEF Shaped, Shape, Leaves, AcceptTransient, BackoffOver, AcceptFatal, Signal, Shutdown,
         Drained, Deadline, LoopTo, handshaking, reading

LEMMA ReloadLeaves ==
  ASSUME Shaped, Reload
  PROVE  Shape /\ \A d \in Conns : Leaves(d)
<1>1. Plan.nextAlg \in Algs
  BY PlanOk DEF Plans
<1> QED
  BY <1>1 DEF Shaped, Shape, Leaves, Reload, serving, reading

LEMMA EndLeaves ==
  ASSUME Shaped, NEW c \in Conns, Running(c), TaskEnds(c), UNCHANGED <<identity, hs, lane, peer, taken>>
  PROVE  Shape /\ \A d \in Conns : Leaves(d)
  BY DEF Shaped, Shape, Leaves, TaskEnds, Running

LEMMA QuietLeaves ==
  ASSUME Shaped, UNCHANGED <<scen, task, stage, identity, hs, lane, peer, taken>>
  PROVE  Shape /\ \A d \in Conns : Leaves(d)
  BY DEF Shaped, Shape, Leaves

LEMMA TaskLeaves ==
  ASSUME Shaped, NEW c \in Conns, Connect(c) \/ Join(c)
  PROVE  Shape /\ \A d \in Conns : Leaves(d)
  BY DEF Shaped, Shape, Leaves, Connect, Join, LoopTo, handshaking, reading

LEMMA ConnLeaves ==
  ASSUME Shaped, NEW c \in Conns, ConnStep(c)
  PROVE  \/ Shape /\ \A d \in Conns : Leaves(d)
         \/ Accept(c) \/ ClientHandshake(c) \/ ClientRecord(c)
         \/ \E k \in 0 .. Len(lane[c]) : ClientEof(c, k)
         \/ ReadHello(c) \/ Prepare(c) \/ SendFlight(c) \/ ReadFinished(c)
         \/ \E k \in 1 .. Len(lane[c]) : PollReadFill(c, k)
<1>1. CASE Connect(c) \/ Join(c)
  BY <1>1, TaskLeaves
<1>2. CASE Cancelled(c) \/ HandshakeTimeout(c) \/ ConnectionOver(c) \/ HandshakeEof(c)
  <2>1. Running(c) /\ TaskEnds(c)
    BY <1>2 DEF Cancelled, HandshakeTimeout, ConnectionOver, HandshakeEof
  <2>2. UNCHANGED <<identity, hs, lane, peer, taken>>
    BY <1>2 DEF Cancelled, HandshakeTimeout, ConnectionOver, HandshakeEof, handshaking, reading
  <2> QED
    BY <2>1, <2>2, EndLeaves
<1>3. CASE HandlerReset(c) \/ SocketDown(c)
  <2>1. UNCHANGED <<scen, task, stage, identity, hs, lane, peer, taken>>
    BY <1>3 DEF HandlerReset, SocketDown, serving, handshaking, reading
  <2> QED
    BY <2>1, QuietLeaves
<1>5. CASE \/ \E n \in 1 .. 2 : PollReadPlain(c, n)
           \/ PollReadHeader(c) \/ PollReadRecord(c) \/ PollReadEof(c)
  <2>1. UNCHANGED <<scen, task, stage, identity, hs, lane, peer, taken>>
    BY <1>5 DEF PollReadPlain, PollReadHeader, PollReadRecord, PollReadEof, ReadKeeps, serving,
                handshaking
  <2> QED
    BY <2>1, QuietLeaves
<1>6. CASE \/ \E n \in 1 .. MaxApp + 1 : PollWrite(c, n)
           \/ PollStuck(c) \/ PollFlush(c) \/ PollShutdown(c)
  <2>1. UNCHANGED <<scen, task, stage, identity, hs, lane, peer, taken>>
    BY <1>6 DEF PollWrite, PollStuck, PollFlush, PollShutdown, WriteKeeps, serving, handshaking,
                reading
  <2> QED
    BY <2>1, QuietLeaves
<1>7. CASE \/ Handle(c) \/ BodyEnd(c) \/ BodyError(c) \/ DownloadOver(c)
           \/ \E n \in 0 .. MaxPost + 1 : BodyFrame(c, n)
           \/ \E result \in DOMAIN PushStatus : Push(c, result)
  <2>1. HandlerKeeps
    BY <1>7 DEF Handle, BodyEnd, BodyError, DownloadOver, BodyFrame, Push, HandlerStep
  <2>2. UNCHANGED <<scen, task, stage, identity, hs, lane, peer, taken>>
    BY <2>1 DEF HandlerKeeps, serving, handshaking, reading
  <2> QED
    BY <2>2, QuietLeaves
<1> QED
  BY <1>1, <1>2, <1>3, <1>5, <1>6, <1>7 DEF ConnStep


-------------------------------------------------------------------------------
(* The steps of a handshake.                                                 *)

LEMMA AcceptShakes ==
  ASSUME Shaking, NEW c \in Conns, Accept(c)
  PROVE  Shaking'
<1>1. Plans(Plan) /\ Shaped /\ Shakes(c)
  BY PlanOk DEF Shaking
<1>2. Touches(c)
  BY <1>1 DEF Touches, Shape, Leaves, Shaped, Accept, reading
<1>3. /\ peer'[c] = peer[c] /\ lane'[c] = lane[c] /\ taken'[c] = taken[c]
      /\ task'[c] = "running" /\ Plan' = Plan
  BY <1>1 DEF Accept, Shaped, reading, Plan
<1>4. peer[c].sent = <<>> /\ lane[c] = <<>> /\ taken[c] = <<>>
  BY <1>1 DEF Accept, Shakes, Fresh
<1>5. stage'[c] = IF Plan.tls THEN "hello" ELSE "http"
  BY <1>1 DEF Accept, Shaped
<1>6. CASE Plan.tls
  <2>1. PICK h \in Plan.hellos : hs' = [hs EXCEPT ![c] = [hello |-> h, had |-> 0]]
    BY <1>6 DEF Accept
  <2>2. hs'[c] = [hello |-> h, had |-> 0] /\ h.len \in Nat
    BY <1>1, <2>1 DEF Plans, Shaped
  <2>3. Gathering(c)'
    BY <1>3, <1>4, <2>2, HelloBytesNone DEF Gathering
  <2>4. Typed(c)' /\ Counted(c)' /\ Fresh(c)' /\ Traced(c)'
    BY <1>1, <1>3, <1>4 DEF Shakes, Typed, Counted, Fresh, Traced
  <2>5. Whole(c)' /\ Chosen(c)' /\ Flown(c)' /\ Proved(c)'
    BY <1>5, <1>6 DEF Whole, Chosen, Flown, Proved, Past
  <2> QED
    BY <1>2, <2>3, <2>4, <2>5, OneTouched DEF Shakes
<1>7. CASE ~Plan.tls
  <2>1. Gathering(c)' /\ Whole(c)' /\ Chosen(c)' /\ Flown(c)' /\ Proved(c)'
    BY <1>3, <1>5, <1>7 DEF Gathering, Whole, Chosen, Flown, Proved, Past
  <2>2. Typed(c)' /\ Counted(c)' /\ Fresh(c)' /\ Traced(c)'
    BY <1>1, <1>3, <1>4 DEF Shakes, Typed, Counted, Fresh, Traced
  <2> QED
    BY <1>2, <2>1, <2>2, OneTouched DEF Shakes
<1> QED
  BY <1>6, <1>7

\* What a record of the client leaves on its way.
LEMMA SendsView ==
  ASSUME Shaped, NEW c \in Conns, NEW rec, Sends(c, rec)
  PROVE  /\ Touches(c)
         /\ lane'[c] = lane[c] \o UnitsOf(rec)
         /\ DOMAIN peer[c] = {"sent", "eof"} =>
              /\ DOMAIN peer'[c] = {"sent", "eof"}
              /\ peer'[c].sent = Append(peer[c].sent, rec) /\ peer'[c].eof = peer[c].eof
         /\ hs'[c] = hs[c] /\ stage'[c] = stage[c] /\ task'[c] = task[c]
         /\ taken'[c] = taken[c] /\ Plan' = Plan
<1>1. Touches(c)
  BY DEF Touches, Shape, Leaves, Shaped, Sends, serving, handshaking
<1>2. lane'[c] = lane[c] \o UnitsOf(rec)
  BY DEF Shaped, Sends
<1>3. peer' = [peer EXCEPT ![c].sent = Append(@, rec)]
  BY DEF Sends
<1>4. /\ hs'[c] = hs[c] /\ stage'[c] = stage[c] /\ task'[c] = task[c]
      /\ taken'[c] = taken[c] /\ Plan' = Plan
  BY DEF Sends, serving, handshaking, Plan
<1>5. c \in DOMAIN peer
  BY DEF Shaped
<1> QED
  BY <1>1, <1>2, <1>3, <1>4, <1>5

LEMMA UnitsSeq ==
  ASSUME NEW rec, rec.len \in Nat
  PROVE  /\ IsSeq(UnitsOf(rec)) /\ Len(UnitsOf(rec)) = HeaderLen + rec.len
         /\ Len(UnitsOf(rec)) \in Nat \ {0}
         /\ \A i \in 1 .. Len(UnitsOf(rec)) : UnitsOf(rec)[i].rec = rec
<1>1. HeaderLen \in Nat \ {0} /\ HeaderLen + rec.len \in Nat \ {0}
  BY OriginAssumption
<1> DEFINE n == HeaderLen + rec.len
           S == {[rec |-> rec, at |-> i] : i \in 1 .. n}
<1>2. UnitsOf(rec) = [i \in 1 .. n |-> [rec |-> rec, at |-> i]]
  BY DEF UnitsOf
<1>3. n \in Nat /\ UnitsOf(rec) \in Seq(S) /\ Len(UnitsOf(rec)) = n
  <2>1. n \in Nat
    BY <1>1
  <2>2. UnitsOf(rec) \in [1 .. n -> S]
    BY <1>2
  <2> HIDE DEF n, S
  <2> QED
    BY <2>1, <2>2
<1>4. IsSeq(UnitsOf(rec))
  BY <1>3, SeqAny
<1>5. \A i \in 1 .. n : UnitsOf(rec)[i].rec = rec
  BY <1>2
<1> QED
  BY <1>1, <1>3, <1>4, <1>5

\* A record of the client keeps the state well formed, and what is on its way its own.
LEMMA SendsTraced ==
  ASSUME Shaped, NEW c \in Conns, Typed(c), Traced(c), NEW rec, rec.len \in Nat, Sends(c, rec)
  PROVE  Typed(c)' /\ Traced(c)'
<1> DEFINE sent == peer[c].sent
           lan == lane[c]
           uni == UnitsOf(rec)
<1>1. /\ lane'[c] = lan \o uni /\ peer'[c].sent = Append(sent, rec)
      /\ DOMAIN peer'[c] = {"sent", "eof"}
  BY SendsView DEF Typed
<1>2. IsSeq(lan) /\ IsSeq(sent) /\ (\A i \in 1 .. Len(sent) : sent[i].len \in Nat)
  BY DEF Typed
<1>3. IsSeq(uni) /\ Len(uni) \in Nat /\ \A i \in 1 .. Len(uni) : uni[i].rec = rec
  BY UnitsSeq
<1>4. \A i \in 1 .. Len(lan) : \E j \in 1 .. Len(sent) : lan[i].rec = sent[j]
  BY DEF Traced
<1> HIDE DEF sent, lan, uni
<1>5. /\ IsSeq(Append(sent, rec)) /\ Len(sent) \in Nat /\ Len(Append(sent, rec)) = Len(sent) + 1
      /\ \A i \in 1 .. Len(sent) : Append(sent, rec)[i] = sent[i]
      /\ Append(sent, rec)[Len(sent) + 1] = rec
  BY <1>2, SeqAppend
<1>6. /\ IsSeq(lan \o uni)
      /\ \A i \in 1 .. Len(lan \o uni) :
              \/ i \in 1 .. Len(lan) /\ (lan \o uni)[i] = lan[i]
              \/ i - Len(lan) \in 1 .. Len(uni) /\ (lan \o uni)[i] = uni[i - Len(lan)]
  BY <1>2, <1>3, SeqConcat
<1> DEFINE new == Append(sent, rec)
           way == lan \o uni
<1>7. Len(new) = Len(sent) + 1 /\ \A i \in 1 .. Len(new) : new[i].len \in Nat
  BY <1>2, <1>5
<1>8. ASSUME NEW i \in 1 .. Len(way)
      PROVE  \E j \in 1 .. Len(new) : way[i].rec = new[j]
  <2>1. CASE i \in 1 .. Len(lan) /\ way[i] = lan[i]
    <3>1. PICK j \in 1 .. Len(sent) : lan[i].rec = sent[j]
      BY <2>1, <1>4
    <3>2. j \in 1 .. Len(new) /\ new[j] = sent[j]
      BY <1>5
    <3> QED
      BY <2>1, <3>1, <3>2
  <2>2. CASE i - Len(lan) \in 1 .. Len(uni) /\ way[i] = uni[i - Len(lan)]
    <3>1. way[i].rec = rec
      BY <2>2, <1>3
    <3>2. Len(new) \in 1 .. Len(new) /\ new[Len(new)] = rec
      BY <1>5
    <3> QED
      BY <3>1, <3>2
  <2> QED
    BY <1>8, <1>6, <2>1, <2>2
<1>9. Typed(c)'
  BY <1>1, <1>5, <1>6, <1>7 DEF Typed
<1>10. Traced(c)'
  BY <1>1, <1>8 DEF Traced
<1> QED
  BY <1>9, <1>10


\* A record that is sent after the ClientHello was read.
LEMMA LaterSends ==
  ASSUME Shaking, NEW c \in Conns, Running(c), stage[c] # "hello",
         NEW rec, rec.len \in Nat, Sends(c, rec)
  PROVE  Shaking'
<1>1. Shaped /\ Typed(c) /\ Counted(c) /\ Traced(c) /\ Whole(c) /\ Chosen(c) /\ Flown(c) /\ Proved(c)
  BY DEF Shaking, Shakes
<1>2. /\ Touches(c) /\ hs'[c] = hs[c] /\ stage'[c] = stage[c] /\ task'[c] = task[c]
      /\ taken'[c] = taken[c] /\ Plan' = Plan
  BY <1>1, SendsView DEF Typed
<1>3. Typed(c)' /\ Traced(c)'
  BY <1>1, SendsTraced
<1>4. Counted(c)' /\ Whole(c)' /\ Proved(c)'
  BY <1>1, <1>2 DEF Counted, Whole, Proved
<1>5. Fresh(c)' /\ Gathering(c)' /\ Chosen(c)' /\ Flown(c)'
  BY <1>1, <1>2 DEF Fresh, Gathering, Chosen, Flown, Running
<1> QED
  BY <1>2, <1>3, <1>4, <1>5, OneTouched DEF Shakes

\* A piece of the ClientHello, or what looks like one.
LEMMA PieceSent ==
  ASSUME Shaking, NEW c \in Conns, Running(c), stage[c] = "hello",
         NEW rec, rec.len \in Nat, rec.type = "handshake" => rec.key = "plain", Sends(c, rec)
  PROVE  Shaking'
<1> DEFINE sent == peer[c].sent
           new == Append(sent, rec)
<1>1. Shaped /\ Typed(c) /\ Counted(c) /\ Traced(c) /\ Gathering(c)
  BY DEF Shaking, Shakes
<1>2. /\ Touches(c) /\ peer'[c].sent = new /\ taken'[c] = taken[c]
      /\ hs'[c] = hs[c] /\ stage'[c] = stage[c] /\ task'[c] = task[c] /\ Plan' = Plan
  BY <1>1, SendsView DEF Typed
<1>3. Typed(c)' /\ Traced(c)'
  BY <1>1, SendsTraced
<1>4. /\ Len(sent) \in Nat /\ Len(new) = Len(sent) + 1 /\ new[Len(sent) + 1] = rec
      /\ \A i \in 1 .. Len(sent) : new[i] = sent[i]
  BY <1>1, SeqAppend DEF Typed
<1>5. ASSUME NEW j \in 1 .. Len(new), new[j].type = "handshake" PROVE new[j].key = "plain"
  <2>1. \A i \in 1 .. Len(sent) : sent[i].type = "handshake" => sent[i].key = "plain"
    BY <1>1 DEF Gathering
  <2> HIDE DEF sent, new
  <2>2. CASE j \in 1 .. Len(sent)
    BY <1>4, <1>5, <2>1, <2>2
  <2>3. CASE j = Len(sent) + 1
    BY <1>4, <1>5, <2>3
  <2> QED
    BY <1>4, <2>2, <2>3
<1> HIDE DEF sent, new
<1>6. Gathering(c)' /\ Counted(c)'
  BY <1>1, <1>2, <1>5 DEF Gathering, Counted
<1>7. Fresh(c)' /\ Whole(c)' /\ Chosen(c)' /\ Flown(c)' /\ Proved(c)'
  BY <1>2 DEF Fresh, Whole, Chosen, Flown, Proved, Past, Running
<1> QED
  BY <1>2, <1>3, <1>6, <1>7, OneTouched DEF Shakes

LEMMA ClientShakes ==
  ASSUME Shaking, NEW c \in Conns, ClientHandshake(c) \/ ClientRecord(c)
  PROVE  Shaking'
<1>1. Plans(Plan)
  BY PlanOk DEF Shaking
<1>2. Running(c)
  BY DEF ClientHandshake, ClientRecord, Writable
<1>3. ASSUME NEW r \in Plan.pieces, Sends(c, r) PROVE Shaking'
  <2>1. r.len \in Nat /\ (r.type = "handshake" => r.key = "plain")
    BY <1>1 DEF Plans
  <2> QED
    BY <1>2, <1>3, <2>1, PieceSent, LaterSends
<1>4. ASSUME stage[c] # "hello", NEW r \in Plan.replies, Sends(c, r) PROVE Shaking'
  <2>1. r.len \in Nat
    BY <1>1 DEF Plans
  <2> QED
    BY <1>2, <1>4, <2>1, LaterSends
<1>5. CASE ClientRecord(c)
  <2> DEFINE n == Len(Sealed(c))
             of(r) == [r EXCEPT !.seq = n, !.body = [i \in 1 .. Len(r.body) |-> <<n, i>>]]
  <2>1. PICK r \in Plan.traffic : Sends(c, of(r))
    BY <1>5 DEF ClientRecord
  <2>2. DOMAIN r = {"key", "seq", "type", "body", "len", "msg", "app"} /\ r.len \in Nat
    BY <1>1 DEF Plans
  <2> HIDE DEF n
  <2>3. of(r).len \in Nat
    BY <2>2
  <2>4. stage[c] # "hello"
    BY <1>5 DEF ClientRecord
  <2> QED
    BY <1>2, <2>1, <2>3, <2>4, LaterSends
<1> QED
  BY <1>3, <1>4, <1>5 DEF ClientHandshake

\* The client is gone: what it has sent is cut short.
LEMMA EofShakes ==
  ASSUME Shaking, NEW c \in Conns, NEW k \in 0 .. Len(lane[c]), ClientEof(c, k)
  PROVE  Shaking'
<1> DEFINE lan == lane[c]
           cut == SubSeq(lan, 1, k)
<1>1. /\ Shaped /\ Typed(c) /\ Counted(c) /\ Traced(c)
      /\ Gathering(c) /\ Whole(c) /\ Chosen(c) /\ Flown(c) /\ Proved(c)
  BY DEF Shaking, Shakes
<1>2. Touches(c)
  BY <1>1 DEF Touches, Shape, Leaves, Shaped, ClientEof, serving, handshaking
<1>3. /\ lane'[c] = cut /\ hs'[c] = hs[c] /\ stage'[c] = stage[c] /\ task'[c] = task[c]
      /\ taken'[c] = taken[c] /\ Plan' = Plan /\ Running(c)
  BY <1>1 DEF ClientEof, Shaped, serving, handshaking, Plan, Writable
<1>4. peer'[c].sent = peer[c].sent /\ peer'[c].eof /\ DOMAIN peer'[c] = {"sent", "eof"}
  BY <1>1 DEF ClientEof, Shaped, Typed
<1>5. IsSeq(lan) /\ Len(lan) \in Nat
  BY <1>1, SeqEmpty DEF Typed
<1> HIDE DEF lan
<1>6. /\ IsSeq(cut) /\ Len(cut) = k /\ k <= Len(lan)
      /\ \A i \in 1 .. Len(cut) : i \in 1 .. Len(lan) /\ cut[i] = lan[i]
  <2>1. k \in Nat /\ k <= Len(lan) /\ 1 \in Nat \ {0}
    BY <1>5 DEF lan
  <2>2. /\ IsSeq(cut) /\ Len(cut) = IF 1 <= k THEN k - 1 + 1 ELSE 0
        /\ \A i \in 1 .. Len(cut) : 1 + i - 1 \in 1 .. Len(lan) /\ cut[i] = lan[1 + i - 1]
    BY <1>5, <2>1, SeqSub
  <2> HIDE DEF cut
  <2> QED
    BY <2>1, <2>2
<1> HIDE DEF cut
<1>7. Typed(c)' /\ Traced(c)'
  <2>1. Typed(c)'
    BY <1>1, <1>3, <1>4, <1>6 DEF Typed
  <2>2. ASSUME NEW i \in 1 .. Len(cut)
        PROVE  \E j \in 1 .. Len(peer[c].sent) : cut[i].rec = peer[c].sent[j]
    <3>1. i \in 1 .. Len(lan) /\ cut[i] = lan[i]
      BY <1>6
    <3>2. \E j \in 1 .. Len(peer[c].sent) : lan[i].rec = peer[c].sent[j]
      BY <1>1, <3>1 DEF Traced, lan
    <3> QED
      BY <3>1, <3>2
  <2>3. Traced(c)'
    BY <1>3, <1>4, <2>2 DEF Traced
  <2> QED
    BY <2>1, <2>3
<1>8. Gathering(c)' /\ Counted(c)'
  BY <1>1, <1>3, <1>4 DEF Gathering, Counted
<1>9. Fresh(c)' /\ Whole(c)' /\ Chosen(c)' /\ Flown(c)' /\ Proved(c)'
  BY <1>1, <1>3, <1>4 DEF Fresh, Whole, Chosen, Flown, Proved, Running
<1> QED
  BY <1>2, <1>7, <1>8, <1>9, OneTouched DEF Shakes

\* Bytes leave the lane at its front.
LEMMA Consumed ==
  ASSUME NEW c \in Conns, Typed(c), Traced(c), NEW m \in Nat \ {0},
         lane'[c] = SubSeq(lane[c], m, Len(lane[c])), peer'[c] = peer[c]
  PROVE  Typed(c)' /\ Traced(c)'
<1> DEFINE lan == lane[c]
           rest == SubSeq(lan, m, Len(lan))
<1>1. IsSeq(lan) /\ Len(lan) \in Nat
  BY SeqEmpty DEF Typed
<1> HIDE DEF lan
<1>2. /\ IsSeq(rest)
      /\ \A i \in 1 .. Len(rest) : m + i - 1 \in 1 .. Len(lan) /\ rest[i] = lan[m + i - 1]
  BY <1>1, SeqSub
<1> HIDE DEF rest
<1>3. lane'[c] = rest
  BY DEF rest, lan
<1>4. Typed(c)'
  BY <1>2, <1>3 DEF Typed
<1>5. ASSUME NEW i \in 1 .. Len(rest)
      PROVE  \E j \in 1 .. Len(peer[c].sent) : rest[i].rec = peer[c].sent[j]
  <2>1. m + i - 1 \in 1 .. Len(lan) /\ rest[i] = lan[m + i - 1]
    BY <1>2
  <2>2. \E j \in 1 .. Len(peer[c].sent) : lan[m + i - 1].rec = peer[c].sent[j]
    BY <2>1 DEF Traced, lan
  <2> QED
    BY <2>1, <2>2
<1>6. Traced(c)'
  BY <1>3, <1>5 DEF Traced
<1> QED
  BY <1>4, <1>6

\* A connection that is over has nothing more to keep.
LEMMA OverShakes ==
  ASSUME Shaking, NEW c \in Conns, Touches(c), Typed(c)', Counted(c)', Traced(c)',
         stage'[c] = "closed", task'[c] = "ended"
  PROVE  Shaking'
<1>1. Fresh(c)' /\ Gathering(c)' /\ Whole(c)' /\ Chosen(c)' /\ Flown(c)' /\ Proved(c)'
  BY DEF Fresh, Gathering, Whole, Chosen, Flown, Proved, Past
<1> QED
  BY <1>1, OneTouched DEF Shakes

\* A record is taken: it is the first on its way, and was sent by the client.
LEMMA TakesView ==
  ASSUME Shaped, NEW c \in Conns, Typed(c), Counted(c), Traced(c), NEW at, Takes(c, at)
  PROVE  /\ Running(c) /\ stage[c] = at /\ lane[c] # <<>>
         /\ 1 \in 1 .. Len(lane[c]) /\ FirstRecord(c) = lane[c][1].rec
         /\ FirstRecord(c).len \in Nat
         /\ HeaderLen + FirstRecord(c).len + 1 \in Nat \ {0}
         /\ HeaderLen + FirstRecord(c).len <= Len(lane[c])
         /\ lane'[c] = SubSeq(lane[c], HeaderLen + FirstRecord(c).len + 1, Len(lane[c]))
         /\ peer'[c] = peer[c] /\ taken'[c] = Append(taken[c], FirstRecord(c))
         /\ identity' = identity
         /\ DOMAIN lane' = Conns /\ DOMAIN peer' = Conns /\ DOMAIN taken' = Conns
         /\ \A d \in Conns \ {c} : lane'[d] = lane[d] /\ peer'[d] = peer[d] /\ taken'[d] = taken[d]
         /\ \E j \in 1 .. Len(peer[c].sent) : FirstRecord(c) = peer[c].sent[j]
         /\ Typed(c)' /\ Counted(c)' /\ Traced(c)'
<1>1. Running(c) /\ stage[c] = at /\ lane[c] # <<>>
  BY DEF Takes, RecordIn
<1>2. Len(lane[c]) \in Nat \ {0} /\ 1 \in 1 .. Len(lane[c])
  BY <1>1, SeqEmpty DEF Typed
<1>3. FirstRecord(c) = lane[c][1].rec
  BY DEF FirstRecord
<1>4. PICK j \in 1 .. Len(peer[c].sent) : FirstRecord(c) = peer[c].sent[j]
  BY <1>2, <1>3 DEF Traced
<1>5. FirstRecord(c).len \in Nat
  BY <1>4 DEF Typed
<1>6. HeaderLen \in Nat
  BY OriginAssumption
<1>7. HeaderLen + FirstRecord(c).len + 1 \in Nat \ {0}
  BY <1>5, <1>6
<1>8. HeaderLen + FirstRecord(c).len <= Len(lane[c])
  BY <1>3 DEF Takes, RecordIn
<1>9. lane'[c] = SubSeq(lane[c], HeaderLen + FirstRecord(c).len + 1, Len(lane[c]))
  BY <1>3 DEF Takes, Shaped
<1>10. /\ peer'[c] = peer[c] /\ taken'[c] = Append(taken[c], FirstRecord(c)) /\ identity' = identity
       /\ DOMAIN lane' = Conns /\ DOMAIN peer' = Conns /\ DOMAIN taken' = Conns
       /\ \A d \in Conns \ {c} : lane'[d] = lane[d] /\ peer'[d] = peer[d] /\ taken'[d] = taken[d]
  BY DEF Takes, Shaped
<1>11. Typed(c)' /\ Traced(c)'
  BY <1>7, <1>9, <1>10, Consumed
<1>12. Counted(c)'
  <2> DEFINE old == taken[c]
             rec == FirstRecord(c)
             new == Append(old, rec)
  <2>1. IsSeq(old) /\ (\A i \in 1 .. Len(old) : old[i].len \in Nat) /\ rec.len \in Nat
    BY <1>5 DEF Counted
  <2> HIDE DEF old, rec
  <2>2. /\ IsSeq(new) /\ Len(old) \in Nat /\ Len(new) = Len(old) + 1 /\ new[Len(old) + 1] = rec
        /\ \A i \in 1 .. Len(old) : new[i] = old[i]
    BY <2>1, SeqAppend
  <2>3. taken'[c] = new
    BY <1>10 DEF old, rec
  <2> HIDE DEF new
  <2>4. \A i \in 1 .. Len(new) : new[i].len \in Nat
    BY <2>1, <2>2
  <2> QED
    BY <2>2, <2>3, <2>4 DEF Counted
<1> QED
  BY <1>1, <1>2, <1>3, <1>4, <1>5, <1>7, <1>8, <1>9, <1>10, <1>11, <1>12

\* What the handshake has read of a ClientHello, with one more record.
LEMMA TakenBytes ==
  ASSUME NEW c \in Conns, Counted(c), NEW rec, rec.len \in Nat, taken'[c] = Append(taken[c], rec)
  PROVE  /\ HelloBytes(taken[c]) \in Nat
         /\ PlainHandshake(rec) => HelloBytes(taken'[c]) = HelloBytes(taken[c]) + rec.len
         /\ ~PlainHandshake(rec) => HelloBytes(taken'[c]) = HelloBytes(taken[c])
<1> DEFINE old == taken[c]
<1>1. IsSeq(old) /\ \A i \in 1 .. Len(old) : old[i].len \in Nat
  BY DEF Counted
<1> HIDE DEF old
<1>2. /\ HelloBytes(old) \in Nat
      /\ HelloBytes(Append(old, rec)) = HelloBytes(old) + (IF PlainHandshake(rec) THEN rec.len ELSE 0)
  BY <1>1, HelloBytesAppend
<1>3. taken'[c] = Append(old, rec)
  BY DEF old
<1> QED
  BY <1>2, <1>3 DEF old

\* Where a handshake goes on, or ends.
LEMMA GoesOnView ==
  ASSUME Shaped, NEW c \in Conns, NEW at, GoesOn(c, at)
  PROVE  /\ stage'[c] = at /\ DOMAIN stage' = Conns /\ task' = task /\ scen' = scen /\ Plan' = Plan
         /\ \A d \in Conns \ {c} : stage'[d] = stage[d]
  BY DEF Shaped, GoesOn, serving, Plan

LEMMA TaskEndsView ==
  ASSUME Shaped, NEW c \in Conns, TaskEnds(c)
  PROVE  /\ stage'[c] = "closed" /\ DOMAIN stage' = Conns /\ scen' = scen
         /\ task'[c] = "ended" /\ DOMAIN task' = Conns
         /\ \A d \in Conns \ {c} : stage'[d] = stage[d] /\ task'[d] = task[d]
  BY DEF Shaped, TaskEnds

\* One turn of read_client_hello: what it has counted is what it has read.
LEMMA ReadHelloShakes ==
  ASSUME Shaking, NEW c \in Conns, ReadHello(c)
  PROVE  Shaking'
<1> DEFINE rec == FirstRecord(c)
           h == hs[c].hello
           r == IF rec.len > MaxRecord THEN "error"
                ELSE AppendRecord(h, hs[c].had, rec.type, rec.len)
<1>1. Shaped /\ Typed(c) /\ Counted(c) /\ Traced(c) /\ Gathering(c)
  BY DEF Shaking, Shakes
<1>2. Takes(c, "hello")
  BY DEF ReadHello
<1>3. /\ Running(c) /\ stage[c] = "hello" /\ rec.len \in Nat
      /\ peer'[c] = peer[c] /\ taken'[c] = Append(taken[c], rec) /\ identity' = identity
      /\ DOMAIN lane' = Conns /\ DOMAIN peer' = Conns /\ DOMAIN taken' = Conns
      /\ \A d \in Conns \ {c} : lane'[d] = lane[d] /\ peer'[d] = peer[d] /\ taken'[d] = taken[d]
      /\ \E j \in 1 .. Len(peer[c].sent) : rec = peer[c].sent[j]
      /\ Typed(c)' /\ Counted(c)' /\ Traced(c)'
  BY <1>1, <1>2, TakesView
<1>4. rec.type = "handshake" => PlainHandshake(rec)
  BY <1>1, <1>3 DEF Gathering, PlainHandshake
<1>5. /\ HelloBytes(taken[c]) = hs[c].had
      /\ PlainHandshake(rec) => HelloBytes(taken'[c]) = hs[c].had + rec.len
      /\ ~PlainHandshake(rec) => HelloBytes(taken'[c]) = hs[c].had
  BY <1>1, <1>3, TakenBytes DEF Gathering
<1>6. DOMAIN hs[c] = {"hello", "had"} /\ hs[c].had \in Nat /\ hs[c].hello.len \in Nat
  BY <1>1, <1>3 DEF Gathering
<1>7. DOMAIN hs = Conns
  BY <1>1 DEF Shaped
<1>8. \/ Skipped(rec) /\ GoesOn(c, "hello") /\ hs' = hs
      \/ ~Skipped(rec) /\ r = "more" /\ hs' = [hs EXCEPT ![c].had = @ + rec.len] /\ GoesOn(c, "hello")
      \/ /\ ~Skipped(rec) /\ r = "message" /\ ChooseCipher(h) # "none"
         /\ hs' = [hs EXCEPT ![c] = [hello |-> h, had |-> @.had + rec.len, loaded |-> identity]]
         /\ GoesOn(c, "loaded")
      \/ TaskEnds(c) /\ hs' = hs
  BY DEF ReadHello
<1>9. r \in {"more", "message"} =>
        /\ rec.type = "handshake"
        /\ r = "message" => /\ h.msg = "client_hello" /\ MsgHeader + h.len <= MaxHello
                            /\ hs[c].had + rec.len = MsgHeader + h.len
  <2>1. MsgHeader \in Nat /\ MaxHello \in Nat /\ rec.len \in Nat /\ hs[c].had \in Nat /\ h.len \in Nat
    BY <1>3, <1>6, OriginAssumption
  <2> DEFINE size == hs[c].had + rec.len
             total == MsgHeader + h.len
             a == AppendRecord(h, hs[c].had, rec.type, rec.len)
  <2>2. a = IF rec.type # "handshake" \/ size > MaxHello THEN "error"
            ELSE IF size < MsgHeader THEN "more"
            ELSE IF h.msg # "client_hello" \/ total > MaxHello THEN "error"
            ELSE IF size < total THEN "more"
            ELSE IF size > total THEN "error"
            ELSE "message"
    BY DEF AppendRecord
  <2>3. size \in Nat /\ total \in Nat
    BY <2>1
  <2>4. r \in {"more", "message"} => r = a
    OBVIOUS
  <2> HIDE DEF size, total, a, h, rec, r
  <2>5. a \in {"more", "message"} => rec.type = "handshake"
    BY <2>2
  <2>6. a = "message" => h.msg = "client_hello" /\ total <= MaxHello /\ size = total
    BY <2>1, <2>2, <2>3
  <2> QED
    BY <2>4, <2>5, <2>6 DEF size, total
<1> HIDE DEF rec, r, h
<1>10. CASE Skipped(rec) /\ GoesOn(c, "hello") /\ hs' = hs
  <2>1. ~PlainHandshake(rec)
    BY <1>10 DEF Skipped, PlainHandshake
  <2>2. HelloBytes(taken'[c]) = hs[c].had
    BY <1>5, <2>1
  <2>3. /\ stage'[c] = "hello" /\ DOMAIN stage' = Conns /\ task' = task /\ scen' = scen
        /\ \A d \in Conns \ {c} : stage'[d] = stage[d]
    BY <1>1, <1>10, GoesOnView
  <2>4. Touches(c)
    BY <1>1, <1>3, <1>10, <2>3 DEF Touches, Shape, Leaves, Shaped
  <2>5. Gathering(c)'
    BY <1>1, <1>3, <1>6, <1>10, <2>2 DEF Gathering
  <2>6. Fresh(c)' /\ Whole(c)' /\ Chosen(c)' /\ Flown(c)' /\ Proved(c)'
    BY <1>3, <2>3 DEF Fresh, Whole, Chosen, Flown, Proved, Past, Running
  <2> QED
    BY <1>3, <2>4, <2>5, <2>6, OneTouched DEF Shakes
<1>11. CASE /\ r = "more" /\ hs' = [hs EXCEPT ![c].had = @ + rec.len] /\ GoesOn(c, "hello")
  <2>1. PlainHandshake(rec)
    BY <1>4, <1>9, <1>11
  <2>2. /\ DOMAIN hs'[c] = {"hello", "had"} /\ hs'[c].had = hs[c].had + rec.len
        /\ hs'[c].hello = hs[c].hello /\ DOMAIN hs' = Conns
        /\ \A d \in Conns \ {c} : hs'[d] = hs[d]
    BY <1>6, <1>7, <1>11
  <2>3. /\ stage'[c] = "hello" /\ DOMAIN stage' = Conns /\ task' = task /\ scen' = scen
        /\ \A d \in Conns \ {c} : stage'[d] = stage[d]
    BY <1>1, <1>11, GoesOnView
  <2>4. Touches(c)
    BY <1>1, <1>3, <2>2, <2>3 DEF Touches, Shape, Leaves, Shaped
  <2>5. Gathering(c)'
    BY <1>1, <1>3, <1>5, <1>6, <2>1, <2>2 DEF Gathering
  <2>6. Fresh(c)' /\ Whole(c)' /\ Chosen(c)' /\ Flown(c)' /\ Proved(c)'
    BY <1>3, <2>3 DEF Fresh, Whole, Chosen, Flown, Proved, Past, Running
  <2> QED
    BY <1>3, <2>4, <2>5, <2>6, OneTouched DEF Shakes
<1>12. CASE /\ r = "message" /\ ChooseCipher(h) # "none"
            /\ hs' = [hs EXCEPT ![c] = [hello |-> h, had |-> @.had + rec.len, loaded |-> identity]]
            /\ GoesOn(c, "loaded")
  <2>1. PlainHandshake(rec)
    BY <1>4, <1>9, <1>12
  <2>2. /\ hs'[c].hello = h /\ hs'[c].loaded = identity /\ DOMAIN hs' = Conns
        /\ \A d \in Conns \ {c} : hs'[d] = hs[d]
    BY <1>7, <1>12
  <2>3. /\ stage'[c] = "loaded" /\ DOMAIN stage' = Conns /\ task' = task /\ scen' = scen
        /\ \A d \in Conns \ {c} : stage'[d] = stage[d]
    BY <1>1, <1>12, GoesOnView
  <2>4. Touches(c)
    BY <1>1, <1>3, <2>2, <2>3 DEF Touches, Shape, Leaves, Shaped
  <2>5. /\ HelloBytes(taken'[c]) = MsgHeader + h.len /\ HelloBytes(taken'[c]) <= MaxHello
        /\ h.msg = "client_hello"
    BY <1>5, <1>9, <1>12, <2>1
  <2>6. Whole(c)'
    BY <2>2, <2>5 DEF Whole
  <2>7. Chosen(c)'
    BY <1>1, <1>12, <2>2 DEF Chosen, Shaped
  <2>8. Fresh(c)' /\ Gathering(c)' /\ Flown(c)' /\ Proved(c)'
    BY <1>3, <2>3 DEF Fresh, Gathering, Flown, Proved, Running
  <2> QED
    BY <1>3, <2>4, <2>6, <2>7, <2>8, OneTouched DEF Shakes
<1>13. CASE TaskEnds(c) /\ hs' = hs
  <2>1. /\ stage'[c] = "closed" /\ DOMAIN stage' = Conns /\ scen' = scen
        /\ task'[c] = "ended" /\ DOMAIN task' = Conns
        /\ \A d \in Conns \ {c} : stage'[d] = stage[d] /\ task'[d] = task[d]
    BY <1>1, <1>13, TaskEndsView
  <2>2. Touches(c)
    BY <1>1, <1>3, <1>13, <2>1 DEF Touches, Shape, Leaves, Shaped
  <2> QED
    BY <1>3, <2>1, <2>2, OverShakes
<1> QED
  BY <1>8, <1>10, <1>11, <1>12, <1>13


\* The flight that is prepared can be verified by its client.
LEMMA FlightVerifiable ==
  ASSUME NEW h, NEW loaded, loaded.alg \in Algs, NEW current,
         ChooseCipher(h) # "none", Prepares(h, loaded)
  PROVE  Verifiable(h, Flight(h, loaded, current))
<1> DEFINE f == Flight(h, loaded, current)
           schemes == CASE loaded.alg = "rsa" -> <<"pss256", "pss384", "pss512">>
                        [] loaded.alg = "p256" -> <<"ecdsa256">>
                        [] loaded.alg = "p384" -> <<"ecdsa384">>
                        [] loaded.alg = "ed25519" -> <<"ed25519">>
           fits == [rsa |-> {"pss256", "pss384", "pss512"}, p256 |-> {"ecdsa256"},
                    p384 |-> {"ecdsa384"}, ed25519 |-> {"ed25519"}]
<1>1. /\ f.suite = ChooseCipher(h) /\ f.alpn = FirstIn(AlpnOrder, OfferedAlpn(h), "none")
      /\ f.cert = loaded.gen /\ f.scheme = ChooseScheme(loaded.alg, Signatures(h))
      /\ f.signer = loaded
  BY DEF Flight
<1> HIDE DEF f
<1>2. Contains(h.suites, f.suite)
  BY <1>1, FirstInBoth DEF ChooseCipher
<1>3. f.alpn = "none" \/ (Contains(OfferedAlpn(h), f.alpn) /\ Contains(AlpnOrder, f.alpn))
  BY <1>1, FirstInBoth
<1>4. f.scheme # "none" /\ f.scheme = FirstIn(Signatures(h), schemes, "none")
  BY <1>1 DEF Prepares, ChooseScheme
<1>5. Contains(Signatures(h), f.scheme) /\ Contains(schemes, f.scheme)
  <2> HIDE DEF schemes
  <2> QED
    BY <1>4, FirstInBoth
<1>6. f.scheme \in fits[loaded.alg]
  <2>1. CASE loaded.alg = "rsa"
    <3>1. schemes = <<"pss256", "pss384", "pss512">>
      BY <2>1
    <3>2. \E i \in 1 .. Len(<<"pss256", "pss384", "pss512">>) :
            <<"pss256", "pss384", "pss512">>[i] = f.scheme
      BY <1>5, <3>1 DEF Contains
    <3> QED
      BY <2>1, <3>2
  <2>2. CASE loaded.alg = "p256"
    <3>1. schemes = <<"ecdsa256">>
      BY <2>2
    <3>2. \E i \in 1 .. Len(<<"ecdsa256">>) : <<"ecdsa256">>[i] = f.scheme
      BY <1>5, <3>1 DEF Contains
    <3> QED
      BY <2>2, <3>2
  <2>3. CASE loaded.alg = "p384"
    <3>1. schemes = <<"ecdsa384">>
      BY <2>3
    <3>2. \E i \in 1 .. Len(<<"ecdsa384">>) : <<"ecdsa384">>[i] = f.scheme
      BY <1>5, <3>1 DEF Contains
    <3> QED
      BY <2>3, <3>2
  <2>4. CASE loaded.alg = "ed25519"
    <3>1. schemes = <<"ed25519">>
      BY <2>4
    <3>2. \E i \in 1 .. Len(<<"ed25519">>) : <<"ed25519">>[i] = f.scheme
      BY <1>5, <3>1 DEF Contains
    <3> QED
      BY <2>4, <3>2
  <2> QED
    BY <2>1, <2>2, <2>3, <2>4 DEF Algs
<1> QED
  BY <1>1, <1>2, <1>3, <1>5, <1>6 DEF Verifiable, f

LEMMA PrepareShakes ==
  ASSUME Shaking, NEW c \in Conns, Prepare(c)
  PROVE  Shaking'
<1> DEFINE h == hs[c].hello
           loaded == hs[c].loaded
           f == Flight(h, loaded, identity)
<1>1. Shaped /\ Typed(c) /\ Counted(c) /\ Traced(c) /\ Whole(c) /\ Chosen(c)
  BY DEF Shaking, Shakes
<1>2. /\ Running(c) /\ stage[c] = "loaded" /\ UNCHANGED <<identity, lane, peer, taken>>
  BY DEF Prepare, reading
<1>3. CASE /\ Prepares(h, loaded)
           /\ hs' = [hs EXCEPT ![c] = [hello |-> @.hello, had |-> @.had, loaded |-> @.loaded,
                                    flight |-> Flight(@.hello, @.loaded, identity)]]
           /\ GoesOn(c, "flight")
  <2>1. hs'[c].hello = h /\ hs'[c].flight = f /\ DOMAIN hs' = Conns
        /\ \A d \in Conns \ {c} : hs'[d] = hs[d]
    BY <1>1, <1>3 DEF Shaped
  <2>2. /\ stage'[c] = "flight" /\ DOMAIN stage' = Conns /\ task' = task /\ scen' = scen
        /\ \A d \in Conns \ {c} : stage'[d] = stage[d]
    BY <1>1, <1>3, GoesOnView
  <2>3. Touches(c)
    BY <1>1, <1>2, <2>1, <2>2 DEF Touches, Shape, Leaves, Shaped
  <2>4. Verifiable(h, f)
    BY <1>1, <1>2, <1>3, FlightVerifiable DEF Chosen
  <2>5. Whole(c)' /\ Flown(c)'
    BY <1>1, <1>2, <2>1, <2>4 DEF Whole, Flown, Past
  <2>6. Typed(c)' /\ Counted(c)' /\ Fresh(c)' /\ Traced(c)' /\ Gathering(c)' /\ Chosen(c)' /\ Proved(c)'
    BY <1>1, <1>2, <2>2 DEF Typed, Counted, Fresh, Traced, Gathering, Chosen, Proved, Running
  <2> QED
    BY <2>3, <2>5, <2>6, OneTouched DEF Shakes
<1>4. CASE TaskEnds(c) /\ hs' = hs
  BY <1>1, <1>2, <1>4, EndLeaves, NoneTouched
<1> QED
  BY <1>3, <1>4 DEF Prepare

LEMMA SendFlightShakes ==
  ASSUME Shaking, NEW c \in Conns, SendFlight(c)
  PROVE  Shaking'
<1>1. Shaped /\ Typed(c) /\ Counted(c) /\ Traced(c) /\ Whole(c) /\ Flown(c)
  BY DEF Shaking, Shakes
<1>2. Running(c) /\ stage[c] = "flight" /\ UNCHANGED <<identity, hs, lane, peer, taken>>
  BY DEF SendFlight, reading, handshaking
<1>3. CASE GoesOn(c, "finished")
  <2>1. /\ stage'[c] = "finished" /\ DOMAIN stage' = Conns /\ task' = task /\ scen' = scen
        /\ \A d \in Conns \ {c} : stage'[d] = stage[d]
    BY <1>1, <1>3, GoesOnView
  <2>2. Touches(c)
    BY <1>1, <1>2, <2>1 DEF Touches, Shape, Leaves, Shaped
  <2>3. Whole(c)' /\ Flown(c)'
    BY <1>1, <1>2 DEF Whole, Flown, Past
  <2>4. Typed(c)' /\ Counted(c)' /\ Fresh(c)' /\ Traced(c)' /\ Gathering(c)' /\ Chosen(c)' /\ Proved(c)'
    BY <1>1, <1>2, <2>1 DEF Typed, Counted, Fresh, Traced, Gathering, Chosen, Proved, Running
  <2> QED
    BY <2>2, <2>3, <2>4, OneTouched DEF Shakes
<1>4. CASE TaskEnds(c)
  BY <1>1, <1>2, <1>4, EndLeaves, NoneTouched
<1> QED
  BY <1>3, <1>4 DEF SendFlight

\* One turn of the loop that waits for the client's Finished.
LEMMA ReadFinishedShakes ==
  ASSUME Shaking, NEW c \in Conns, ReadFinished(c)
  PROVE  Shaking'
<1> DEFINE rec == FirstRecord(c)
<1>1. Shaped /\ Typed(c) /\ Counted(c) /\ Traced(c) /\ Whole(c) /\ Flown(c)
  BY DEF Shaking, Shakes
<1>2. Takes(c, "finished") /\ hs' = hs
  BY DEF ReadFinished
<1>3. /\ Running(c) /\ stage[c] = "finished" /\ rec.len \in Nat
      /\ peer'[c] = peer[c] /\ taken'[c] = Append(taken[c], rec) /\ identity' = identity
      /\ DOMAIN lane' = Conns /\ DOMAIN peer' = Conns /\ DOMAIN taken' = Conns
      /\ \A d \in Conns \ {c} : lane'[d] = lane[d] /\ peer'[d] = peer[d] /\ taken'[d] = taken[d]
      /\ Typed(c)' /\ Counted(c)' /\ Traced(c)'
  BY <1>1, <1>2, TakesView
<1>4. \/ Skipped(rec) /\ GoesOn(c, "finished")
      \/ FinishedOk(rec) /\ GoesOn(c, "stream")
      \/ TaskEnds(c)
  BY DEF ReadFinished
<1> HIDE DEF rec
<1>8. Skipped(rec) \/ FinishedOk(rec) => HelloBytes(taken'[c]) = HelloBytes(taken[c])
  <2>1. Skipped(rec) \/ FinishedOk(rec) => ~PlainHandshake(rec)
    BY DEF Skipped, FinishedOk, Opens, Authentic, NewKeys, PlainHandshake
  <2> QED
    BY <1>1, <1>3, <2>1, TakenBytes
<1>5. CASE Skipped(rec) /\ GoesOn(c, "finished")
  <2>1. /\ stage'[c] = "finished" /\ DOMAIN stage' = Conns /\ task' = task /\ scen' = scen
        /\ \A d \in Conns \ {c} : stage'[d] = stage[d]
    BY <1>1, <1>5, GoesOnView
  <2>2. Touches(c)
    BY <1>1, <1>2, <1>3, <2>1 DEF Touches, Shape, Leaves, Shaped
  <2>3. Whole(c)' /\ Flown(c)'
    BY <1>1, <1>2, <1>3, <1>5, <1>8 DEF Whole, Flown, Past
  <2>4. Fresh(c)' /\ Gathering(c)' /\ Chosen(c)' /\ Proved(c)'
    BY <1>3, <2>1 DEF Fresh, Gathering, Chosen, Proved, Running
  <2> QED
    BY <1>3, <2>2, <2>3, <2>4, OneTouched DEF Shakes
<1>6. CASE FinishedOk(rec) /\ GoesOn(c, "stream")
  <2>1. /\ stage'[c] = "stream" /\ DOMAIN stage' = Conns /\ task' = task /\ scen' = scen
        /\ \A d \in Conns \ {c} : stage'[d] = stage[d]
    BY <1>1, <1>6, GoesOnView
  <2>2. Touches(c)
    BY <1>1, <1>2, <1>3, <2>1 DEF Touches, Shape, Leaves, Shaped
  <2>3. Whole(c)' /\ Flown(c)'
    BY <1>1, <1>2, <1>3, <1>6, <1>8 DEF Whole, Flown, Past
  <2>4. Fresh(c)' /\ Gathering(c)' /\ Chosen(c)'
    BY <1>3, <2>1 DEF Fresh, Gathering, Chosen, Running
  <2>5. rec.key = "hs" /\ rec.msg = "good"
    BY <1>6 DEF FinishedOk, Opens, Authentic, NewKeys
  <2>6. Proved(c)'
    <3> DEFINE old == taken[c]
    <3>1. IsSeq(old)
      BY <1>1 DEF Counted
    <3>2. taken'[c] = Append(old, rec)
      BY <1>3
    <3> HIDE DEF old
    <3>3. /\ Len(old) \in Nat /\ Len(Append(old, rec)) = Len(old) + 1
          /\ Append(old, rec)[Len(old) + 1] = rec
      BY <3>1, SeqAppend
    <3> QED
      BY <2>1, <2>5, <3>2, <3>3 DEF Proved
  <2> QED
    BY <1>3, <2>2, <2>3, <2>4, <2>6, OneTouched DEF Shakes
<1>7. CASE TaskEnds(c)
  <2>1. /\ stage'[c] = "closed" /\ DOMAIN stage' = Conns /\ scen' = scen
        /\ task'[c] = "ended" /\ DOMAIN task' = Conns
        /\ \A d \in Conns \ {c} : stage'[d] = stage[d] /\ task'[d] = task[d]
    BY <1>1, <1>7, TaskEndsView
  <2>2. Touches(c)
    BY <1>1, <1>2, <1>3, <2>1 DEF Touches, Shape, Leaves, Shaped
  <2> QED
    BY <1>3, <2>1, <2>2, OverShakes
<1> QED
  BY <1>4, <1>5, <1>6, <1>7

\* hyper reads from the socket.
LEMMA FillShakes ==
  ASSUME Shaking, NEW c \in Conns, NEW k \in 1 .. Len(lane[c]), PollReadFill(c, k)
  PROVE  Shaking'
<1>1. Shaped /\ Typed(c) /\ Counted(c) /\ Traced(c) /\ Whole(c) /\ Flown(c) /\ Proved(c)
  BY DEF Shaking, Shakes
<1>2. /\ Running(c) /\ stage[c] = "stream"
      /\ UNCHANGED <<scen, stage, peer, taken, task, identity, hs>>
      /\ lane' = [lane EXCEPT ![c] = SubSeq(@, k + 1, Len(@))]
  BY DEF PollReadFill, Reads, ReadKeeps, serving, handshaking
<1>3. lane'[c] = SubSeq(lane[c], k + 1, Len(lane[c])) /\ k + 1 \in Nat \ {0}
  BY <1>1, <1>2 DEF Shaped
<1>4. Typed(c)' /\ Traced(c)'
  BY <1>1, <1>2, <1>3, Consumed
<1>5. Touches(c)
  BY <1>1, <1>2 DEF Touches, Shape, Leaves, Shaped
<1>6. Counted(c)' /\ Fresh(c)' /\ Gathering(c)' /\ Whole(c)' /\ Chosen(c)' /\ Flown(c)' /\ Proved(c)'
  BY <1>1, <1>2 DEF Counted, Fresh, Gathering, Whole, Chosen, Flown, Proved, Running, Plan
<1> QED
  BY <1>4, <1>5, <1>6, OneTouched DEF Shakes

-------------------------------------------------------------------------------
LEMMA ShakingInit ==
  ASSUME Init
  PROVE  Shaking
<1>1. \A c \in Conns : /\ task[c] = "none" /\ stage[c] = "closed" /\ lane[c] = <<>>
                       /\ peer[c] = [sent |-> <<>>, eof |-> FALSE] /\ taken[c] = <<>>
  BY DEF Init
<1>2. IsSeq(<<>>)
  <2>1. <<>> \in Seq({})
    OBVIOUS
  <2> QED
    BY <2>1, SeqAny
<1>3. scen \in DOMAIN Scenarios /\ identity.alg = Plan.alg
  BY DEF Init
<1>4. Plan.alg \in Algs
  BY <1>3, OriginAssumption DEF Plan, Algs
<1>5. Shaped
  BY <1>3, <1>4 DEF Shaped, Init
<1>6. ASSUME NEW c \in Conns PROVE Typed(c) /\ Counted(c) /\ Fresh(c) /\ Traced(c)
  BY <1>1, <1>2 DEF Typed, Counted, Fresh, Traced
<1>7. ASSUME NEW c \in Conns
      PROVE  Gathering(c) /\ Whole(c) /\ Chosen(c) /\ Flown(c) /\ Proved(c)
  BY <1>1 DEF Gathering, Whole, Chosen, Flown, Proved, Past
<1> QED
  BY <1>5, <1>6, <1>7 DEF Shaking, Shakes

LEMMA ShakingStep ==
  ASSUME Shaking, [Next]_vars
  PROVE  Shaking'
<1>1. Shaped
  BY DEF Shaking
<1>2. CASE AcceptTransient \/ BackoffOver \/ AcceptFatal \/ Signal \/ Shutdown \/ Drained \/ Deadline
  BY <1>1, <1>2, LoopLeaves, NoneTouched
<1>3. CASE Reload
  BY <1>1, <1>3, ReloadLeaves, NoneTouched
<1>4. ASSUME NEW c \in Conns, ConnStep(c) PROVE Shaking'
  BY <1>1, <1>4, ConnLeaves, NoneTouched, AcceptShakes, ClientShakes, EofShakes, ReadHelloShakes,
     PrepareShakes, SendFlightShakes, ReadFinishedShakes, FillShakes
<1>5. CASE UNCHANGED vars
  <2>1. UNCHANGED <<scen, task, stage, identity, hs, lane, peer, taken>>
    BY <1>5 DEF vars
  <2> QED
    BY <1>1, <2>1, QuietLeaves, NoneTouched
<1> QED
  BY <1>2, <1>3, <1>4, <1>5 DEF Next


-------------------------------------------------------------------------------
(* Uploads: what is decoded, and how bytes add up.                           *)

LEMMA SumLenFacts ==
  ASSUME NEW chunks, Len(chunks) \in Nat, \A i \in 1 .. Len(chunks) : chunks[i].len \in Nat,
         NEW k \in 0 .. Len(chunks)
  PROVE  /\ SumLen(chunks, k) \in Nat
         /\ SumLen(chunks, Len(chunks)) \in Nat
         /\ SumLen(chunks, k) <= SumLen(chunks, Len(chunks))
<1> DEFINE n == Len(chunks)
           f == [i \in 1 .. n |-> chunks[i].len]
           g == [i \in 1 .. k |-> chunks[i].len]
           S == 1 .. n
           T == 1 .. k
<1>1. n \in Int /\ k \in Int /\ 1 \in Int /\ T \subseteq S
  OBVIOUS
<1>2. IsFiniteSet(S) /\ IsFiniteSet(T)
  BY <1>1, FS_Interval
<1>3. (\A x \in S : f[x] \in Int) /\ (\A x \in T : g[x] \in Int /\ g[x] <= f[x])
  BY <1>1
<1>4. SumLen(chunks, k) = Total(g, T) /\ SumLen(chunks, n) = Total(f, S)
  BY DEF SumLen
<1> HIDE DEF n, f, g, S, T
<1>5. Total(g, T) \in Nat /\ Total(f, S) \in Nat
  BY <1>2, <1>3, TotalType
<1>6. Total(g, T) <= Total(f, S)
  BY <1>1, <1>2, <1>3, TotalMonotone
<1> QED
  BY <1>4, <1>5, <1>6 DEF n

\* decode_payload_chunks gives the bytes its text stands for, and an error only for
\* what is malformed or too long: the limit on the text never cuts an upload
\* that the limit on the bytes allows.
LEMMA DecodeFacts ==
  ASSUME NEW chunks, Len(chunks) \in Nat, \A i \in 1 .. Len(chunks) : chunks[i].len \in Nat,
         NEW alphabet
  PROVE  LET d == DecodeChunks(chunks, alphabet)
             bytes == (SumLen(chunks, Len(chunks)) * 3) \div 4
         IN /\ d.err \in {0, 400, 413} /\ d.len \in Nat
            /\ d.err = 0 => d.len = bytes
            /\ alphabet /\ Formed(chunks) /\ bytes <= MaxPost => d.err = 0
<1> DEFINE n == Len(chunks)
           e == SumLen(chunks, n)
           stops == {k \in 1 .. n : ~chunks[k].text \/ SumLen(chunks, k) > EncodedLenLimit(MaxPost)}
           bytes == (e * 3) \div 4
           d == DecodeChunks(chunks, alphabet)
           failed(status) == [err |-> status, len |-> 0]
<1>1. d = IF stops # {} THEN failed(IF chunks[Min(stops)].text THEN 413 ELSE 400)
          ELSE IF e > 0 /\ (~alphabet \/ e % 4 = 1) THEN failed(400)
          ELSE IF bytes > MaxPost THEN failed(413)
          ELSE [err |-> 0, len |-> bytes]
  BY DEF DecodeChunks
<1>2. n \in 0 .. n
  OBVIOUS
<1>3. e \in Nat
  BY <1>2, SumLenFacts
<1>4. bytes \in Nat
  BY <1>3
<1>5. MaxPost \in Nat
  BY OriginAssumption
<1>6. ASSUME alphabet, Formed(chunks), bytes <= MaxPost
      PROVE  stops = {} /\ ~(e > 0 /\ (~alphabet \/ e % 4 = 1)) /\ ~(bytes > MaxPost)
  <2>1. e <= (MaxPost * 4 + 2) \div 3 + 4
    <3> HIDE DEF e
    <3> QED
      BY <1>3, <1>5, <1>6
  <2>2. EncodedLenLimit(MaxPost) = (MaxPost * 4 + 2) \div 3 + 4
    BY DEF EncodedLenLimit
  <2>3. (MaxPost * 4 + 2) \div 3 + 4 \in Int
    BY <1>5
  <2>4. ASSUME NEW k \in 1 .. n PROVE chunks[k].text /\ ~(SumLen(chunks, k) > EncodedLenLimit(MaxPost))
    <3>1. k \in 0 .. n
      OBVIOUS
    <3>2. SumLen(chunks, k) \in Nat /\ SumLen(chunks, k) <= e
      BY <3>1, SumLenFacts
    <3>3. chunks[k].text
      BY <1>6 DEF Formed
    <3> HIDE DEF e
    <3> QED
      BY <1>3, <2>1, <2>2, <2>3, <3>2, <3>3
  <2>5. e % 4 # 1
    BY <1>6 DEF Formed
  <2>6. ~(bytes > MaxPost)
    BY <1>4, <1>5, <1>6
  <2>7. stops = {}
    BY <2>4
  <2> QED
    BY <1>6, <2>5, <2>6, <2>7
<1> HIDE DEF e, stops, bytes, d
<1>7. d.err \in {0, 400, 413} /\ d.len \in Nat /\ (d.err = 0 => d.len = bytes)
  BY <1>1, <1>4
<1>8. alphabet /\ Formed(chunks) /\ bytes <= MaxPost => d.err = 0
  BY <1>1, <1>6
<1> QED
  BY <1>7, <1>8 DEF e, bytes, d

LEMMA BytesSeq ==
  ASSUME NEW w, NEW n \in Nat
  PROVE  IsSeq(Bytes(w, n)) /\ Len(Bytes(w, n)) = n /\ \A i \in 1 .. n : Bytes(w, n)[i] = <<w, i>>
<1> DEFINE S == {<<w, i>> : i \in 1 .. n}
<1>1. Bytes(w, n) = [i \in 1 .. n |-> <<w, i>>]
  BY DEF Bytes
<1>2. Bytes(w, n) \in [1 .. n -> S]
  BY <1>1
<1> HIDE DEF S
<1>3. Bytes(w, n) \in Seq(S) /\ Len(Bytes(w, n)) = n
  BY <1>2
<1> QED
  BY <1>1, <1>3, SeqAny

\* Two sequences with the same elements are the same.
LEMMA SeqSame ==
  ASSUME NEW s, IsSeq(s), NEW t, IsSeq(t), Len(s) = Len(t), \A i \in 1 .. Len(s) : s[i] = t[i]
  PROVE  s = t
<1> DEFINE S == {s[i] : i \in 1 .. Len(s)}
           T == {t[i] : i \in 1 .. Len(t)}
<1>1. s \in Seq(S) /\ t \in Seq(T)
  BY DEF IsSeq
<1> HIDE DEF S, T
<1> QED
  BY <1>1

\* The frames of a body, one after the other, are the body.
LEMMA BodyGrows ==
  ASSUME NEW m \in Nat, NEW n \in Nat
  PROVE  Collected(Bytes("body", m), [i \in 1 .. n |-> <<"body", m + i>>]) = Bytes("body", m + n)
<1> DEFINE a == Bytes("body", m)
           b == [i \in 1 .. n |-> <<"body", m + i>>]
           S == {<<"body", m + i>> : i \in 1 .. n}
           all == Bytes("body", m + n)
<1>1. IsSeq(b) /\ Len(b) = n
  <2>1. b \in [1 .. n -> S]
    OBVIOUS
  <2> HIDE DEF b, S
  <2>2. b \in Seq(S) /\ Len(b) = n
    BY <2>1
  <2> QED
    BY <2>2, SeqAny
<1>2. IsSeq(a) /\ Len(a) = m /\ \A i \in 1 .. m : a[i] = <<"body", i>>
  BY BytesSeq
<1>3. m + n \in Nat
  OBVIOUS
<1>4. IsSeq(all) /\ Len(all) = m + n /\ \A i \in 1 .. m + n : all[i] = <<"body", i>>
  BY <1>3, BytesSeq
<1>5. \A i \in 1 .. n : b[i] = <<"body", m + i>>
  OBVIOUS
<1> HIDE DEF a, b, all
<1>6. /\ IsSeq(a \o b) /\ Len(a \o b) = Len(a) + Len(b)
      /\ \A i \in 1 .. Len(a \o b) :
              \/ i \in 1 .. Len(a) /\ (a \o b)[i] = a[i]
              \/ i - Len(a) \in 1 .. Len(b) /\ (a \o b)[i] = b[i - Len(a)]
  BY <1>1, <1>2, SeqConcat
<1> DEFINE s == a \o b
<1>7. ASSUME NEW i \in 1 .. m + n PROVE s[i] = <<"body", i>>
  <2>1. \/ i \in 1 .. m /\ s[i] = a[i]
        \/ i - m \in 1 .. n /\ s[i] = b[i - m]
    BY <1>1, <1>2, <1>6
  <2>2. i - m \in 1 .. n => b[i - m] = <<"body", m + (i - m)>>
    BY <1>5
  <2>3. m + (i - m) = i
    OBVIOUS
  <2> QED
    BY <1>2, <2>1, <2>2, <2>3
<1> HIDE DEF s
<1>8. IsSeq(s) /\ Len(s) = m + n
  BY <1>1, <1>2, <1>6 DEF s
<1>9. s = all
  BY <1>4, <1>7, <1>8, SeqSame
<1> QED
  BY <1>9 DEF s, a, b, all, Collected

LEMMA FramesAppend ==
  ASSUME NEW frames \in Seq(Nat), NEW n \in Nat
  PROVE  /\ Total(frames, 1 .. Len(frames)) \in Nat
         /\ Append(frames, n) \in Seq(Nat)
         /\ Total(Append(frames, n), 1 .. Len(Append(frames, n)))
              = Total(frames, 1 .. Len(frames)) + n
<1> DEFINE k == Len(frames)
           g == Append(frames, n)
           S == 1 .. k
<1>1. k \in Nat /\ g \in Seq(Nat) /\ Len(g) = k + 1 /\ g[k + 1] = n
  OBVIOUS
<1>2. \A i \in S : frames[i] \in Nat /\ g[i] = frames[i]
  OBVIOUS
<1>3. IsFiniteSet(S)
  <2>1. k \in Int /\ 1 \in Int
    OBVIOUS
  <2> QED
    BY <2>1, FS_Interval
<1>4. 1 .. Len(g) = S \cup {k + 1} /\ k + 1 \notin S
  BY <1>1
<1>5. \A i \in S : frames[i] \in Int /\ g[i] \in Int
  BY <1>2
<1> HIDE DEF g, S, k
<1>6. Total(frames, S) \in Nat /\ Total(g, S) = Total(frames, S)
  BY <1>2, <1>3, <1>5, TotalType, TotalSame
<1>7. g[k + 1] \in Nat
  BY <1>1
<1>8. Total(g, S \cup {k + 1}) = Total(g, S) + g[k + 1]
  BY <1>3, <1>4, <1>5, <1>7, TotalAdd
<1> QED
  BY <1>1, <1>4, <1>6, <1>8 DEF g, S, k


-------------------------------------------------------------------------------
(* The invariant of a request.                                               *)

Fields == {"at", "r", "kind", "payload", "body", "frames", "broken", "pushed", "opened",
           "removed", "reply"}

HeaderPart(r) == HeaderPayload(Plan.placement, r)
CookiePart(r) == CookiePayload(Plan.placement, r)

\* What an upload carries outside its body.
Outside(r) == Bytes("header", HeaderPart(r).len) \o Bytes("cookie", CookiePart(r).len)

\* Where an upload is, and what it has collected: nothing is pushed but all of it,
\* and only what is improper was refused.
UploadOk(q) ==
  /\ q.frames \in Seq(Nat) /\ q.at \in {"body", "push", "done"}
  /\ q.at # "done" => ~q.pushed /\ q.reply.status = 0
  /\ q.at = "body" => /\ HeaderPart(q.r).err = 0 /\ CookiePart(q.r).err = 0
                      /\ q.payload = Outside(q.r) /\ q.body = Bytes("body", SumFrames(q))
  /\ q.at = "push" \/ q.pushed => /\ q.payload = Outside(q.r) \o Bytes("body", SumFrames(q))
                                  /\ Len(q.payload) <= MaxPost
  /\ q.at = "done" /\ Proper(q) => q.reply.status \notin {400, 413}

RequestOk(q) ==
  /\ DOMAIN q = Fields /\ q.r \in Plan.requests
  /\ q.kind # "upload" => q.at \in {"stream", "done"} /\ ~q.pushed
  /\ q.kind = "upload" => UploadOk(q)

Handled ==
  /\ scen \in DOMAIN Scenarios /\ DOMAIN req = Conns
  /\ \A c \in Conns : req[c].at # "none" => RequestOk(req[c])

LEMMA RequestAssumed ==
  ASSUME scen \in DOMAIN Scenarios, NEW r \in Plan.requests
  PROVE  /\ r.hint \in Int
         /\ Len(r.headers) \in Nat /\ \A i \in 1 .. Len(r.headers) : r.headers[i].len \in Nat
         /\ Len(r.cookies) \in Nat /\ \A i \in 1 .. Len(r.cookies) : r.cookies[i].len \in Nat
<1>1. \A q \in Scenarios[scen].requests :
        /\ q.hint \in Int
        /\ \A chunks \in {q.headers, q.cookies} :
             Len(chunks) \in Nat /\ \A k \in 1 .. Len(chunks) : chunks[k].len \in Nat
  BY OriginAssumption
<1> QED
  BY <1>1 DEF Plan

\* What the parts outside the body come to.
LEMMA PartsFacts ==
  ASSUME scen \in DOMAIN Scenarios, NEW r \in Plan.requests
  PROVE  /\ HeaderPart(r).len \in Nat /\ CookiePart(r).len \in Nat
         /\ Decoded("header", r.headers) \in Nat /\ Decoded("cookie", r.cookies) \in Nat
         /\ HeaderPart(r).err = 0 => HeaderPart(r).len = Decoded("header", r.headers)
         /\ CookiePart(r).err = 0 => CookiePart(r).len = Decoded("cookie", r.cookies)
         /\ r.alphabet /\ Formed(r.headers) /\ Decoded("header", r.headers) <= MaxPost
              => HeaderPart(r).err = 0
         /\ r.alphabet /\ Formed(r.cookies) /\ Decoded("cookie", r.cookies) <= MaxPost
              => CookiePart(r).err = 0
         /\ IsSeq(Outside(r)) /\ Len(Outside(r)) = HeaderPart(r).len + CookiePart(r).len
<1> DEFINE H == DecodeChunks(r.headers, r.alphabet)
           K == DecodeChunks(r.cookies, r.alphabet)
           x == (SumLen(r.headers, Len(r.headers)) * 3) \div 4
           y == (SumLen(r.cookies, Len(r.cookies)) * 3) \div 4
<1>1. /\ Len(r.headers) \in Nat /\ \A i \in 1 .. Len(r.headers) : r.headers[i].len \in Nat
      /\ Len(r.cookies) \in Nat /\ \A i \in 1 .. Len(r.cookies) : r.cookies[i].len \in Nat
  BY RequestAssumed
<1>2. /\ H.len \in Nat /\ (H.err = 0 => H.len = x)
      /\ r.alphabet /\ Formed(r.headers) /\ x <= MaxPost => H.err = 0
  BY <1>1, DecodeFacts
<1>3. /\ K.len \in Nat /\ (K.err = 0 => K.len = y)
      /\ r.alphabet /\ Formed(r.cookies) /\ y <= MaxPost => K.err = 0
  BY <1>1, DecodeFacts
<1>4. x \in Nat /\ y \in Nat
  <2>1. Len(r.headers) \in 0 .. Len(r.headers) /\ Len(r.cookies) \in 0 .. Len(r.cookies)
    BY <1>1
  <2>2. SumLen(r.headers, Len(r.headers)) \in Nat /\ SumLen(r.cookies, Len(r.cookies)) \in Nat
    BY <1>1, <2>1, SumLenFacts
  <2> QED
    BY <2>2
<1> HIDE DEF H, K, x, y
<1>5. /\ HeaderPart(r) = IF Placed(Plan.placement, "header") THEN H ELSE [err |-> 0, len |-> 0]
      /\ CookiePart(r) = IF Placed(Plan.placement, "cookie") THEN K ELSE [err |-> 0, len |-> 0]
      /\ Decoded("header", r.headers) = IF Placed(Plan.placement, "header") THEN x ELSE 0
      /\ Decoded("cookie", r.cookies) = IF Placed(Plan.placement, "cookie") THEN y ELSE 0
  BY DEF HeaderPart, CookiePart, HeaderPayload, CookiePayload, Decoded, H, K, x, y
<1>6. HeaderPart(r).len \in Nat /\ CookiePart(r).len \in Nat
  BY <1>2, <1>3, <1>5
<1>7. IsSeq(Outside(r)) /\ Len(Outside(r)) = HeaderPart(r).len + CookiePart(r).len
  <2> DEFINE a == Bytes("header", HeaderPart(r).len)
             b == Bytes("cookie", CookiePart(r).len)
  <2>1. IsSeq(a) /\ Len(a) = HeaderPart(r).len /\ IsSeq(b) /\ Len(b) = CookiePart(r).len
    BY <1>6, BytesSeq
  <2> HIDE DEF a, b
  <2>2. IsSeq(a \o b) /\ Len(a \o b) = Len(a) + Len(b)
    BY <2>1, SeqConcat
  <2> QED
    BY <2>1, <2>2 DEF Outside, a, b
<1>8. Decoded("header", r.headers) \in Nat /\ Decoded("cookie", r.cookies) \in Nat
  BY <1>4, <1>5
<1>9. /\ HeaderPart(r).err = 0 => HeaderPart(r).len = Decoded("header", r.headers)
      /\ r.alphabet /\ Formed(r.headers) /\ Decoded("header", r.headers) <= MaxPost
              => HeaderPart(r).err = 0
  BY <1>2, <1>5
<1>10. /\ CookiePart(r).err = 0 => CookiePart(r).len = Decoded("cookie", r.cookies)
       /\ r.alphabet /\ Formed(r.cookies) /\ Decoded("cookie", r.cookies) <= MaxPost
              => CookiePart(r).err = 0
  BY <1>3, <1>5
<1> QED
  BY <1>6, <1>7, <1>8, <1>9, <1>10

\* A proper upload is within the limit in each of its parts.
LEMMA ProperParts ==
  ASSUME scen \in DOMAIN Scenarios, NEW q, q.r \in Plan.requests, SumFrames(q) \in Nat, Proper(q)
  PROVE  /\ HeaderPart(q.r).err = 0 /\ CookiePart(q.r).err = 0 /\ q.r.hint <= MaxPost
         /\ Len(Outside(q.r)) + SumFrames(q) <= MaxPost
<1> DEFINE x == Decoded("header", q.r.headers)
           y == Decoded("cookie", q.r.cookies)
           z == SumFrames(q)
<1>1. x \in Nat /\ y \in Nat /\ MaxPost \in Nat
  BY PartsFacts, OriginAssumption
<1>2. x + y + z <= MaxPost /\ q.r.alphabet /\ Formed(q.r.headers) /\ Formed(q.r.cookies)
  BY DEF Proper
<1>3. x <= MaxPost /\ y <= MaxPost
  <2> HIDE DEF x, y, z
  <2>1. z \in Nat
    BY DEF z
  <2> QED
    BY <1>1, <1>2, <2>1
<1>4. HeaderPart(q.r).err = 0 /\ CookiePart(q.r).err = 0
  BY <1>2, <1>3, PartsFacts
<1>5. Len(Outside(q.r)) = x + y
  BY <1>4, PartsFacts
<1>6. q.r.hint <= MaxPost
  BY DEF Proper
<1> QED
  BY <1>2, <1>4, <1>5, <1>6

\* A payload with n bytes of body after it.
LEMMA WithBody ==
  ASSUME scen \in DOMAIN Scenarios, NEW r \in Plan.requests, NEW n \in Nat
  PROVE  /\ Len(Outside(r) \o Bytes("body", n)) = Len(Outside(r)) + n
         /\ Len(Outside(r)) \in Nat
         /\ Outside(r) \o Bytes("body", 0) = Outside(r)
<1> DEFINE s == Outside(r)
           b == Bytes("body", n)
           e == Bytes("body", 0)
<1>1. IsSeq(s) /\ Len(s) \in Nat
  BY PartsFacts
<1>2. 0 \in Nat
  OBVIOUS
<1>3. IsSeq(b) /\ Len(b) = n /\ IsSeq(e) /\ Len(e) = 0
  BY <1>2, BytesSeq
<1> HIDE DEF s, b, e
<1>4. Len(s \o b) = Len(s) + n
  BY <1>1, <1>3, SeqConcat
<1>5. IsSeq(s \o e) /\ Len(s \o e) = Len(s) + 0
      /\ \A i \in 1 .. Len(s \o e) :
              \/ i \in 1 .. Len(s) /\ (s \o e)[i] = s[i]
              \/ i - Len(s) \in 1 .. Len(e) /\ (s \o e)[i] = e[i - Len(s)]
  BY <1>1, <1>3, SeqConcat
<1> DEFINE t == s \o e
<1>6. Len(t) = Len(s) /\ \A i \in 1 .. Len(t) : t[i] = s[i]
  BY <1>1, <1>3, <1>5
<1>7. IsSeq(t)
  BY <1>5
<1> HIDE DEF t
<1>8. t = s
  BY <1>1, <1>6, <1>7, SeqSame
<1> QED
  BY <1>1, <1>4, <1>8 DEF s, b, e, t


-------------------------------------------------------------------------------
(* The steps of a request.                                                   *)

\* An answer, as fields.
LEMMA AnswerView ==
  ASSUME NEW q, DOMAIN q = Fields, NEW status
  PROVE  /\ DOMAIN XAnswer(q, status) = Fields
         /\ XAnswer(q, status).at = "done" /\ XAnswer(q, status).reply.status = status
         /\ \A f \in Fields \ {"at", "reply"} : XAnswer(q, status)[f] = q[f]
  BY DEF XAnswer, Answer, Fields

\* A refusal for what is not proper.
LEMMA Refused ==
  ASSUME NEW q, DOMAIN q = Fields, q.kind = "upload", q.r \in Plan.requests,
         q.frames \in Seq(Nat), ~q.pushed, ~Proper(q), NEW status
  PROVE  RequestOk(XAnswer(q, status))
<1> DEFINE a == XAnswer(q, status)
<1>1. /\ DOMAIN a = Fields /\ a.at = "done" /\ a.r = q.r /\ a.frames = q.frames
      /\ a.pushed = q.pushed /\ a.broken = q.broken /\ a.kind = q.kind
  BY AnswerView DEF Fields
<1> HIDE DEF a
<1>2. ~Proper(a)
  BY <1>1 DEF Proper, SumFrames
<1>3. UploadOk(a)
  BY <1>1, <1>2 DEF UploadOk
<1> QED
  BY <1>1, <1>3 DEF RequestOk, a

\* finish_upload: what is collected is pushed as a whole, or is too large.
LEMMA Finished ==
  ASSUME scen \in DOMAIN Scenarios, NEW q, DOMAIN q = Fields, q.kind = "upload",
         q.r \in Plan.requests, q.frames \in Seq(Nat), ~q.pushed, q.reply.status = 0,
         SumFrames(q) \in Nat, NEW payload, payload = Outside(q.r) \o Bytes("body", SumFrames(q))
  PROVE  RequestOk(Finish(q, payload))
<1>1. Len(payload) = Len(Outside(q.r)) + SumFrames(q) /\ Len(Outside(q.r)) \in Nat
  BY WithBody
<1>2. MaxPost \in Nat
  BY OriginAssumption
<1>3. CASE Len(payload) > MaxPost
  <2>1. ~Proper(q)
    BY <1>1, <1>2, <1>3, ProperParts
  <2>2. RequestOk(XAnswer(q, 413))
    BY <2>1, Refused
  <2> QED
    BY <1>3, <2>2 DEF Finish
<1>4. CASE ~(Len(payload) > MaxPost)
  <2> DEFINE n == Finish(q, payload)
  <2>1. /\ DOMAIN n = Fields /\ n.at = "push" /\ n.payload = payload
        /\ n.r = q.r /\ n.kind = q.kind /\ n.frames = q.frames /\ n.pushed = q.pushed
        /\ n.reply = q.reply
    BY <1>4 DEF Finish, Fields
  <2> HIDE DEF n
  <2>2. Len(payload) <= MaxPost
    BY <1>1, <1>2, <1>4
  <2>3. SumFrames(n) = SumFrames(q)
    BY <2>1 DEF SumFrames
  <2>4. UploadOk(n)
    BY <2>1, <2>2, <2>3 DEF UploadOk
  <2> QED
    BY <2>1, <2>4 DEF RequestOk, n
<1> QED
  BY <1>3, <1>4

\* A new handler has read nothing.
LEMMA NewView ==
  ASSUME NEW r
  PROVE  LET q == NewHandler(r)
         IN /\ DOMAIN q = Fields /\ q.r = r /\ q.kind = Route(r) /\ q.frames = <<>>
            /\ q.pushed = FALSE /\ q.reply.status = 0 /\ q.body = <<>>
            /\ q.frames \in Seq(Nat) /\ SumFrames(q) = 0
<1> DEFINE q == NewHandler(r)
<1>1. /\ DOMAIN q = Fields /\ q.r = r /\ q.kind = Route(r) /\ q.frames = <<>>
      /\ q.pushed = FALSE /\ q.reply.status = 0 /\ q.body = <<>>
  BY DEF NewHandler, Fields
<1> HIDE DEF q
<1>2. Total(<<>>, 1 .. Len(<<>>)) = 0
  <2>1. \A x \in 1 .. Len(<<>>) : FALSE
    OBVIOUS
  <2> QED
    BY <2>1, TotalZero
<1>3. SumFrames(q) = 0
  BY <1>1, <1>2 DEF SumFrames
<1>4. q.frames \in Seq(Nat)
  BY <1>1
<1> QED
  BY <1>1, <1>3, <1>4 DEF q

\* upload, up to its first await.
LEMMA UploadBegins ==
  ASSUME scen \in DOMAIN Scenarios, NEW r \in Plan.requests, Route(r) = "upload"
  PROVE  RequestOk(Upload(NewHandler(r)))
<1> DEFINE q == NewHandler(r)
           h == HeaderPart(r)
           k == CookiePart(r)
           payload == Outside(r)
<1>1. /\ DOMAIN q = Fields /\ q.r = r /\ q.kind = "upload" /\ q.frames = <<>>
      /\ q.pushed = FALSE /\ q.reply.status = 0 /\ q.body = <<>>
      /\ q.frames \in Seq(Nat) /\ SumFrames(q) = 0
  BY NewView
<1> HIDE DEF q
<1>2. Upload(q) = CASE h.err # 0 -> XAnswer(q, h.err)
                    [] h.err = 0 /\ k.err # 0 -> XAnswer(q, k.err)
                    [] h.err = 0 /\ k.err = 0 ->
                         IF ~Placed(Plan.placement, "body") THEN Finish(q, payload)
                         ELSE IF q.r.hint > MaxPost THEN XAnswer(q, 413)
                         ELSE [q EXCEPT !.at = "body", !.payload = payload]
  BY <1>1 DEF Upload, HeaderPart, CookiePart, Outside
<1> SUFFICES RequestOk(Upload(q))
  BY DEF q
<1>3. SumFrames(q) \in Nat /\ Outside(r) \o Bytes("body", 0) = Outside(r) /\ MaxPost \in Nat
  <2>1. 0 \in Nat
    OBVIOUS
  <2> QED
    BY <1>1, <2>1, WithBody, OriginAssumption
<1> HIDE DEF h, k, payload
<1>4. CASE h.err # 0
  <2>1. ~Proper(q)
    BY <1>1, <1>3, <1>4, ProperParts DEF h
  <2>2. Upload(q) = XAnswer(q, h.err)
    BY <1>2, <1>4
  <2>3. \A status : RequestOk(XAnswer(q, status))
    BY <1>1, <2>1, Refused
  <2> QED
    BY <2>2, <2>3
<1>5. CASE h.err = 0 /\ k.err # 0
  <2>1. ~Proper(q)
    BY <1>1, <1>3, <1>5, ProperParts DEF k
  <2>2. Upload(q) = XAnswer(q, k.err)
    BY <1>2, <1>5
  <2>3. \A status : RequestOk(XAnswer(q, status))
    BY <1>1, <2>1, Refused
  <2> QED
    BY <2>2, <2>3
<1>6. CASE h.err = 0 /\ k.err = 0
  <2>1. CASE ~Placed(Plan.placement, "body")
    <3>1. Upload(q) = Finish(q, payload)
      BY <1>2, <1>6, <2>1
    <3>2. payload = Outside(q.r) \o Bytes("body", SumFrames(q))
      BY <1>1, <1>3 DEF payload
    <3> QED
      BY <1>1, <1>3, <3>1, <3>2, Finished
  <2>2. CASE Placed(Plan.placement, "body") /\ q.r.hint > MaxPost
    <3>1. Upload(q) = XAnswer(q, 413)
      BY <1>2, <1>6, <2>2
    <3>2. q.r.hint \in Int
      BY <1>1, RequestAssumed
    <3>3. ~Proper(q)
      BY <1>1, <1>3, <2>2, <3>2, ProperParts
    <3>4. \A status : RequestOk(XAnswer(q, status))
      BY <1>1, <3>3, Refused
    <3> QED
      BY <3>1, <3>4
  <2>3. CASE Placed(Plan.placement, "body") /\ ~(q.r.hint > MaxPost)
    <3> DEFINE n == Upload(q)
    <3>1. n = [q EXCEPT !.at = "body", !.payload = payload]
      BY <1>2, <1>6, <2>3
    <3>2. /\ DOMAIN n = Fields /\ n.at = "body" /\ n.payload = payload /\ n.r = q.r
          /\ n.kind = q.kind /\ n.frames = q.frames /\ n.pushed = q.pushed /\ n.reply = q.reply
          /\ n.body = q.body
      BY <1>1, <3>1 DEF Fields
    <3> HIDE DEF n
    <3>3. Bytes("body", 0) = <<>>
      <4>1. 0 \in Nat
        OBVIOUS
      <4>2. IsSeq(Bytes("body", 0)) /\ Len(Bytes("body", 0)) = 0
        BY <4>1, BytesSeq
      <4> QED
        BY <4>2, SeqEmpty
    <3>4. SumFrames(n) = 0
      BY <1>1, <3>2 DEF SumFrames
    <3>5. UploadOk(n)
      BY <1>1, <1>6, <3>2, <3>3, <3>4 DEF UploadOk, h, k, payload
    <3> QED
      BY <1>1, <3>2, <3>5 DEF RequestOk, n
  <2> QED
    BY <2>1, <2>2, <2>3
<1> QED
  BY <1>4, <1>5, <1>6

LEMMA HandleOk ==
  ASSUME Handled, NEW c \in Conns, Handle(c)
  PROVE  RequestOk(req'[c])
<1>1. PICK r \in Plan.requests :
       LET q == NewHandler(r)
       IN \/ q.kind = "too_large" /\ Becomes(c, Answer(q, 431, FALSE))
          \/ q.kind = "health" /\ Becomes(c, [Answer(q, 200, FALSE) EXCEPT !.reply.body = TRUE])
          \/ q.kind = "site" /\ Becomes(c, [q EXCEPT !.at = "done", !.reply = SiteReply(r)])
          \/ q.kind = "options" /\ Becomes(c, XAnswer(q, 200))
          \/ q.kind = "unsupported" /\ Becomes(c, XAnswer(q, 500))
          \/ q.kind \in {"stream_up", "stream_one"} /\ Becomes(c, XAnswer(q, 400))
          \/ q.kind = "upload" /\ Becomes(c, Upload(q))
          \/ q.kind = "download"
               /\ \/ Becomes(c, [XAnswer(q, 200) EXCEPT !.at = "stream", !.opened = TRUE,
                                                     !.reply.body = TRUE])
                  \/ \E status \in {409, 503} : Becomes(c, XAnswer(q, status))
  BY DEF Handle
<1> DEFINE q == NewHandler(r)
<1>2. DOMAIN q = Fields /\ q.r = r /\ q.kind = Route(r) /\ q.pushed = FALSE
  BY NewView
<1>3. DOMAIN req = Conns /\ scen \in DOMAIN Scenarios
  BY DEF Handled
<1> HIDE DEF q
<1>4. CASE q.kind = "upload" /\ Becomes(c, Upload(q))
  <2>1. req'[c] = Upload(q)
    BY <1>3, <1>4 DEF Becomes
  <2> QED
    BY <1>2, <1>3, <1>4, <2>1, UploadBegins DEF q
<1>5. ASSUME NEW n, req'[c] = n, DOMAIN n = Fields, n.r = q.r, n.kind = q.kind,
             n.pushed = q.pushed, n.at \in {"done", "stream"}, q.kind # "upload"
      PROVE  RequestOk(req'[c])
  BY <1>2, <1>5 DEF RequestOk
<1>6. CASE q.kind = "too_large" /\ Becomes(c, Answer(q, 431, FALSE))
  <2> DEFINE n == Answer(q, 431, FALSE)
  <2>1. /\ DOMAIN n = Fields /\ n.r = q.r /\ n.kind = q.kind /\ n.pushed = q.pushed
        /\ n.at \in {"done", "stream"}
    BY <1>2 DEF Answer, Fields
  <2> QED
    BY <1>3, <1>5, <1>6, <2>1, ZenonT(60) DEF Becomes
<1>7. CASE q.kind = "health" /\ Becomes(c, [Answer(q, 200, FALSE) EXCEPT !.reply.body = TRUE])
  <2> DEFINE a == Answer(q, 200, FALSE)
             n == [a EXCEPT !.reply.body = TRUE]
  <2>1. DOMAIN a = Fields /\ a.r = q.r /\ a.kind = q.kind /\ a.pushed = q.pushed /\ a.at = "done"
    BY <1>2 DEF Answer, Fields
  <2>2. req'[c] = n
    BY <1>3, <1>7 DEF Becomes
  <2> HIDE DEF a
  <2>3. DOMAIN n = Fields /\ n.r = q.r /\ n.kind = q.kind /\ n.pushed = q.pushed /\ n.at = "done"
    BY <2>1 DEF Fields
  <2> HIDE DEF n
  <2> QED
    BY <1>5, <1>7, <2>2, <2>3
<1>8. CASE q.kind = "site" /\ Becomes(c, [q EXCEPT !.at = "done", !.reply = SiteReply(r)])
  <2> DEFINE n == [q EXCEPT !.at = "done", !.reply = SiteReply(r)]
  <2>1. /\ DOMAIN n = Fields /\ n.r = q.r /\ n.kind = q.kind /\ n.pushed = q.pushed
        /\ n.at \in {"done", "stream"}
    BY <1>2 DEF Fields
  <2>2. req'[c] = n
    BY <1>3, <1>8 DEF Becomes
  <2> HIDE DEF n
  <2> QED
    BY <1>5, <1>8, <2>1, <2>2
<1>9. ASSUME NEW status, q.kind # "upload", Becomes(c, XAnswer(q, status)) PROVE RequestOk(req'[c])
  <2> DEFINE n == XAnswer(q, status)
  <2>1. /\ DOMAIN n = Fields /\ n.r = q.r /\ n.kind = q.kind /\ n.pushed = q.pushed
        /\ n.at \in {"done", "stream"}
    BY <1>2, AnswerView DEF Fields
  <2>2. req'[c] = n
    BY <1>3, <1>9 DEF Becomes
  <2> HIDE DEF n
  <2> QED
    BY <1>5, <1>9, <2>1, <2>2
<1>10. CASE /\ q.kind = "download"
            /\ Becomes(c, [XAnswer(q, 200) EXCEPT !.at = "stream", !.opened = TRUE, !.reply.body = TRUE])
  <2> DEFINE a == XAnswer(q, 200)
             n == [a EXCEPT !.at = "stream", !.opened = TRUE, !.reply.body = TRUE]
  <2>1. DOMAIN a = Fields /\ a.r = q.r /\ a.kind = q.kind /\ a.pushed = q.pushed /\ a.at = "done"
    BY <1>2, AnswerView DEF Fields
  <2>2. req'[c] = n
    BY <1>3, <1>10 DEF Becomes
  <2> HIDE DEF a
  <2>3. DOMAIN n = Fields /\ n.r = q.r /\ n.kind = q.kind /\ n.pushed = q.pushed /\ n.at = "stream"
    BY <2>1 DEF Fields
  <2> HIDE DEF n
  <2> QED
    BY <1>5, <1>10, <2>2, <2>3
<1>11. CASE q.kind = "options" /\ Becomes(c, XAnswer(q, 200))
  BY <1>9, <1>11
<1>12. CASE q.kind = "unsupported" /\ Becomes(c, XAnswer(q, 500))
  BY <1>9, <1>12
<1>13. CASE q.kind \in {"stream_up", "stream_one"} /\ Becomes(c, XAnswer(q, 400))
  <2>1. q.kind # "upload"
    BY <1>13
  <2> QED
    BY <1>9, <1>13, <2>1
<1>14. CASE q.kind = "download" /\ \E status \in {409, 503} : Becomes(c, XAnswer(q, status))
  <2>1. q.kind # "upload"
    BY <1>14
  <2>2. PICK status \in {409, 503} : Becomes(c, XAnswer(q, status))
    BY <1>14
  <2> QED
    BY <1>9, <2>1, <2>2
<1> QED
  BY <1>1, <1>4, <1>6, <1>7, <1>8, <1>10, <1>11, <1>12, <1>13, <1>14, ZenonT(60) DEF q


\* The handler's step, as a value.
LEMMA HandlerStepView ==
  ASSUME Handled, NEW c \in Conns, NEW at, NEW n, HandlerStep(c, at, n)
  PROVE  req[c].at = at /\ req'[c] = n
  BY DEF Handled, HandlerStep, Becomes

\* What is known of an upload that waits for its body.
LEMMA WaitsForBody ==
  ASSUME Handled, NEW c \in Conns, req[c].at = "body"
  PROVE  LET q == req[c]
         IN /\ DOMAIN q = Fields /\ q.r \in Plan.requests /\ q.kind = "upload" /\ UploadOk(q)
            /\ q.frames \in Seq(Nat) /\ ~q.pushed /\ q.reply.status = 0 /\ SumFrames(q) \in Nat
            /\ q.payload = Outside(q.r) /\ q.body = Bytes("body", SumFrames(q))
<1> DEFINE q == req[c]
<1>1. RequestOk(q)
  BY DEF Handled
<1>2. DOMAIN q = Fields /\ q.r \in Plan.requests /\ q.kind = "upload" /\ UploadOk(q)
  BY <1>1 DEF RequestOk
<1>3. /\ q.frames \in Seq(Nat) /\ ~q.pushed /\ q.reply.status = 0
      /\ q.payload = Outside(q.r) /\ q.body = Bytes("body", SumFrames(q))
  BY <1>2 DEF UploadOk
<1>4. SumFrames(q) \in Nat
  <2>1. 0 \in Nat
    OBVIOUS
  <2>2. Total(q.frames, 1 .. Len(q.frames)) \in Nat
    BY <1>3, <2>1, FramesAppend
  <2> QED
    BY <2>2 DEF SumFrames
<1> QED
  BY <1>2, <1>3, <1>4

\* One frame of read_body_payload.
LEMMA BodyFrameOk ==
  ASSUME Handled, NEW c \in Conns, NEW n \in Nat, BodyFrame(c, n)
  PROVE  RequestOk(req'[c])
<1> DEFINE q == req[c]
           m == SumFrames(q)
           read == [q EXCEPT !.frames = Append(@, n)]
           data == [i \in 1 .. n |-> <<"body", m + i>>]
           next == [read EXCEPT !.body = IF n = 0 THEN @ ELSE Collected(@, data)]
<1>1. q.at = "body" /\ HandlerStep(c, "body", IF m + n > MaxPost THEN XAnswer(read, 413) ELSE next)
  BY DEF BodyFrame
<1>2. req'[c] = IF m + n > MaxPost THEN XAnswer(read, 413) ELSE next
  <2> HIDE DEF next, read
  <2> QED
    BY <1>1, HandlerStepView
<1>3. /\ DOMAIN q = Fields /\ q.r \in Plan.requests /\ q.kind = "upload" /\ UploadOk(q)
      /\ q.frames \in Seq(Nat) /\ ~q.pushed /\ q.reply.status = 0 /\ m \in Nat
      /\ q.payload = Outside(q.r) /\ q.body = Bytes("body", m)
  BY <1>1, WaitsForBody
<1>4. scen \in DOMAIN Scenarios /\ MaxPost \in Nat
  BY OriginAssumption DEF Handled
<1> HIDE DEF q
<1>5. /\ DOMAIN read = Fields /\ read.r = q.r /\ read.kind = q.kind /\ read.pushed = q.pushed
      /\ read.reply = q.reply /\ read.at = q.at /\ read.payload = q.payload /\ read.body = q.body
      /\ read.frames = Append(q.frames, n)
  BY <1>3 DEF Fields
<1> HIDE DEF read, m
<1>6. read.frames \in Seq(Nat) /\ SumFrames(read) = m + n
  <2>1. /\ Append(q.frames, n) \in Seq(Nat)
        /\ Total(Append(q.frames, n), 1 .. Len(Append(q.frames, n)))
             = Total(q.frames, 1 .. Len(q.frames)) + n
    BY <1>3, FramesAppend
  <2> QED
    BY <1>5, <2>1 DEF SumFrames, m
<1>7. CASE m + n > MaxPost
  <2>1. m + n \in Nat /\ Len(Outside(read.r)) \in Nat
    BY <1>3, <1>4, <1>5, WithBody
  <2>2. ~Proper(read)
    BY <1>3, <1>4, <1>5, <1>6, <1>7, <2>1, ProperParts
  <2>3. read.kind = "upload" /\ read.r \in Plan.requests /\ ~read.pushed
    BY <1>3, <1>5
  <2>4. RequestOk(XAnswer(read, 413))
    BY <1>5, <1>6, <2>2, <2>3, Refused, ZenonT(60)
  <2> QED
    BY <1>2, <1>7, <2>4
<1>8. CASE ~(m + n > MaxPost)
  <2>1. /\ DOMAIN next = Fields /\ next.r = q.r /\ next.kind = q.kind /\ next.pushed = q.pushed
        /\ next.reply = q.reply /\ next.at = q.at /\ next.payload = q.payload
        /\ next.frames = read.frames
        /\ next.body = IF n = 0 THEN q.body ELSE Collected(q.body, data)
    <3> HIDE DEF data
    <3> QED
      BY <1>5 DEF Fields
  <2>2. Collected(Bytes("body", m), data) = Bytes("body", m + n)
    BY <1>3, BodyGrows
  <2> HIDE DEF next, data
  <2>3. next.body = Bytes("body", m + n)
    <3>1. CASE n = 0
      <4>1. m + n = m
        BY <1>3, <3>1
      <4> QED
        BY <1>3, <2>1, <3>1, <4>1
    <3>2. CASE n # 0
      BY <1>3, <2>1, <2>2, <3>2
    <3> QED
      BY <3>1, <3>2
  <2>4. SumFrames(next) = m + n
    BY <1>6, <2>1 DEF SumFrames
  <2>5. HeaderPart(q.r).err = 0 /\ CookiePart(q.r).err = 0
    BY <1>1, <1>3 DEF UploadOk, q
  <2>6. UploadOk(next)
    BY <1>1, <1>3, <1>6, <2>1, <2>3, <2>4, <2>5 DEF UploadOk, q
  <2> QED
    BY <1>2, <1>3, <1>8, <2>1, <2>6 DEF RequestOk
<1> QED
  BY <1>7, <1>8

\* The body ends, or fails.
LEMMA BodyOverOk ==
  ASSUME Handled, NEW c \in Conns, BodyEnd(c) \/ BodyError(c)
  PROVE  RequestOk(req'[c])
<1> DEFINE q == req[c]
<1>1. q.at = "body" /\ scen \in DOMAIN Scenarios
  BY DEF BodyEnd, BodyError, Handled
<1>2. /\ DOMAIN q = Fields /\ q.r \in Plan.requests /\ q.kind = "upload" /\ UploadOk(q)
      /\ q.frames \in Seq(Nat) /\ ~q.pushed /\ q.reply.status = 0 /\ SumFrames(q) \in Nat
      /\ q.payload = Outside(q.r) /\ q.body = Bytes("body", SumFrames(q))
  BY <1>1, WaitsForBody
<1>3. CASE BodyEnd(c)
  <2>1. req'[c] = Finish(q, q.payload \o q.body)
    BY <1>3, HandlerStepView DEF BodyEnd
  <2> HIDE DEF q
  <2>2. RequestOk(Finish(q, q.payload \o q.body))
    BY <1>1, <1>2, Finished
  <2> QED
    BY <2>1, <2>2
<1>4. CASE BodyError(c)
  <2> DEFINE a == XAnswer(q, 400)
             n == [a EXCEPT !.broken = TRUE]
  <2>1. req'[c] = n
    BY <1>4, HandlerStepView DEF BodyError
  <2> HIDE DEF q
  <2>2. /\ DOMAIN a = Fields /\ a.at = "done" /\ a.r = q.r /\ a.kind = q.kind
        /\ a.frames = q.frames /\ a.pushed = q.pushed
    BY <1>2, AnswerView DEF Fields
  <2> HIDE DEF a
  <2>3. /\ DOMAIN n = Fields /\ n.at = "done" /\ n.r = q.r /\ n.kind = q.kind
        /\ n.frames = q.frames /\ n.pushed = q.pushed /\ n.broken = TRUE
    BY <2>2 DEF Fields
  <2> HIDE DEF n
  <2>4. ~Proper(n)
    BY <2>3 DEF Proper
  <2>5. UploadOk(n)
    BY <1>2, <2>3, <2>4 DEF UploadOk
  <2> QED
    BY <1>2, <2>1, <2>3, <2>5 DEF RequestOk
<1> QED
  BY <1>3, <1>4

\* finish_upload after the push.
LEMMA PushOk ==
  ASSUME Handled, NEW c \in Conns, NEW result \in DOMAIN PushStatus, Push(c, result)
  PROVE  RequestOk(req'[c])
<1> DEFINE q == req[c]
           a == XAnswer(q, PushStatus[result])
           n == [a EXCEPT !.pushed = TRUE, !.removed = (result = "too_many")]
<1>1. q.at = "push" /\ req'[c] = n
  BY HandlerStepView DEF Push
<1>2. RequestOk(q)
  BY <1>1 DEF Handled
<1>3. DOMAIN q = Fields /\ q.r \in Plan.requests /\ q.kind = "upload" /\ UploadOk(q)
  BY <1>1, <1>2 DEF RequestOk
<1>4. PushStatus[result] \notin {400, 413}
  BY DEF PushStatus
<1> HIDE DEF q
<1>5. /\ DOMAIN a = Fields /\ a.at = "done" /\ a.reply.status = PushStatus[result] /\ a.r = q.r
      /\ a.kind = q.kind /\ a.frames = q.frames /\ a.payload = q.payload
  BY <1>3, AnswerView DEF Fields
<1> HIDE DEF a
<1>6. /\ DOMAIN n = Fields /\ n.at = "done" /\ n.reply = a.reply /\ n.r = q.r
      /\ n.kind = q.kind /\ n.frames = q.frames /\ n.payload = q.payload
  BY <1>5 DEF Fields
<1> HIDE DEF n
<1>7. SumFrames(n) = SumFrames(q)
  BY <1>6 DEF SumFrames
<1>8. UploadOk(n)
  BY <1>1, <1>3, <1>4, <1>5, <1>6, <1>7 DEF UploadOk, q
<1> QED
  BY <1>1, <1>3, <1>6, <1>8 DEF RequestOk

\* A handler that is dropped, or whose download is over.
LEMMA DroppedOk ==
  ASSUME NEW q, RequestOk(q), q.at # "done"
  PROVE  RequestOk(Dropped(q))
<1> DEFINE n == Dropped(q)
<1>1. /\ DOMAIN n = Fields /\ n.at = "done" /\ n.r = q.r /\ n.kind = q.kind
      /\ n.frames = q.frames /\ n.payload = q.payload /\ n.pushed = q.pushed /\ n.reply = q.reply
  BY DEF RequestOk, Dropped, Fields
<1> HIDE DEF n
<1>2. CASE q.kind = "upload"
  <2>1. UploadOk(q)
    BY <1>2 DEF RequestOk
  <2>2. UploadOk(n)
    BY <1>1, <2>1 DEF UploadOk
  <2> QED
    BY <1>1, <1>2, <2>2 DEF RequestOk, n
<1>3. CASE q.kind # "upload"
  BY <1>1, <1>3 DEF RequestOk, n
<1> QED
  BY <1>2, <1>3

\* What a step does to the requests: it leaves them alone, drops one, or is a step
\* of one handler.
Drops(c) == req[c].at \notin {"none", "done"} /\ req'[c] = Dropped(req[c])
Same == scen' = scen /\ DOMAIN req' = Conns /\ \A d \in Conns : req'[d] = req[d]
Kept(c) == /\ scen' = scen /\ DOMAIN req' = Conns
           /\ \A d \in Conns \ {c} : req'[d] = req[d]

LEMMA RequestSteps ==
  ASSUME Handled, [Next]_vars
  PROVE  \/ Same
         \/ \E c \in Conns :
              /\ Kept(c)
              /\ \/ Drops(c) \/ Handle(c) \/ BodyEnd(c) \/ BodyError(c)
                 \/ \E n \in 0 .. MaxPost + 1 : BodyFrame(c, n)
                 \/ \E result \in DOMAIN PushStatus : Push(c, result)
<1> DEFINE Goal(c) == /\ Kept(c)
                      /\ \/ Drops(c) \/ Handle(c) \/ BodyEnd(c) \/ BodyError(c)
                         \/ \E n \in 0 .. MaxPost + 1 : BodyFrame(c, n)
                         \/ \E result \in DOMAIN PushStatus : Push(c, result)
<1>1. DOMAIN req = Conns
  BY DEF Handled
<1>2. CASE UNCHANGED vars
  BY <1>1, <1>2 DEF vars, Same
<1>3. CASE \/ AcceptTransient \/ BackoffOver \/ AcceptFatal \/ Signal \/ Shutdown \/ Drained
           \/ Deadline \/ Reload
  BY <1>1, <1>3 DEF Same, AcceptTransient, BackoffOver, AcceptFatal, Signal, Shutdown, Drained, Deadline,
              Reload, LoopTo
<1>4. ASSUME NEW c \in Conns, ConnStep(c)
      PROVE  Same \/ Goal(c)
  <2>0. CASE scen' = scen /\ req' = req
    BY <1>1, <2>0 DEF Same
  <2>1. CASE TaskEnds(c)
    <3>1. /\ scen' = scen /\ DOMAIN req' = Conns /\ \A d \in Conns \ {c} : req'[d] = req[d]
          /\ req'[c] = req[c] \/ (Handling(c) /\ req'[c] = Dropped(req[c]))
      BY <1>1, <2>1 DEF TaskEnds
    <3> QED
      BY <3>1 DEF Same, Kept, Drops, Handling
  <2>2. CASE Connect(c) \/ Accept(c) \/ Join(c) \/ ClientHandshake(c) \/ ClientRecord(c)
               \/ SocketDown(c) \/ \E k \in 0 .. Len(lane[c]) : ClientEof(c, k)
    <3>1. scen' = scen /\ req' = req
      BY <2>2 DEF Connect, Accept, Join, LoopTo, ClientHandshake, ClientRecord, SocketDown,
                  ClientEof, Sends
    <3> QED
      BY <2>0, <3>1
  <2>3. CASE Cancelled(c) \/ HandshakeTimeout(c) \/ ConnectionOver(c) \/ HandshakeEof(c)
    BY <2>1, <2>3 DEF Cancelled, HandshakeTimeout, ConnectionOver, HandshakeEof
  <2>4. CASE HandlerReset(c)
    BY <1>1, <2>4 DEF HandlerReset, Kept, Drops, Handling
  <2>5. CASE ReadHello(c) \/ Prepare(c) \/ SendFlight(c) \/ ReadFinished(c)
    <3>1. TaskEnds(c) \/ (scen' = scen /\ req' = req)
      BY <2>5 DEF ReadHello, Prepare, SendFlight, ReadFinished, GoesOn
    <3> QED
      BY <2>0, <2>1, <3>1
  <2>6. CASE \/ \E n \in 1 .. 2 : PollReadPlain(c, n)
             \/ PollReadHeader(c) \/ PollReadRecord(c) \/ PollReadEof(c)
             \/ \E k \in 1 .. Len(lane[c]) : PollReadFill(c, k)
    <3>1. scen' = scen /\ req' = req
      BY <2>6 DEF PollReadPlain, PollReadHeader, PollReadRecord, PollReadEof, PollReadFill,
                  ReadKeeps
    <3> QED
      BY <2>0, <3>1
  <2>7. CASE \/ \E n \in 1 .. MaxApp + 1 : PollWrite(c, n)
             \/ PollStuck(c) \/ PollFlush(c) \/ PollShutdown(c)
    <3>1. scen' = scen /\ req' = req
      BY <2>7 DEF PollWrite, PollStuck, PollFlush, PollShutdown, WriteKeeps
    <3> QED
      BY <2>0, <3>1
  <2>8. CASE \/ Handle(c) \/ BodyEnd(c) \/ BodyError(c)
             \/ \E n \in 0 .. MaxPost + 1 : BodyFrame(c, n)
             \/ \E result \in DOMAIN PushStatus : Push(c, result)
    <3>1. HandlerKeeps /\ \E n : Becomes(c, n)
      BY <2>8, ZenonT(60) DEF Handle, BodyEnd, BodyError, BodyFrame, Push, HandlerStep
    <3>2. Kept(c)
      BY <1>1, <3>1 DEF Kept, HandlerKeeps, Becomes
    <3> QED
      BY <2>8, <3>2
  <2>9. CASE DownloadOver(c)
    BY <1>1, <2>9 DEF DownloadOver, HandlerStep, HandlerKeeps, Becomes, Kept, Drops, Handling
  <2> QED
    BY <1>4, <2>2, <2>3, <2>4, <2>5, <2>6, <2>7, <2>8, <2>9 DEF ConnStep
<1> QED
  BY <1>2, <1>3, <1>4 DEF Next

LEMMA HandledStep ==
  ASSUME Handled, [Next]_vars
  PROVE  Handled'
<1>0. ASSUME scen' = scen, NEW d \in Conns PROVE (RequestOk(req[d]))' <=> RequestOk(req'[d])
  BY <1>0 DEF RequestOk, UploadOk, HeaderPart, CookiePart, Outside, Proper, Decoded, Plan
<1>1. CASE Same
  <2>1. \A d \in Conns : req'[d].at # "none" => RequestOk(req'[d])
    BY <1>1 DEF Same, Handled
  <2>2. scen' = scen /\ DOMAIN req' = Conns
    BY <1>1 DEF Same
  <2> QED
    BY <1>0, <2>1, <2>2 DEF Handled
<1>2. ASSUME NEW c \in Conns, Kept(c),
             \/ Drops(c) \/ Handle(c) \/ BodyEnd(c) \/ BodyError(c)
             \/ \E n \in 0 .. MaxPost + 1 : BodyFrame(c, n)
             \/ \E result \in DOMAIN PushStatus : Push(c, result)
      PROVE  Handled'
  <2>1. RequestOk(req'[c])
    <3>1. CASE Drops(c)
      BY <3>1, DroppedOk DEF Drops, Handled
    <3>2. ASSUME NEW n \in 0 .. MaxPost + 1, BodyFrame(c, n) PROVE RequestOk(req'[c])
      BY <3>2, BodyFrameOk
    <3> QED
      BY <1>2, <3>1, <3>2, HandleOk, BodyOverOk, PushOk
  <2>2. \A d \in Conns : req'[d].at # "none" => RequestOk(req'[d])
    BY <1>2, <2>1 DEF Kept, Handled
  <2>3. scen' = scen /\ DOMAIN req' = Conns
    BY <1>2 DEF Kept
  <2> QED
    BY <1>0, <2>2, <2>3 DEF Handled
<1> QED
  BY <1>1, <1>2, RequestSteps

\* For any requests, placements and framings: what is pushed is the upload, header,
\* cookies and body in order and within the limit; and an upload that is
\* complete, well formed and within the limit is not refused.
THEOREM ServerUploadsExact == Spec => []UploadsExact
<1>1. Init => Handled
  BY DEF Init, Handled, NoRequest
<1>2. Handled => UploadsExact
  <2> SUFFICES ASSUME Handled PROVE UploadsExact
    OBVIOUS
  <2>1. ASSUME NEW c \in Conns,
               req[c].at = "push" \/ (req[c].at = "done" /\ req[c].pushed)
        PROVE  /\ req[c].payload = Outside(req[c].r) \o Bytes("body", SumFrames(req[c]))
               /\ Len(req[c].payload) <= MaxPost
    <3>1. RequestOk(req[c])
      BY <2>1 DEF Handled
    <3>2. UploadOk(req[c])
      BY <2>1, <3>1 DEF RequestOk
    <3> QED
      BY <2>1, <3>2 DEF UploadOk
  <2>2. UploadExact
    BY <2>1 DEF UploadExact, Outside, HeaderPart, CookiePart
  <2>3. NeverRefused
    BY DEF Handled, RequestOk, UploadOk, NeverRefused
  <2> QED
    BY <2>2, <2>3 DEF UploadsExact
<1>3. Handled /\ [Next]_vars => Handled'
  BY HandledStep
<1> QED
  BY <1>1, <1>2, <1>3, PTL DEF Spec

-------------------------------------------------------------------------------
(* Percent-decoding.  The function that percent_decoded_len computes from the end    *)
(* of a value is the one that counts escapes: two of them never overlap.             *)

Marks == {"%", "h", "x"}
EscapesFrom(v, i) == {j \in i .. Len(v) : Escape(v, j)}

\* The length from position i on.
LenFrom(v, i) == (Len(v) + 1 - i) - 2 * Cardinality(EscapesFrom(v, i))

LEMMA EscapesFinite ==
  ASSUME NEW v \in Seq(Marks), NEW i \in Nat
  PROVE  IsFiniteSet(EscapesFrom(v, i)) /\ Cardinality(EscapesFrom(v, i)) \in Nat
<1>1. IsFiniteSet(i .. Len(v))
  BY FS_Interval
<1>2. EscapesFrom(v, i) \subseteq i .. Len(v)
  BY DEF EscapesFrom
<1>3. IsFiniteSet(EscapesFrom(v, i))
  BY <1>1, <1>2, FS_Subset
<1> QED
  BY <1>3, FS_CardinalityType

LEMMA LenAtEnd ==
  ASSUME NEW v \in Seq(Marks)
  PROVE  LenFrom(v, Len(v) + 1) = 0
<1>1. EscapesFrom(v, Len(v) + 1) = {}
  BY DEF EscapesFrom
<1>2. Cardinality(EscapesFrom(v, Len(v) + 1)) = 0
  BY <1>1, FS_EmptySet
<1>3. Len(v) \in Nat
  OBVIOUS
<1> QED
  BY <1>2, <1>3 DEF LenFrom

LEMMA LenPlain ==
  ASSUME NEW v \in Seq(Marks), NEW i \in 1 .. Len(v), ~Escape(v, i)
  PROVE  LenFrom(v, i) = 1 + LenFrom(v, i + 1)
<1>1. EscapesFrom(v, i) = EscapesFrom(v, i + 1)
  BY DEF EscapesFrom
<1>2. Cardinality(EscapesFrom(v, i + 1)) \in Nat
  BY EscapesFinite
<1> QED
  BY <1>1, <1>2 DEF LenFrom

LEMMA LenEscape ==
  ASSUME NEW v \in Seq(Marks), NEW i \in 1 .. Len(v), Escape(v, i)
  PROVE  LenFrom(v, i) = 1 + LenFrom(v, i + 3) /\ i + 3 \in 1 .. Len(v) + 1
<1>1. i + 2 <= Len(v) /\ v[i + 1] = "h" /\ v[i + 2] = "h"
  BY DEF Escape
<1>2. ~Escape(v, i + 1) /\ ~Escape(v, i + 2)
  BY <1>1 DEF Escape
<1>3. ASSUME NEW j \in i .. Len(v), Escape(v, j) PROVE j = i \/ j \in i + 3 .. Len(v)
  <2>1. j # i + 1 /\ j # i + 2
    BY <1>2, <1>3
  <2> QED
    BY <2>1
<1>4. EscapesFrom(v, i) = EscapesFrom(v, i + 3) \cup {i}
  BY <1>3 DEF EscapesFrom
<1>5. i \notin EscapesFrom(v, i + 3)
  BY DEF EscapesFrom
<1>6. Cardinality(EscapesFrom(v, i)) = Cardinality(EscapesFrom(v, i + 3)) + 1
  <2> DEFINE S == EscapesFrom(v, i + 3)
  <2>1. IsFiniteSet(S)
    BY EscapesFinite
  <2> HIDE DEF S
  <2>2. Cardinality(S \cup {i}) = IF i \in S THEN Cardinality(S) ELSE Cardinality(S) + 1
    BY <2>1, FS_AddElement
  <2> QED
    BY <1>4, <1>5, <2>2 DEF S
<1>7. Cardinality(EscapesFrom(v, i + 3)) \in Nat
  BY EscapesFinite
<1> DEFINE m == Cardinality(EscapesFrom(v, i))
           k == Cardinality(EscapesFrom(v, i + 3))
<1>8. /\ LenFrom(v, i) = (Len(v) + 1 - i) - 2 * m
      /\ LenFrom(v, i + 3) = (Len(v) + 1 - (i + 3)) - 2 * k
  BY DEF LenFrom
<1>9. m = k + 1 /\ k \in Nat /\ Len(v) \in Nat
  BY <1>6, <1>7
<1> HIDE DEF m, k
<1> QED
  BY <1>1, <1>8, <1>9

\* One turn of the loop, from the function h of what comes after it.
DecodedAt(v, h, i) ==
  IF i > Len(v) THEN 0 ELSE 1 + h[IF Escape(v, i) THEN i + 3 ELSE i + 1]
Decodes(v, h) == h = [i \in 1 .. Len(v) + 3 |-> DecodedAt(v, h, i)]

LEMMA DecodesExists ==
  ASSUME NEW v \in Seq(Marks)
  PROVE  \E h : Decodes(v, h)
<1> DEFINE f == [i \in 1 .. Len(v) + 3 |-> IF i > Len(v) THEN 0 ELSE LenFrom(v, i)]
<1>1. Len(v) \in Nat
  OBVIOUS
<1>2. \A i \in 1 .. Len(v) + 3 : f[i] = IF i > Len(v) THEN 0 ELSE LenFrom(v, i)
  OBVIOUS
<1>3. \A i \in 1 .. Len(v) + 1 : f[i] = LenFrom(v, i)
  <2>1. ASSUME NEW i \in 1 .. Len(v) + 1 PROVE f[i] = LenFrom(v, i)
    <3>1. CASE i = Len(v) + 1
      <4> HIDE DEF f
      <4> QED
        BY <1>1, <1>2, <3>1, LenAtEnd
    <3>2. CASE i # Len(v) + 1
      <4> HIDE DEF f
      <4> QED
        BY <1>1, <1>2, <3>2
    <3> QED
      BY <3>1, <3>2
  <2> QED
    BY <2>1
<1>4. DOMAIN f = 1 .. Len(v) + 3 /\ f = [i \in DOMAIN f |-> f[i]]
  OBVIOUS
<1> HIDE DEF f
<1>5. ASSUME NEW i \in 1 .. Len(v) + 3 PROVE f[i] = DecodedAt(v, f, i)
  <2>1. CASE i > Len(v)
    BY <1>2, <2>1 DEF DecodedAt
  <2>2. CASE i <= Len(v)
    <3>1. i \in 1 .. Len(v) /\ f[i] = LenFrom(v, i)
      BY <1>1, <1>2, <2>2
    <3>2. CASE Escape(v, i)
      <4>1. LenFrom(v, i) = 1 + LenFrom(v, i + 3) /\ i + 3 \in 1 .. Len(v) + 1
        BY <3>1, <3>2, LenEscape
      <4> QED
        BY <1>1, <1>3, <2>2, <3>1, <3>2, <4>1 DEF DecodedAt
    <3>3. CASE ~Escape(v, i)
      <4>1. LenFrom(v, i) = 1 + LenFrom(v, i + 1) /\ i + 1 \in 1 .. Len(v) + 1
        BY <1>1, <3>1, <3>3, LenPlain
      <4> QED
        BY <1>1, <1>3, <2>2, <3>1, <3>3, <4>1 DEF DecodedAt
    <3> QED
      BY <3>2, <3>3
  <2> QED
    BY <1>1, <2>1, <2>2
<1>6. f = [i \in 1 .. Len(v) + 3 |-> DecodedAt(v, f, i)]
  BY <1>4, <1>5
<1> QED
  BY <1>6 DEF Decodes

\* Whatever the loop computes is that length: a last position where it is not would
\* come after one where it is not either.
LEMMA DecodesUnique ==
  ASSUME NEW v \in Seq(Marks), NEW h, Decodes(v, h)
  PROVE  h[1] = LenFrom(v, 1)
<1> DEFINE n == Len(v)
           T == {k \in Nat : k <= n /\ h[n + 1 - k] # LenFrom(v, n + 1 - k)}
<1>1. n \in Nat
  OBVIOUS
<1>2. ASSUME NEW i \in 1 .. n + 3 PROVE h[i] = DecodedAt(v, h, i)
  BY DEF Decodes
<1>3. CASE T = {}
  <2>1. n \in Nat /\ n <= n /\ n + 1 - n = 1
    BY <1>1
  <2> HIDE DEF n
  <2> QED
    BY <1>3, <2>1
<1>4. CASE T # {}
  <2>1. PICK k \in T : \A j \in T : ~(<<j, k>> \in OpToRel(<, Nat))
    <3>1. T \subseteq Nat
      OBVIOUS
    <3> QED
      BY <1>4, <3>1, NatLessThanWellFounded, WFMin
  <2>2. ASSUME NEW j \in Nat, j < k PROVE j \notin T
    <3>1. <<j, k>> \in OpToRel(<, Nat)
      BY <2>1, <2>2 DEF OpToRel
    <3> QED
      BY <2>1, <3>1
  <2>3. k \in Nat /\ k <= n /\ h[n + 1 - k] # LenFrom(v, n + 1 - k)
    BY <2>1
  <2> DEFINE i == n + 1 - k
  <2>4. i \in 1 .. n + 1 /\ h[i] # LenFrom(v, i)
    BY <1>1, <2>3
  <2>5. ASSUME NEW m \in 1 .. n + 1, m > i PROVE h[m] = LenFrom(v, m)
    <3>1. n + 1 - m \in Nat /\ n + 1 - m < k /\ n + 1 - m <= n /\ n + 1 - (n + 1 - m) = m
      BY <1>1, <2>3, <2>5
    <3>2. n + 1 - m \notin T
      BY <2>2, <3>1
    <3> QED
      BY <3>1, <3>2
  <2> HIDE DEF i, T
  <2>6. h[i] = DecodedAt(v, h, i)
    BY <1>1, <1>2, <2>4
  <2>7. CASE i = n + 1
    <3>1. h[i] = 0
      BY <1>1, <2>6, <2>7 DEF DecodedAt
    <3> QED
      BY <2>4, <2>7, <3>1, LenAtEnd
  <2>8. CASE i # n + 1 /\ Escape(v, i)
    <3>1. i \in 1 .. n
      BY <1>1, <2>4, <2>8
    <3>2. LenFrom(v, i) = 1 + LenFrom(v, i + 3) /\ i + 3 \in 1 .. n + 1
      BY <2>8, <3>1, LenEscape
    <3>3. h[i] = 1 + h[i + 3]
      BY <1>1, <2>6, <2>8, <3>1 DEF DecodedAt
    <3>4. h[i + 3] = LenFrom(v, i + 3)
      BY <2>5, <3>1, <3>2
    <3> QED
      BY <2>4, <3>2, <3>3, <3>4
  <2>9. CASE i # n + 1 /\ ~Escape(v, i)
    <3>1. i \in 1 .. n /\ i + 1 \in 1 .. n + 1
      BY <1>1, <2>4, <2>9
    <3>2. LenFrom(v, i) = 1 + LenFrom(v, i + 1)
      BY <2>9, <3>1, LenPlain
    <3>3. h[i] = 1 + h[i + 1]
      BY <1>1, <2>6, <2>9, <3>1 DEF DecodedAt
    <3>4. h[i + 1] = LenFrom(v, i + 1)
      BY <2>5, <3>1
    <3> QED
      BY <2>4, <3>2, <3>3, <3>4
  <2> QED
    BY <2>7, <2>8, <2>9
<1> QED
  BY <1>3, <1>4

LEMMA DecodedLen ==
  ASSUME NEW v \in Seq(Marks)
  PROVE  PercentDecodedLen(v) = LenFrom(v, 1)
<1> DEFINE rest == CHOOSE h : Decodes(v, h)
<1>1. PercentDecodedLen(v) = rest[1]
  BY DEF PercentDecodedLen, Decodes, DecodedAt
<1>2. Decodes(v, rest)
  BY DecodesExists
<1> HIDE DEF rest
<1> QED
  BY <1>1, <1>2, DecodesUnique

\* An escape, as the three marks it is made of.
LEMMA EscapeMarks ==
  ASSUME NEW v \in Seq(Marks)
  PROVE  {i \in 1 .. Len(v) : i + 2 <= Len(v) /\ SubSeq(v, i, i + 2) = <<"%", "h", "h">>}
           = EscapesFrom(v, 1)
<1>1. ASSUME NEW i \in 1 .. Len(v), i + 2 <= Len(v)
      PROVE  SubSeq(v, i, i + 2) = <<"%", "h", "h">> <=> Escape(v, i)
  <2> DEFINE s == SubSeq(v, i, i + 2)
             t == <<"%", "h", "h">>
  <2>1. /\ s \in Seq(Marks) /\ Len(s) = 3
        /\ s[1] = v[i] /\ s[2] = v[i + 1] /\ s[3] = v[i + 2]
    BY <1>1
  <2>2. t \in Seq(Marks) /\ Len(t) = 3 /\ t[1] = "%" /\ t[2] = "h" /\ t[3] = "h"
    BY DEF Marks
  <2> HIDE DEF s, t
  <2>3. ASSUME s[1] = t[1], s[2] = t[2], s[3] = t[3] PROVE s = t
    <3>1. \A k \in 1 .. 3 : s[k] = t[k]
      BY <2>3
    <3> QED
      BY <2>1, <2>2, <3>1
  <2>4. (s = t) <=> Escape(v, i)
    BY <1>1, <2>1, <2>2, <2>3 DEF Escape
  <2> QED
    BY <2>4 DEF s, t
<1>2. ASSUME NEW i \in 1 .. Len(v), Escape(v, i) PROVE i + 2 <= Len(v)
  BY <1>2 DEF Escape
<1> QED
  BY <1>1, <1>2 DEF EscapesFrom

-------------------------------------------------------------------------------
(* Routing.                                                                  *)

\* The branches that answer at once, with padding, and what they answer.
AtOnce == {"options", "unsupported", "stream_up", "stream_one"}
StatusOf(kind) == IF kind = "options" THEN 200 ELSE IF kind = "unsupported" THEN 500 ELSE 400

\* A request stays on the branch it took, and an answer given at once is the last of it.
RoutedOk(q) ==
  /\ q.kind = Route(q.r)
  /\ q.kind = "site" => q.at = "done" /\ q.reply = SiteReply(q.r)
  /\ q.kind \in AtOnce => q.at = "done" /\ q.reply = XReply(StatusOf(q.kind))
Branched == Handled /\ \A c \in Conns : req[c].at # "none" => RoutedOk(req[c])

LEMMA Stays ==
  ASSUME NEW q, RoutedOk(q), q.at # "done", NEW n, n.r = q.r, n.kind = q.kind
  PROVE  RoutedOk(n)
  BY DEF RoutedOk

LEMMA HandleRouted ==
  ASSUME Handled, NEW c \in Conns, Handle(c)
  PROVE  RoutedOk(req'[c])
<1>1. PICK r \in Plan.requests :
       LET q == NewHandler(r)
       IN \/ q.kind = "too_large" /\ Becomes(c, Answer(q, 431, FALSE))
          \/ q.kind = "health" /\ Becomes(c, [Answer(q, 200, FALSE) EXCEPT !.reply.body = TRUE])
          \/ q.kind = "site" /\ Becomes(c, [q EXCEPT !.at = "done", !.reply = SiteReply(r)])
          \/ q.kind = "options" /\ Becomes(c, XAnswer(q, 200))
          \/ q.kind = "unsupported" /\ Becomes(c, XAnswer(q, 500))
          \/ q.kind \in {"stream_up", "stream_one"} /\ Becomes(c, XAnswer(q, 400))
          \/ q.kind = "upload" /\ Becomes(c, Upload(q))
          \/ q.kind = "download"
               /\ \/ Becomes(c, [XAnswer(q, 200) EXCEPT !.at = "stream", !.opened = TRUE,
                                                     !.reply.body = TRUE])
                  \/ \E status \in {409, 503} : Becomes(c, XAnswer(q, status))
  BY DEF Handle
<1> DEFINE q == NewHandler(r)
           a == Answer(q, 200, FALSE)
           x == XAnswer(q, 200)
           opened == [x EXCEPT !.at = "stream", !.opened = TRUE, !.reply.body = TRUE]
<1>2. DOMAIN q = Fields /\ q.r = r /\ q.kind = Route(r)
  BY NewView
<1>3. DOMAIN req = Conns
  BY DEF Handled
<1> HIDE DEF q
<1>4. ASSUME NEW n, req'[c] = n, n.r = q.r, n.kind = q.kind, q.kind \notin AtOnce \cup {"site"}
      PROVE  RoutedOk(req'[c])
  BY <1>2, <1>4 DEF RoutedOk
<1>5. CASE q.kind = "too_large" /\ Becomes(c, Answer(q, 431, FALSE))
  <2> DEFINE n == Answer(q, 431, FALSE)
  <2>1. n.r = q.r /\ n.kind = q.kind
    BY <1>2 DEF Answer, Fields
  <2>2. req'[c] = n
    BY <1>3, <1>5 DEF Becomes
  <2> HIDE DEF n
  <2> QED
    BY <1>4, <1>5, <2>1, <2>2 DEF AtOnce
<1>6. CASE q.kind = "health" /\ Becomes(c, [a EXCEPT !.reply.body = TRUE])
  <2> DEFINE n == [a EXCEPT !.reply.body = TRUE]
  <2>1. DOMAIN a = Fields /\ a.r = q.r /\ a.kind = q.kind
    BY <1>2 DEF Answer, Fields
  <2>2. req'[c] = n
    BY <1>3, <1>6 DEF Becomes
  <2> HIDE DEF a
  <2>3. n.r = q.r /\ n.kind = q.kind
    BY <2>1 DEF Fields
  <2> HIDE DEF n
  <2> QED
    BY <1>4, <1>6, <2>2, <2>3 DEF AtOnce
<1>7. CASE q.kind = "site" /\ Becomes(c, [q EXCEPT !.at = "done", !.reply = SiteReply(r)])
  <2> DEFINE reply == SiteReply(r)
             n == [q EXCEPT !.at = "done", !.reply = reply]
  <2>1. req'[c] = n
    BY <1>3, <1>7 DEF Becomes
  <2> HIDE DEF reply
  <2>2. n.r = q.r /\ n.kind = q.kind /\ n.at = "done" /\ n.reply = reply
    BY <1>2 DEF Fields
  <2> HIDE DEF n
  <2> QED
    BY <1>2, <1>7, <2>1, <2>2 DEF RoutedOk, AtOnce, reply
<1>8. ASSUME NEW status, q.kind = "download" \/ (q.kind \in AtOnce /\ status = StatusOf(q.kind)),
             Becomes(c, XAnswer(q, status))
      PROVE  RoutedOk(req'[c])
  <2> DEFINE n == XAnswer(q, status)
  <2>1. n.r = q.r /\ n.kind = q.kind /\ n.at = "done"
    BY <1>2, AnswerView DEF Fields
  <2>2. n.reply = XReply(status)
    BY <1>2 DEF XAnswer, Answer, XReply, Fields
  <2>3. req'[c] = n
    BY <1>3, <1>8 DEF Becomes
  <2> HIDE DEF n
  <2> QED
    BY <1>2, <1>8, <2>1, <2>2, <2>3 DEF RoutedOk, AtOnce
<1>9. CASE q.kind = "download" /\ Becomes(c, opened)
  <2>1. DOMAIN x = Fields /\ x.r = q.r /\ x.kind = q.kind
    BY <1>2, AnswerView DEF Fields
  <2>2. req'[c] = opened
    BY <1>3, <1>9 DEF Becomes
  <2> HIDE DEF x
  <2>3. opened.r = q.r /\ opened.kind = q.kind
    BY <2>1 DEF Fields
  <2> HIDE DEF opened
  <2> QED
    BY <1>4, <1>9, <2>2, <2>3 DEF AtOnce
<1>10. CASE q.kind = "upload" /\ Becomes(c, Upload(q))
  <2>1. req'[c] = Upload(q)
    BY <1>3, <1>10 DEF Becomes
  <2>2. ASSUME NEW status PROVE XAnswer(q, status).r = q.r /\ XAnswer(q, status).kind = q.kind
    BY <1>2, AnswerView DEF Fields
  <2>3. ASSUME NEW at, NEW payload
        PROVE  LET m == [q EXCEPT !.at = at, !.payload = payload] IN m.r = q.r /\ m.kind = q.kind
    BY <1>2 DEF Fields
  <2> DEFINE h == HeaderPayload(Plan.placement, q.r)
             k == CookiePayload(Plan.placement, q.r)
             payload == Bytes("header", h.len) \o Bytes("cookie", k.len)
  <2>4. Finish(q, payload).r = q.r /\ Finish(q, payload).kind = q.kind
    <3> HIDE DEF payload
    <3> QED
      BY <2>2, <2>3 DEF Finish
  <2>5. \/ \E status : Upload(q) = XAnswer(q, status)
        \/ Upload(q) = Finish(q, payload)
        \/ Upload(q) = [q EXCEPT !.at = "body", !.payload = payload]
    BY ZenonT(60) DEF Upload
  <2> HIDE DEF payload
  <2>6. Upload(q).r = q.r /\ Upload(q).kind = q.kind
    <3> DEFINE n == [q EXCEPT !.at = "body", !.payload = payload]
    <3>1. n.r = q.r /\ n.kind = q.kind
      BY <1>2 DEF Fields
    <3> HIDE DEF n
    <3>2. CASE Upload(q) = n
      BY <3>1, <3>2
    <3>3. CASE Upload(q) = Finish(q, payload)
      BY <2>4, <3>3
    <3>4. CASE \E status : Upload(q) = XAnswer(q, status)
      BY <2>2, <3>4
    <3> QED
      BY <2>5, <3>2, <3>3, <3>4 DEF n
  <2> QED
    BY <1>4, <1>10, <2>1, <2>6 DEF AtOnce
<1>11. CASE q.kind = "options" /\ Becomes(c, XAnswer(q, 200))
  BY <1>8, <1>11 DEF AtOnce, StatusOf
<1>12. CASE q.kind = "unsupported" /\ Becomes(c, XAnswer(q, 500))
  BY <1>8, <1>12 DEF AtOnce, StatusOf
<1>13. CASE q.kind \in {"stream_up", "stream_one"} /\ Becomes(c, XAnswer(q, 400))
  <2>1. q.kind \in AtOnce /\ StatusOf(q.kind) = 400
    BY <1>13 DEF AtOnce, StatusOf
  <2> QED
    BY <1>8, <1>13, <2>1
<1>14. CASE q.kind = "download" /\ \E status \in {409, 503} : Becomes(c, XAnswer(q, status))
  BY <1>8, <1>14
<1> QED
  BY <1>1, <1>5, <1>6, <1>7, <1>9, <1>10, <1>11, <1>12, <1>13, <1>14, ZenonT(60) DEF q

LEMMA BranchedStep ==
  ASSUME Branched, [Next]_vars
  PROVE  Branched'
<1>1. Handled /\ Handled'
  BY HandledStep DEF Branched
<1>2. ASSUME scen' = scen, NEW d \in Conns PROVE (RoutedOk(req[d]))' <=> RoutedOk(req'[d])
  BY <1>2 DEF RoutedOk, Route, Plan
<1>3. SUFFICES scen' = scen /\ \A d \in Conns : req'[d].at # "none" => RoutedOk(req'[d])
  BY <1>1, <1>2 DEF Branched
<1>4. CASE Same
  BY <1>4 DEF Same, Branched
<1>5. ASSUME NEW c \in Conns, Kept(c),
             \/ Drops(c) \/ Handle(c) \/ BodyEnd(c) \/ BodyError(c)
             \/ \E n \in 0 .. MaxPost + 1 : BodyFrame(c, n)
             \/ \E result \in DOMAIN PushStatus : Push(c, result)
      PROVE  RoutedOk(req'[c])
  <2> DEFINE q == req[c]
  <2>1. CASE Handle(c)
    BY <1>1, <2>1, HandleRouted
  <2>2. ASSUME q.at \notin {"none", "done"}, NEW n, req'[c] = n, n.r = q.r, n.kind = q.kind
        PROVE  RoutedOk(req'[c])
    BY <2>2, Stays DEF Branched
  <2>3. ASSUME q.at \notin {"none"} PROVE DOMAIN q = Fields
    BY <1>1, <2>3 DEF Handled, RequestOk
  <2>4. ASSUME q.at \notin {"none"}, NEW status
        PROVE  /\ DOMAIN XAnswer(q, status) = Fields
               /\ XAnswer(q, status).r = q.r /\ XAnswer(q, status).kind = q.kind
    BY <2>3, <2>4, AnswerView DEF Fields
  <2>5. CASE Drops(c)
    <3>1. q.at \notin {"none", "done"} /\ req'[c] = Dropped(q) /\ DOMAIN q = Fields
      BY <2>3, <2>5 DEF Drops
    <3> HIDE DEF q
    <3>2. Dropped(q).r = q.r /\ Dropped(q).kind = q.kind
      BY <3>1 DEF Dropped, Fields
    <3> QED
      BY <2>2, <3>1, <3>2
  <2>6. CASE BodyEnd(c)
    <3>1. q.at = "body" /\ req'[c] = Finish(q, q.payload \o q.body)
      BY <1>1, <2>6, HandlerStepView DEF BodyEnd
    <3>2. DOMAIN q = Fields
      BY <2>3, <3>1
    <3>3. XAnswer(q, 413).r = q.r /\ XAnswer(q, 413).kind = q.kind
      BY <2>4, <3>1
    <3> HIDE DEF q
    <3>4. Finish(q, q.payload \o q.body).r = q.r /\ Finish(q, q.payload \o q.body).kind = q.kind
      BY <3>2, <3>3 DEF Finish, Fields
    <3> QED
      BY <2>2, <3>1, <3>4
  <2>7. CASE BodyError(c)
    <3> DEFINE a == XAnswer(q, 400)
               n == [a EXCEPT !.broken = TRUE]
    <3>1. q.at = "body" /\ req'[c] = n
      BY <1>1, <2>7, HandlerStepView DEF BodyError
    <3>2. DOMAIN a = Fields /\ a.r = q.r /\ a.kind = q.kind
      BY <2>4, <3>1
    <3> HIDE DEF a
    <3>3. n.r = a.r /\ n.kind = a.kind
      BY <3>2 DEF Fields
    <3> HIDE DEF n
    <3> QED
      BY <2>2, <3>1, <3>2, <3>3
  <2>8. ASSUME NEW k \in 0 .. MaxPost + 1, BodyFrame(c, k) PROVE RoutedOk(req'[c])
    <3> DEFINE read == [q EXCEPT !.frames = Append(@, k)]
               data == [i \in 1 .. k |-> <<"body", SumFrames(q) + i>>]
               body == IF k = 0 THEN read.body ELSE Collected(read.body, data)
               next == [read EXCEPT !.body = body]
               n == IF SumFrames(q) + k > MaxPost THEN XAnswer(read, 413) ELSE next
    <3>1. q.at = "body" /\ HandlerStep(c, "body", n)
      BY <2>8 DEF BodyFrame
    <3>2. req'[c] = n
      <4> HIDE DEF n
      <4> QED
        BY <1>1, <3>1, HandlerStepView
    <3>3. DOMAIN q = Fields
      BY <2>3, <3>1
    <3> HIDE DEF q
    <3>4. DOMAIN read = Fields /\ read.r = q.r /\ read.kind = q.kind
      BY <3>3 DEF Fields
    <3> HIDE DEF read
    <3>5. XAnswer(read, 413).r = q.r /\ XAnswer(read, 413).kind = q.kind
      BY <3>4, AnswerView DEF Fields
    <3> HIDE DEF body
    <3>6. next.r = q.r /\ next.kind = q.kind
      BY <3>4 DEF Fields
    <3> HIDE DEF next
    <3>7. n.r = q.r /\ n.kind = q.kind
      BY <3>5, <3>6
    <3> HIDE DEF n
    <3> QED
      BY <2>2, <3>1, <3>2, <3>7
  <2>9. ASSUME NEW result \in DOMAIN PushStatus, Push(c, result) PROVE RoutedOk(req'[c])
    <3> DEFINE a == XAnswer(q, PushStatus[result])
               n == [a EXCEPT !.pushed = TRUE, !.removed = (result = "too_many")]
    <3>1. q.at = "push" /\ req'[c] = n
      BY <1>1, <2>9, HandlerStepView DEF Push
    <3>2. DOMAIN a = Fields /\ a.r = q.r /\ a.kind = q.kind
      BY <2>4, <3>1
    <3> HIDE DEF a
    <3>3. n.r = a.r /\ n.kind = a.kind
      BY <3>2 DEF Fields
    <3> HIDE DEF n
    <3> QED
      BY <2>2, <3>1, <3>2, <3>3
  <2> QED
    BY <1>5, <2>1, <2>5, <2>6, <2>7, <2>8, <2>9
<1>6. ASSUME NEW c \in Conns, Kept(c),
             \/ Drops(c) \/ Handle(c) \/ BodyEnd(c) \/ BodyError(c)
             \/ \E n \in 0 .. MaxPost + 1 : BodyFrame(c, n)
             \/ \E result \in DOMAIN PushStatus : Push(c, result)
      PROVE  scen' = scen /\ \A d \in Conns : req'[d].at # "none" => RoutedOk(req'[d])
  BY <1>5, <1>6 DEF Kept, Branched
<1> QED
  BY <1>1, <1>4, <1>6, RequestSteps

LEMMA RequestText ==
  ASSUME scen \in DOMAIN Scenarios, NEW r \in Plan.requests
  PROVE  /\ r.segs \in Seq(STRING) /\ Padding(r).value \in Seq(Marks)
         /\ PadFrom \in Nat /\ PadTo \in Nat
<1>1. /\ \A q \in Scenarios[scen].requests :
           /\ q.segs \in Seq(STRING)
           /\ {q.referer.value, q.query.value} \subseteq Seq({"%", "h", "x"})
      /\ PadFrom \in Nat /\ PadTo \in Nat
  BY OriginAssumption
<1> QED
  BY <1>1 DEF Plan, Padding, Marks

LEMMA MarksCounted ==
  ASSUME NEW v \in Seq(Marks)
  PROVE  MarkLen(v) = LenFrom(v, 1)
<1>1. Len(v) \in Nat /\ Cardinality(EscapesFrom(v, 1)) \in Nat
  BY EscapesFinite
<1>2. LenFrom(v, 1) = Len(v) - 2 * Cardinality(EscapesFrom(v, 1))
  BY <1>1 DEF LenFrom
<1>3. MarkLen(v) = Len(v) - 2 * Cardinality(EscapesFrom(v, 1))
  BY EscapeMarks DEF MarkLen
<1> QED
  BY <1>2, <1>3

LEMMA PaddedOk ==
  ASSUME scen \in DOMAIN Scenarios, NEW r \in Plan.requests
  PROVE  PaddingValid(r) <=> Padded(r)
<1> DEFINE v == Padding(r).value
           len == MarkLen(v)
<1>1. v \in Seq(Marks) /\ PadFrom \in Nat /\ PadTo \in Nat
  BY RequestText
<1> HIDE DEF v
<1>2. PercentDecodedLen(v) = len
  BY <1>1, DecodedLen, MarksCounted
<1>3. len \in Int
  <2>1. Cardinality(EscapesFrom(v, 1)) \in Nat /\ Len(v) \in Nat
    BY <1>1, EscapesFinite
  <2> QED
    BY <1>1, <2>1, MarksCounted DEF LenFrom
<1> HIDE DEF len
<1>4. (len # 0 /\ len \in PadFrom .. PadTo) <=> (len > 0 /\ PadFrom <= len /\ len <= PadTo)
  BY <1>1, <1>3
<1>5. PaddingValid(r) <=> (Padding(r).param /\ len # 0 /\ len \in PadFrom .. PadTo)
  BY <1>2 DEF PaddingValid, Padding, v
<1> QED
  BY <1>4, <1>5 DEF Padded, len, v

LEMMA RouteOk ==
  ASSUME scen \in DOMAIN Scenarios, NEW r \in Plan.requests
  PROVE  /\ (Route(r) = "upload") <=> (Here(r) /\ Padded(r) /\ Session(r) /\ Sequenced(r)
                                       /\ r.segs[2] # "bad" /\ r.method # "OPTIONS")
         /\ (Route(r) = "download") <=> (Here(r) /\ Padded(r) /\ Session(r) /\ ~Sequenced(r)
                                         /\ r.method = "GET")
         /\ Here(r) /\ r.method = "OPTIONS" => Route(r) = "options"
         /\ Here(r) /\ Padded(r) /\ r.method # "OPTIONS" /\ Route(r) \notin {"upload", "download"}
              => IF Session(r) /\ Sequenced(r) THEN Route(r) = "unsupported"
                                              ELSE Route(r) \in {"stream_up", "stream_one"}
         /\ Website(r) /\ (~Here(r) \/ (~Padded(r) /\ r.method # "OPTIONS")) => Route(r) = "site"
<1>1. r.segs \in Seq(STRING)
  BY RequestText
<1>2. /\ HasSession(r) <=> Session(r)
      /\ HasSeq(r) <=> Sequenced(r)
      /\ Sequenced(r) => Segment(r, 2) = r.segs[2]
  <2>1. Len(r.segs) \in Nat /\ (Len(r.segs) = 0 <=> r.segs = <<>>)
    BY <1>1
  <2>2. Segment(r, 1) = (IF 1 <= Len(r.segs) THEN r.segs[1] ELSE "")
    BY DEF Segment
  <2>3. Segment(r, 2) = (IF 2 <= Len(r.segs) THEN r.segs[2] ELSE "")
    BY DEF Segment
  <2>4. HasSession(r) <=> Session(r)
    <3>1. CASE r.segs = <<>>
      <4>1. ~(1 <= Len(r.segs))
        BY <2>1, <3>1
      <4>2. Segment(r, 1) = ""
        BY <2>2, <4>1
      <4> QED
        BY <3>1, <4>2 DEF HasSession, Session
    <3>2. CASE r.segs # <<>>
      <4>1. 1 <= Len(r.segs)
        BY <2>1, <3>2
      <4> QED
        BY <2>2, <3>2, <4>1 DEF HasSession, Session
    <3> QED
      BY <3>1, <3>2
  <2>5. CASE Len(r.segs) >= 2
    BY <2>1, <2>3, <2>4, <2>5 DEF HasSeq, Sequenced
  <2>6. CASE ~(Len(r.segs) >= 2)
    BY <2>1, <2>3, <2>4, <2>6 DEF HasSeq, Sequenced
  <2> QED
    BY <2>5, <2>6
<1>3. PaddingValid(r) <=> Padded(r)
  BY PaddedOk
<1>4. (~r.big /\ r.path = "base" /\ HostMatches(Plan.host, r)) <=> Here(r)
  BY DEF HostMatches, Here
<1>5. /\ Classify(r) = "upload" <=> (Session(r) /\ Sequenced(r) /\ r.segs[2] # "bad"
                                     /\ r.method # "OPTIONS")
      /\ Classify(r) = "download" <=> (Session(r) /\ ~Sequenced(r) /\ r.method = "GET")
      /\ r.method = "OPTIONS" => Classify(r) = "options"
      /\ r.method # "OPTIONS" /\ Classify(r) \notin {"upload", "download"}
           => IF Session(r) /\ Sequenced(r) THEN Classify(r) = "unsupported"
                                           ELSE Classify(r) \in {"stream_up", "stream_one"}
  BY <1>2 DEF Classify
<1>6. CASE r.big
  <2>1. Route(r) = "too_large" /\ ~Here(r)
    BY <1>6 DEF Route, Here
  <2> QED
    BY <1>6, <2>1 DEF Website
<1>7. CASE ~r.big /\ r.path \in {"/healthz", "/readyz"}
  <2>1. Route(r) = "health" /\ ~Here(r)
    BY <1>7 DEF Route, Here
  <2> QED
    BY <1>7, <2>1 DEF Website
<1>8. CASE ~r.big /\ r.path \notin {"/healthz", "/readyz"} /\ ~Here(r)
  <2>1. r.path # "base" \/ ~HostMatches(Plan.host, r)
    BY <1>4, <1>8
  <2>2. Route(r) = "site"
    BY <1>8, <2>1 DEF Route
  <2> QED
    BY <1>8, <2>2 DEF Website
<1>9. CASE Here(r)
  <2>1. ~r.big /\ r.path = "base" /\ HostMatches(Plan.host, r)
    BY <1>4, <1>9
  <2>2. Route(r) = IF r.method # "OPTIONS" /\ ~Padded(r) THEN "site" ELSE Classify(r)
    BY <1>3, <2>1 DEF Route
  <2> QED
    BY <1>5, <1>9, <2>2
<1> QED
  BY <1>6, <1>7, <1>8, <1>9

\* For any requests, segments and padding: only a request for the base path and host
\* that carries padding whose decoded length is within the bounds is an upload or
\* opens a download; in any other form it is refused with padding, and an OPTIONS
\* for that path and host is answered with padding whether it carries some or not.
\* What is left, too many headers and the health endpoints aside, is answered as the
\* static site answers it.
THEOREM ServerRouting == Spec => []Routing
<1>1. Init => Branched
  BY DEF Init, Branched, Handled, NoRequest
<1>2. Branched => Routing
  <2>1. ASSUME Branched, NEW c \in Conns, req[c].at # "none"
        PROVE  /\ scen \in DOMAIN Scenarios /\ req[c].r \in Plan.requests /\ RoutedOk(req[c])
    BY <2>1 DEF Branched, Handled, RequestOk
  <2>2. ASSUME scen \in DOMAIN Scenarios, NEW q, RoutedOk(q), NEW r \in Plan.requests, r = q.r
        PROVE  LET options == r.method = "OPTIONS"
                   upload == /\ Here(r) /\ Padded(r) /\ ~options
                             /\ Session(r) /\ Sequenced(r) /\ r.segs[2] # "bad"
                   download == /\ Here(r) /\ Padded(r) /\ r.method = "GET"
                               /\ Session(r) /\ ~Sequenced(r)
               IN /\ q.kind = "upload" <=> upload
                  /\ q.kind = "download" <=> download
                  /\ Here(r) /\ options => q.reply = XReply(200)
                  /\ Here(r) /\ Padded(r) /\ ~options /\ ~upload /\ ~download
                       => q.reply = XReply(IF Session(r) /\ Sequenced(r) THEN 500 ELSE 400)
                  /\ Website(r) /\ (~Here(r) \/ (~Padded(r) /\ ~options))
                       => q.reply = SiteReply(r)
    <3>1. q.kind = Route(r) /\ (q.kind = "site" => q.reply = SiteReply(r))
      BY <2>2 DEF RoutedOk
    <3>2. /\ q.kind = "options" => q.reply = XReply(200)
          /\ q.kind = "unsupported" => q.reply = XReply(500)
          /\ q.kind \in {"stream_up", "stream_one"} => q.reply = XReply(400)
      BY <2>2 DEF RoutedOk, AtOnce, StatusOf
    <3> QED
      BY <2>2, <3>1, <3>2, RouteOk
  <2> QED
    BY <2>1, <2>2 DEF Routing
<1>3. Branched /\ [Next]_vars => Branched'
  BY BranchedStep
<1> QED
  BY <1>1, <1>2, <1>3, PTL DEF Spec

-------------------------------------------------------------------------------
(* The writer of a TlsStream: records as bytes.                              *)

LEMMA UnitsAt ==
  ASSUME NEW rec, rec.len \in Nat
  PROVE  \A i \in 1 .. HeaderLen + rec.len : UnitsOf(rec)[i] = [rec |-> rec, at |-> i]
  BY DEF UnitsOf

\* A concatenation, seen from both ends.
Parts(s, t, u) ==
  /\ IsSeq(u) /\ Len(u) = Len(s) + Len(t)
  /\ Len(s) \in Nat /\ Len(t) \in Nat /\ Len(u) \in Nat
  /\ \A i \in 1 .. Len(s) : u[i] = s[i]
  /\ \A m \in 1 .. Len(t) : \A i : i = Len(s) + m => u[i] = t[m]

LEMMA SeqParts ==
  ASSUME NEW s, IsSeq(s), NEW t, IsSeq(t)
  PROVE  Parts(s, t, s \o t)
<1>1. /\ IsSeq(s \o t) /\ Len(s \o t) = Len(s) + Len(t)
      /\ \A i \in 1 .. Len(s \o t) :
           \/ i \in 1 .. Len(s) /\ (s \o t)[i] = s[i]
           \/ i - Len(s) \in 1 .. Len(t) /\ (s \o t)[i] = t[i - Len(s)]
  BY SeqConcat
<1>2. Len(s) \in Nat /\ Len(t) \in Nat
  BY SeqEmpty
<1> DEFINE u == s \o t
<1> HIDE DEF u
<1>3. ASSUME NEW i \in 1 .. Len(s) PROVE u[i] = s[i]
  <2>1. i \in 1 .. Len(s) + Len(t) /\ ~(i - Len(s) \in 1 .. Len(t))
    BY <1>2
  <2> QED
    BY <1>1, <2>1 DEF u
<1>4. ASSUME NEW m \in 1 .. Len(t) PROVE u[Len(s) + m] = t[m]
  <2> DEFINE i == Len(s) + m
  <2>1. i \in 1 .. Len(s) + Len(t) /\ ~(i \in 1 .. Len(s)) /\ i - Len(s) = m
    BY <1>2
  <2> HIDE DEF i
  <2> QED
    BY <1>1, <2>1 DEF u, i
<1>5. Len(u) \in Nat
  BY <1>1, <1>2 DEF u
<1> QED
  BY <1>1, <1>2, <1>3, <1>4, <1>5 DEF Parts, u

\* The bytes p that wait in a buffer from pos on; k of them go to w.
Cut(w, buf, pos, k, p) ==
  /\ IsSeq(p) /\ Len(p) = Len(buf) - pos
  /\ IsSeq(w \o SubSeq(p, 1, k)) /\ Len(w \o SubSeq(p, 1, k)) = Len(w) + k
  /\ (w \o SubSeq(p, 1, k)) \o SubSeq(buf, pos + k + 1, Len(buf)) = w \o p

LEMMA CutAgain ==
  ASSUME NEW w, IsSeq(w), NEW buf, IsSeq(buf), NEW pos \in Nat, NEW k \in Nat, pos + k <= Len(buf)
  PROVE  Cut(w, buf, pos, k, SubSeq(buf, pos + 1, Len(buf)))
<1> DEFINE p == SubSeq(buf, pos + 1, Len(buf))
           a == SubSeq(p, 1, k)
           b == SubSeq(buf, pos + k + 1, Len(buf))
           wa == w \o a
           wab == wa \o b
           wp == w \o p
<1>1. Len(buf) \in Nat /\ Len(w) \in Nat
  BY SeqEmpty
<1>2. /\ IsSeq(p) /\ Len(p) = Len(buf) - pos
      /\ \A i \in 1 .. Len(p) : p[i] = buf[pos + i]
  <2>1. pos + 1 \in Nat \ {0} /\ Len(buf) <= Len(buf)
    BY <1>1
  <2>2. /\ IsSeq(p) /\ Len(p) = (IF pos + 1 <= Len(buf) THEN Len(buf) - (pos + 1) + 1 ELSE 0)
        /\ \A i \in 1 .. Len(p) : p[i] = buf[pos + 1 + i - 1]
    BY <1>1, <2>1, SeqSub
  <2> HIDE DEF p
  <2> QED
    BY <1>1, <2>2
<1>3. /\ IsSeq(b) /\ Len(b) = Len(buf) - pos - k
      /\ \A i \in 1 .. Len(b) : b[i] = buf[pos + k + i]
  <2>1. pos + k + 1 \in Nat \ {0} /\ Len(buf) <= Len(buf)
    BY <1>1
  <2>2. /\ IsSeq(b) /\ Len(b) = (IF pos + k + 1 <= Len(buf) THEN Len(buf) - (pos + k + 1) + 1 ELSE 0)
        /\ \A i \in 1 .. Len(b) : b[i] = buf[pos + k + 1 + i - 1]
    BY <1>1, <2>1, SeqSub
  <2> HIDE DEF b
  <2> QED
    BY <1>1, <2>2
<1> HIDE DEF p, b
<1>4. /\ IsSeq(a) /\ Len(a) = k
      /\ \A i \in 1 .. k : a[i] = p[i]
  <2>1. 1 \in Nat \ {0} /\ k <= Len(p)
    BY <1>1, <1>2
  <2>2. /\ IsSeq(a) /\ Len(a) = (IF 1 <= k THEN k - 1 + 1 ELSE 0)
        /\ \A i \in 1 .. Len(a) : a[i] = p[1 + i - 1]
    BY <1>2, <2>1, SeqSub
  <2> HIDE DEF a
  <2> QED
    BY <1>1, <2>2
<1> HIDE DEF a
<1>5. /\ IsSeq(wa) /\ Len(wa) = Len(w) + k
      /\ \A i \in 1 .. Len(w) : wa[i] = w[i]
      /\ \A m \in 1 .. k : \A i : i = Len(w) + m => wa[i] = a[m]
  <2>1. Parts(w, a, wa)
    BY <1>4, SeqParts
  <2> HIDE DEF wa
  <2> QED
    BY <1>4, <2>1 DEF Parts
<1>6. /\ IsSeq(wp) /\ Len(wp) = Len(w) + Len(p)
      /\ \A i \in 1 .. Len(w) : wp[i] = w[i]
      /\ \A m \in 1 .. Len(p) : \A i : i = Len(w) + m => wp[i] = p[m]
  <2>1. Parts(w, p, wp)
    BY <1>2, SeqParts
  <2> HIDE DEF wp
  <2> QED
    BY <2>1 DEF Parts
<1> HIDE DEF wa, wp
<1>7. /\ IsSeq(wab) /\ Len(wab) = Len(wa) + Len(b)
      /\ \A i \in 1 .. Len(wa) : wab[i] = wa[i]
      /\ \A m \in 1 .. Len(b) : \A i : i = Len(wa) + m => wab[i] = b[m]
  <2>1. Parts(wa, b, wab)
    BY <1>3, <1>5, SeqParts
  <2> HIDE DEF wab
  <2> QED
    BY <2>1 DEF Parts
<1> HIDE DEF wab
<1>8. Len(wab) = Len(wp)
  BY <1>1, <1>2, <1>3, <1>5, <1>6, <1>7
<1>9. ASSUME NEW i \in 1 .. Len(wab) PROVE wab[i] = wp[i]
  <2>1. CASE i \in 1 .. Len(w)
    <3>1. i \in 1 .. Len(wa)
      BY <1>1, <1>5, <2>1
    <3> QED
      BY <1>5, <1>6, <1>7, <2>1, <3>1
  <2>2. ASSUME NEW m \in 1 .. k, i = Len(w) + m PROVE wab[i] = wp[i]
    <3>1. i \in 1 .. Len(wa) /\ m \in 1 .. Len(p)
      BY <1>1, <1>2, <1>5, <2>2
    <3> QED
      <4>1. wab[i] = wa[i] /\ wa[i] = a[m]
        BY <1>5, <1>7, <2>2, <3>1
      <4>2. wp[i] = p[m] /\ a[m] = p[m]
        BY <1>4, <1>6, <2>2, <3>1
      <4> QED
        BY <4>1, <4>2
  <2>3. ASSUME NEW m \in 1 .. Len(b), i = Len(w) + k + m PROVE wab[i] = wp[i]
    <3>1. i = Len(wa) + m /\ k + m \in 1 .. Len(p) /\ i = Len(w) + (k + m)
      BY <1>1, <1>2, <1>3, <1>5, <2>3
    <3>2. wab[i] = b[m] /\ wp[i] = p[k + m]
      BY <1>6, <1>7, <3>1
    <3>3. b[m] = buf[pos + k + m] /\ p[k + m] = buf[pos + (k + m)]
      BY <1>2, <1>3, <3>1
    <3>4. pos + k + m = pos + (k + m)
      OBVIOUS
    <3> QED
      BY <3>2, <3>3, <3>4
  <2>4. \/ i \in 1 .. Len(w)
        \/ \E m \in 1 .. k : i = Len(w) + m
        \/ \E m \in 1 .. Len(b) : i = Len(w) + k + m
    <3>1. CASE i <= Len(w)
      BY <1>1, <3>1
    <3>2. CASE i > Len(w) /\ i <= Len(w) + k
      <4>1. i - Len(w) \in 1 .. k /\ i = Len(w) + (i - Len(w))
        BY <1>1, <3>2
      <4> QED
        BY <4>1
    <3>3. CASE i > Len(w) + k
      <4>1. i - Len(w) - k \in 1 .. Len(b) /\ i = Len(w) + k + (i - Len(w) - k)
        BY <1>1, <1>3, <1>5, <1>7, <3>3
      <4> QED
        BY <4>1
    <3> QED
      BY <1>1, <3>1, <3>2, <3>3
  <2> QED
    BY <2>1, <2>2, <2>3, <2>4
<1>10. wab = wp
  BY <1>6, <1>7, <1>8, <1>9, SeqSame
<1> QED
  BY <1>2, <1>5, <1>10 DEF Cut, p, a, b, wa, wab, wp

\* Bytes whose records carry plaintext of some length.
Measured(a) == IsSeq(a) /\ \A i \in 1 .. Len(a) : Len(a[i].rec.body) \in Nat

LEMMA EndedFinite ==
  ASSUME NEW a, NEW n \in Nat
  PROVE  IsFiniteSet(Ended(a, n)) /\ Cardinality(Ended(a, n)) \in Nat
<1>1. IsFiniteSet(1 .. n)
  BY FS_Interval
<1>2. Ended(a, n) \subseteq 1 .. n
  BY DEF Ended
<1>3. IsFiniteSet(Ended(a, n))
  BY <1>1, <1>2, FS_Subset
<1> QED
  BY <1>3, FS_CardinalityType

\* What the first n bytes hold does not depend on what follows.
LEMMA CarriedSame ==
  ASSUME NEW a, NEW b, NEW n \in Nat, \A i \in 1 .. n : a[i] = b[i]
  PROVE  Ended(a, n) = Ended(b, n) /\ Carried(a, n) = Carried(b, n)
<1>1. Ended(a, n) = Ended(b, n)
  BY DEF Ended
<1>2. [i \in 1 .. n |-> Len(a[i].rec.body)] = [i \in 1 .. n |-> Len(b[i].rec.body)]
  OBVIOUS
<1> QED
  BY <1>1, <1>2 DEF Carried

LEMMA CarriedMonotone ==
  ASSUME NEW a, Measured(a), NEW n \in Nat, n <= Len(a), NEW m \in Nat, m <= n
  PROVE  Carried(a, m) \in Nat /\ Carried(a, n) \in Nat /\ Carried(a, m) <= Carried(a, n)
<1> DEFINE f == [i \in 1 .. n |-> Len(a[i].rec.body)]
           g == [i \in 1 .. m |-> Len(a[i].rec.body)]
<1>1. Len(a) \in Nat
  BY SeqEmpty DEF Measured
<1>2. \A i \in 1 .. n : Len(a[i].rec.body) \in Nat
  BY <1>1 DEF Measured
<1>3. /\ Ended(a, m) \subseteq Ended(a, n) /\ Ended(a, n) \subseteq 1 .. n
      /\ Ended(a, m) \subseteq 1 .. m /\ 1 .. m \subseteq 1 .. n
  BY DEF Ended
<1>4. \A i \in 1 .. n : f[i] \in Nat
  BY <1>2
<1>5. \A i \in 1 .. m : g[i] \in Nat /\ g[i] = f[i]
  BY <1>2, <1>3
<1> HIDE DEF f, g
<1>6. \A i \in Ended(a, n) : f[i] \in Int
  BY <1>3, <1>4
<1>7. \A i \in Ended(a, m) : g[i] \in Int /\ g[i] <= f[i]
  BY <1>3, <1>5
<1>8. Total(g, Ended(a, m)) <= Total(f, Ended(a, n))
  BY <1>3, <1>6, <1>7, EndedFinite, TotalMonotone
<1>9. Total(g, Ended(a, m)) \in Nat /\ Total(f, Ended(a, n)) \in Nat
  BY <1>6, <1>7, EndedFinite, TotalType
<1> QED
  BY <1>8, <1>9 DEF Carried, f, g

LEMMA NothingCarried ==
  ASSUME NEW a
  PROVE  Ended(a, 0) = {} /\ Carried(a, 0) = 0 /\ Cardinality(Ended(a, 0)) = 0
<1>1. Ended(a, 0) = {}
  BY DEF Ended
<1>2. \A x \in Ended(a, 0) : FALSE
  BY <1>1
<1> QED
  BY <1>1, <1>2, TotalZero, FS_EmptySet DEF Carried

\* What RecordStream says of the byte at position i.
ByteOk(bytes, i, close) ==
  LET u == bytes[i]
      r == u.rec
  IN /\ IF i = 1 \/ Ends(bytes[i - 1])
        THEN /\ u.at = 1 /\ r.key = "server" /\ r.seq = Cardinality(Ended(bytes, i - 1))
             /\ r.body = [k \in 1 .. Len(r.body) |-> Carried(bytes, i - 1) + k]
        ELSE u = [rec |-> bytes[i - 1].rec, at |-> bytes[i - 1].at + 1]
     /\ Ends(u) => (r.type = "alert" <=> (i = Len(bytes) /\ close))
     /\ i = Len(bytes) => Ends(u)

LEMMA StreamBytes ==
  ASSUME NEW a, NEW acked, NEW close
  PROVE  RecordStream(a, acked, close) <=>
           (\A i \in 1 .. Len(a) : ByteOk(a, i, close)) /\ Carried(a, Len(a)) = acked
  BY DEF RecordStream, ByteOk

\* A record that continues a stream.
Continues(a, acked, rec) ==
  /\ Len(rec.body) \in Nat /\ rec.len = Len(rec.body) + 1 /\ rec.key = "server"
  /\ rec.seq = Cardinality(Ended(a, Len(a)))
  /\ rec.body = [k \in 1 .. Len(rec.body) |-> acked + k]

Longer(a, rec, n, b) ==
  /\ Measured(b) /\ n \in Nat \ {0} /\ Len(a) \in Nat /\ Len(b) = Len(a) + n
  /\ \A i \in 1 .. Len(a) : b[i] = a[i]
  /\ \A m \in 1 .. n : \A i : i = Len(a) + m => b[i] = [rec |-> rec, at |-> m]

LEMMA AppendedBytes ==
  ASSUME NEW a, Measured(a), NEW rec, Len(rec.body) \in Nat, rec.len = Len(rec.body) + 1
  PROVE  Longer(a, rec, HeaderLen + rec.len, a \o UnitsOf(rec))
<1> DEFINE t == UnitsOf(rec)
           b == a \o t
           n == HeaderLen + rec.len
<1>1. rec.len \in Nat
  OBVIOUS
<1>2. IsSeq(t) /\ Len(t) = n /\ n \in Nat \ {0}
  BY <1>1, UnitsSeq
<1>3. \A m \in 1 .. n : t[m] = [rec |-> rec, at |-> m]
  BY <1>1, UnitsAt
<1> HIDE DEF t, n
<1>4. Parts(a, t, b)
  BY <1>2, SeqParts DEF Measured
<1> HIDE DEF b
<1>5. /\ IsSeq(b) /\ Len(b) = Len(a) + n /\ Len(a) \in Nat
      /\ \A i \in 1 .. Len(a) : b[i] = a[i]
  BY <1>2, <1>4 DEF Parts
<1>6. \A m \in 1 .. n : \A i : i = Len(a) + m => b[i] = [rec |-> rec, at |-> m]
  BY <1>2, <1>3, <1>4 DEF Parts
<1>7. ASSUME NEW i \in 1 .. Len(b) PROVE Len(b[i].rec.body) \in Nat
  <2>1. CASE i <= Len(a)
    <3>1. i \in 1 .. Len(a)
      BY <1>5, <2>1
    <3> QED
      BY <1>5, <3>1 DEF Measured
  <2>2. CASE i > Len(a)
    <3>1. i - Len(a) \in 1 .. n /\ i = Len(a) + (i - Len(a))
      BY <1>2, <1>5, <2>2
    <3>2. b[i] = [rec |-> rec, at |-> i - Len(a)]
      BY <1>6, <3>1
    <3>3. b[i].rec = rec
      BY <3>2
    <3> QED
      BY <3>3
  <2> QED
    BY <1>5, <2>1, <2>2
<1>8. Measured(b)
  BY <1>5, <1>7 DEF Measured
<1> QED
  BY <1>2, <1>5, <1>6, <1>8 DEF Longer, b, t, n

\* The stream with that record, which may be the alert that closes it.
Grown(a, acked, rec, close, b) ==
  /\ Measured(b) /\ Len(b) \in Nat \ {0}
  /\ RecordStream(b, acked + Len(rec.body), close)
  /\ Cardinality(Ended(b, Len(b))) = Cardinality(Ended(a, Len(a))) + 1

LEMMA Appended ==
  ASSUME NEW a, Measured(a), NEW acked \in Nat, RecordStream(a, acked, FALSE),
         NEW rec, Continues(a, acked, rec), NEW close \in BOOLEAN, rec.type = "alert" <=> close
  PROVE  Grown(a, acked, rec, close, a \o UnitsOf(rec))
<1> DEFINE b == a \o UnitsOf(rec)
           m == Len(a)
           n == HeaderLen + rec.len
<1>1. Len(rec.body) \in Nat /\ rec.len = Len(rec.body) + 1
  BY DEF Continues
<1>2. /\ Measured(b) /\ n \in Nat \ {0} /\ m \in Nat /\ Len(b) = m + n
      /\ \A i \in 1 .. m : b[i] = a[i]
      /\ \A k \in 1 .. n : \A i : i = m + k => b[i] = [rec |-> rec, at |-> k]
  <2>1. Longer(a, rec, n, b)
    BY <1>1, AppendedBytes
  <2> HIDE DEF b, n
  <2> QED
    BY <2>1 DEF Longer
<1> HIDE DEF b
<1>3. (\A i \in 1 .. m : ByteOk(a, i, FALSE)) /\ Carried(a, m) = acked
  BY StreamBytes
<1>4. ASSUME NEW i \in Nat, i <= m
      PROVE  Ended(b, i) = Ended(a, i) /\ Carried(b, i) = Carried(a, i)
  <2>1. \A j \in 1 .. i : b[j] = a[j]
    BY <1>2, <1>4
  <2> QED
    BY <1>4, <2>1, CarriedSame
<1>5. ASSUME NEW k \in 1 .. n PROVE Ends(b[m + k]) <=> k = n
  <2>1. b[m + k] = [rec |-> rec, at |-> k]
    BY <1>2
  <2> QED
    BY <2>1 DEF Ends
<1> HIDE DEF n
<1>6. m > 0 => Ends(b[m])
  <2> SUFFICES ASSUME m > 0 PROVE Ends(b[m])
    OBVIOUS
  <2>1. m \in 1 .. m
    BY <1>2
  <2>2. Ends(a[m])
    BY <1>3, <2>1 DEF ByteOk
  <2> QED
    BY <1>2, <2>1, <2>2
<1>7. Ended(b, m + n) = Ended(a, m) \cup {m + n} /\ m + n \notin Ended(a, m)
  <2>1. ASSUME NEW i \in 1 .. m + n PROVE Ends(b[i]) <=> i \in Ended(a, m) \/ i = m + n
    <3>1. CASE i <= m
      <4>1. i \in 1 .. m /\ i # m + n
        BY <1>2, <3>1
      <4> QED
        BY <1>2, <4>1 DEF Ended
    <3>2. CASE i > m
      <4>1. i - m \in 1 .. n /\ i = m + (i - m) /\ (i - m = n <=> i = m + n)
        BY <1>2, <3>2
      <4>2. i \notin Ended(a, m)
        BY <1>2, <3>2 DEF Ended
      <4> QED
        BY <1>5, <4>1, <4>2
    <3> QED
      BY <1>2, <3>1, <3>2
  <2>2. m + n \in 1 .. m + n /\ Ended(a, m) \subseteq 1 .. m + n /\ m + n \notin Ended(a, m)
    BY <1>2 DEF Ended
  <2>3. Ended(b, m + n) = {i \in 1 .. m + n : Ends(b[i])}
    BY DEF Ended
  <2> QED
    BY <2>1, <2>2, <2>3
<1>8. Cardinality(Ended(b, m + n)) = Cardinality(Ended(a, m)) + 1
  <2> DEFINE S == Ended(a, m)
  <2>1. IsFiniteSet(S)
    BY <1>2, EndedFinite
  <2> HIDE DEF S
  <2>2. Cardinality(S \cup {m + n}) = IF m + n \in S THEN Cardinality(S) ELSE Cardinality(S) + 1
    BY <2>1, FS_AddElement
  <2> QED
    BY <1>7, <2>2 DEF S
<1>9. Carried(b, m + n) = acked + Len(rec.body)
  <2> DEFINE S == Ended(a, m)
             f == [i \in 1 .. m + n |-> Len(b[i].rec.body)]
             g == [i \in 1 .. m |-> Len(a[i].rec.body)]
             z == m + n
  <2>1. IsFiniteSet(S) /\ S \subseteq 1 .. m /\ z \notin S
    BY <1>2, <1>7, EndedFinite DEF Ended
  <2>2. \A i \in 1 .. m : f[i] = g[i] /\ g[i] \in Nat
    BY <1>2 DEF Measured
  <2>3. z \in 1 .. m + n /\ n \in 1 .. n
    BY <1>2
  <2>4. b[z].rec = rec
    <3>1. b[z] = [rec |-> rec, at |-> n]
      BY <1>2, <2>3
    <3> QED
      BY <3>1
  <2>5. f[z] = Len(rec.body)
    BY <2>3, <2>4
  <2>6. Carried(b, z) = Total(f, S \cup {z}) /\ Carried(a, m) = Total(g, S)
    BY <1>7 DEF Carried
  <2> HIDE DEF f, g, S, z
  <2>7. Total(f, S \cup {z}) = Total(f, S) + f[z]
    <3>1. f[z] \in Nat /\ \A y \in S : f[y] \in Int
      BY <1>1, <2>1, <2>2, <2>5
    <3> QED
      BY <2>1, <3>1, TotalAdd
  <2>8. Total(f, S) = Total(g, S)
    BY <2>1, <2>2, TotalSame
  <2> QED
    BY <1>3, <2>5, <2>6, <2>7, <2>8 DEF z
<1>10. ASSUME NEW i \in 1 .. m PROVE ByteOk(b, i, close)
  <2>1. ByteOk(a, i, FALSE)
    BY <1>3
  <2>2. b[i] = a[i] /\ i # Len(b)
    BY <1>2
  <2>3. Ends(b[i]) => a[i].rec.type # "alert"
    BY <2>1, <2>2 DEF ByteOk
  <2>4. CASE i = 1
    <3>1. Ended(b, i - 1) = Ended(a, i - 1) /\ Carried(b, i - 1) = Carried(a, i - 1)
      BY <1>4, <2>4, <1>2
    <3> QED
      BY <2>1, <2>2, <2>3, <2>4, <3>1 DEF ByteOk
  <2>5. CASE i # 1
    <3>1. i - 1 \in 1 .. m /\ i - 1 \in Nat /\ i - 1 <= m
      BY <1>2, <2>5
    <3>2. Ended(b, i - 1) = Ended(a, i - 1) /\ Carried(b, i - 1) = Carried(a, i - 1)
      BY <1>4, <3>1
    <3>3. b[i - 1] = a[i - 1]
      BY <1>2, <3>1
    <3> QED
      BY <2>1, <2>2, <2>3, <2>5, <3>2, <3>3 DEF ByteOk
  <2> QED
    BY <2>4, <2>5
<1>11. ASSUME NEW k \in 1 .. n PROVE ByteOk(b, m + k, close)
  <2> DEFINE i == m + k
  <2>1. b[i] = [rec |-> rec, at |-> k] /\ (Ends(b[i]) <=> k = n) /\ (i = Len(b) <=> k = n)
    BY <1>2, <1>5, SMTT(30)
  <2>2. /\ Ends(b[i]) => (rec.type = "alert" <=> (i = Len(b) /\ close))
        /\ i = Len(b) => Ends(b[i])
    BY <2>1
  <2>3. CASE k = 1
    <3>1. i - 1 = m /\ (i = 1 \/ Ends(b[i - 1]))
      BY <1>2, <1>6, <2>3
    <3>2. Ended(b, i - 1) = Ended(a, m) /\ Carried(b, i - 1) = acked
      BY <1>2, <1>3, <1>4, <3>1
    <3>3. /\ rec.key = "server" /\ rec.seq = Cardinality(Ended(a, m))
          /\ rec.body = [j \in 1 .. Len(rec.body) |-> acked + j]
      BY DEF Continues
    <3>4. b[i].rec = rec /\ b[i].at = 1
      BY <2>1, <2>3
    <3> HIDE DEF i
    <3>5. b[i].rec.body = [j \in 1 .. Len(b[i].rec.body) |-> Carried(b, i - 1) + j]
      BY <3>2, <3>3, <3>4
    <3>6. /\ b[i].at = 1 /\ b[i].rec.key = "server"
          /\ b[i].rec.seq = Cardinality(Ended(b, i - 1))
      BY <3>2, <3>3, <3>4
    <3>7. /\ Ends(b[i]) => (b[i].rec.type = "alert" <=> (i = Len(b) /\ close))
          /\ i = Len(b) => Ends(b[i])
      BY <2>2, <3>4
    <3>8. ByteOk(b, i, close)
      BY <3>1, <3>5, <3>6, <3>7, Zenon DEF ByteOk
    <3> QED
      BY <3>8 DEF i
  <2>4. CASE k # 1
    <3>1. k - 1 \in 1 .. n /\ i - 1 = m + (k - 1) /\ i # 1 /\ k - 1 # n /\ (k - 1) + 1 = k
      BY <1>2, <2>4
    <3>2. b[i - 1] = [rec |-> rec, at |-> k - 1] /\ ~Ends(b[i - 1])
      BY <1>2, <1>5, <3>1
    <3>3. b[i] = [rec |-> b[i - 1].rec, at |-> b[i - 1].at + 1] /\ b[i].rec = rec
      BY <2>1, <3>1, <3>2
    <3> HIDE DEF i
    <3>4. /\ Ends(b[i]) => (b[i].rec.type = "alert" <=> (i = Len(b) /\ close))
          /\ i = Len(b) => Ends(b[i])
      BY <2>2, <3>3
    <3>5. ByteOk(b, i, close)
      BY <3>1, <3>2, <3>3, <3>4, Zenon DEF ByteOk
    <3> QED
      BY <3>5 DEF i
  <2> QED
    BY <2>3, <2>4
<1>12. ASSUME NEW i \in 1 .. Len(b) PROVE ByteOk(b, i, close)
  <2>1. CASE i <= m
    BY <1>2, <1>10, <2>1
  <2>2. CASE i > m
    <3>1. i - m \in 1 .. n /\ i = m + (i - m)
      BY <1>2, <2>2
    <3> QED
      BY <1>11, <3>1
  <2> QED
    BY <1>2, <2>1, <2>2
<1>13. RecordStream(b, acked + Len(rec.body), close)
  BY <1>2, <1>9, <1>12, StreamBytes
<1>14. Len(b) \in Nat \ {0}
  BY <1>2
<1> QED
  BY <1>2, <1>8, <1>13, <1>14 DEF Grown, b

-------------------------------------------------------------------------------
(* The invariant of a writer.                                                *)

StreamFields == {"read_keys", "write_keys", "encrypted", "plaintext", "expected",
                 "write_buf", "write_pos", "close_sent"}
CallerFields == {"acked", "flushed", "closing", "closed"}

Buffer(s) ==
  /\ DOMAIN s = StreamFields /\ IsSeq(s.write_buf)
  /\ s.write_pos \in Nat /\ s.write_pos <= Len(s.write_buf)
Caller(q) ==
  DOMAIN q = CallerFields /\ q.acked \in Nat /\ q.flushed \in Nat

\* What the socket has taken (w), what the stream s holds and what its caller was
\* told (q) fit: the keys are at the next record, a flush saw all of its records off.
Fits(all, m, s, q) ==
  /\ Measured(all) /\ RecordStream(all, q.acked, s.close_sent)
  /\ s.write_keys = [key |-> "server", seq |-> Cardinality(Ended(all, Len(all)))]
  /\ s.close_sent => Len(all) # 0
  /\ Carried(all, m) >= q.flushed
Writer(w, s, q) ==
  /\ IsSeq(w) /\ Buffer(s) /\ Caller(q)
  /\ s.close_sent \in BOOLEAN /\ q.closing = s.close_sent
  /\ Fits(w \o Pending(s), Len(w), s, q)
  /\ q.closed => Len(Pending(s)) = 0 /\ s.close_sent

LEMMA PendingSeq ==
  ASSUME NEW s, Buffer(s)
  PROVE  /\ IsSeq(Pending(s)) /\ Len(Pending(s)) = Len(s.write_buf) - s.write_pos
         /\ Len(s.write_buf) \in Nat /\ Len(Pending(s)) \in Nat
         /\ s.write_pos = 0 => Pending(s) = s.write_buf
<1> DEFINE buf == s.write_buf
           pos == s.write_pos
           p == SubSeq(buf, pos + 1, Len(buf))
<1>1. IsSeq(buf) /\ pos \in Nat /\ pos <= Len(buf) /\ Len(buf) \in Nat
  BY SeqEmpty DEF Buffer
<1> HIDE DEF buf, pos
<1>2. pos + 1 \in Nat \ {0} /\ Len(buf) <= Len(buf)
  BY <1>1
<1>3. /\ IsSeq(p) /\ Len(p) = (IF pos + 1 <= Len(buf) THEN Len(buf) - (pos + 1) + 1 ELSE 0)
      /\ \A i \in 1 .. Len(p) : p[i] = buf[pos + 1 + i - 1]
  BY <1>1, <1>2, SeqSub
<1> HIDE DEF p
<1>4. Len(p) = Len(buf) - pos /\ Len(p) \in Nat
  BY <1>1, <1>3
<1>5. pos = 0 => p = buf
  <2> SUFFICES ASSUME pos = 0 PROVE p = buf
    OBVIOUS
  <2>1. Len(p) = Len(buf)
    BY <1>1, <1>4
  <2>2. ASSUME NEW i \in 1 .. Len(p) PROVE p[i] = buf[i]
    <3>1. pos + 1 + i - 1 = i
      BY <2>2
    <3> QED
      BY <1>3, <3>1
  <2> QED
    BY <1>1, <1>3, <2>1, <2>2, SeqSame
<1>6. Pending(s) = p
  BY DEF Pending, p, buf, pos
<1> QED
  BY <1>1, <1>3, <1>4, <1>5, <1>6 DEF buf, pos

\* poll_flush_pending moves bytes from the buffer to the socket and loses none.
Moved(w, s, k, v, n) ==
  /\ Buffer(n) /\ n.write_keys = s.write_keys /\ n.close_sent = s.close_sent
  /\ IsSeq(v) /\ Len(v) = Len(w) + k /\ Len(w) \in Nat
  /\ v \o Pending(n) = w \o Pending(s)
  /\ k = Len(Pending(s)) => Len(Pending(n)) = 0

LEMMA FlushMoves ==
  ASSUME NEW w, IsSeq(w), NEW s, Buffer(s), NEW k \in Nat, k <= Len(Pending(s))
  PROVE  Moved(w, s, k, w \o SubSeq(Pending(s), 1, k), FlushPending(s, k))
<1> DEFINE buf == s.write_buf
           pos == s.write_pos
           p == Pending(s)
           v == w \o SubSeq(p, 1, k)
           n == FlushPending(s, k)
           rest == SubSeq(buf, pos + k + 1, Len(buf))
<1>1. IsSeq(p) /\ Len(p) = Len(buf) - pos /\ Len(buf) \in Nat /\ Len(p) \in Nat
  BY PendingSeq
<1>2. DOMAIN s = StreamFields /\ IsSeq(buf) /\ pos \in Nat /\ pos <= Len(buf) /\ Len(w) \in Nat
  BY SeqEmpty DEF Buffer
<1>3. p = SubSeq(buf, pos + 1, Len(buf))
  BY DEF Pending
<1> HIDE DEF buf, pos, p
<1>4. pos + k <= Len(buf)
  BY <1>1, <1>2 DEF p
<1>5. IsSeq(v) /\ Len(v) = Len(w) + k /\ v \o rest = w \o p
  <2>1. Cut(w, buf, pos, k, p)
    BY <1>2, <1>3, <1>4, CutAgain
  <2> QED
    BY <2>1 DEF Cut
<1> HIDE DEF v
<1>6. CASE k = Len(p)
  <2>1. n = [s EXCEPT !.write_buf = <<>>, !.write_pos = 0]
    BY <1>6 DEF FlushPending, p
  <2>2. /\ DOMAIN n = StreamFields /\ n.write_buf = <<>> /\ n.write_pos = 0
        /\ n.write_keys = s.write_keys /\ n.close_sent = s.close_sent
    BY <1>2, <2>1 DEF StreamFields
  <2> HIDE DEF n
  <2>3. IsSeq(n.write_buf) /\ Len(n.write_buf) = 0
    <3>1. <<>> \in Seq({}) /\ Len(<<>>) = 0
      OBVIOUS
    <3> QED
      BY <2>2, <3>1, SeqAny
  <2>4. Buffer(n)
    BY <2>2, <2>3 DEF Buffer
  <2>5. Pending(n) = <<>> /\ Len(Pending(n)) = 0
    BY <2>2, <2>3, <2>4, PendingSeq
  <2>6. rest = <<>>
    <3>1. pos + k + 1 \in Nat \ {0} /\ Len(buf) <= Len(buf) /\ ~(pos + k + 1 <= Len(buf))
      BY <1>1, <1>2, <1>6
    <3>2. IsSeq(rest) /\ Len(rest) = (IF pos + k + 1 <= Len(buf) THEN Len(buf) - (pos + k + 1) + 1 ELSE 0)
      BY <1>1, <1>2, <3>1, SeqSub
    <3> HIDE DEF rest
    <3> QED
      BY <3>1, <3>2, SeqEmpty
  <2>7. v \o Pending(n) = w \o p
    BY <1>5, <2>5, <2>6
  <2> QED
    BY <1>2, <1>5, <2>2, <2>4, <2>5, <2>7 DEF Moved, n, v, p
<1>7. CASE k # Len(p)
  <2>1. n = [s EXCEPT !.write_pos = pos + k]
    BY <1>7 DEF FlushPending, p, pos
  <2>2. /\ DOMAIN n = StreamFields /\ n.write_buf = buf /\ n.write_pos = pos + k
        /\ n.write_keys = s.write_keys /\ n.close_sent = s.close_sent
    BY <1>2, <2>1 DEF StreamFields, buf
  <2> HIDE DEF n
  <2>3. Buffer(n)
    BY <1>2, <1>4, <2>2 DEF Buffer
  <2>4. Pending(n) = rest
    BY <2>2 DEF Pending
  <2>5. v \o Pending(n) = w \o p
    BY <1>5, <2>4
  <2> QED
    BY <1>2, <1>5, <1>7, <2>2, <2>3, <2>5 DEF Moved, n, v, p
<1> QED
  BY <1>6, <1>7

\* Nothing is sealed: all there is stays, and more of it may have left.
LEMMA MovesOn ==
  ASSUME NEW w, NEW s, NEW q, Writer(w, s, q), NEW k \in Nat, NEW v, NEW n, Moved(w, s, k, v, n),
         k <= Len(Pending(s)), NEW r, Caller(r), r.acked = q.acked, r.closing = q.closing,
         r.flushed = q.flushed \/ (r.flushed = q.acked /\ k = Len(Pending(s))),
         r.closed => k = Len(Pending(s)) /\ s.close_sent
  PROVE  Writer(v, n, r)
<1> DEFINE all == w \o Pending(s)
           m == Len(w)
<1>1. /\ IsSeq(w) /\ Buffer(s) /\ s.close_sent \in BOOLEAN /\ q.closing = s.close_sent
      /\ Fits(all, m, s, q) /\ Caller(q)
  BY DEF Writer
<1>2. Parts(w, Pending(s), all)
  BY <1>1, PendingSeq, SeqParts
<1> HIDE DEF all, m
<1>3. Len(all) = m + Len(Pending(s)) /\ m \in Nat /\ Len(Pending(s)) \in Nat
  BY <1>2 DEF Parts, m
<1>4. /\ Measured(all) /\ RecordStream(all, q.acked, s.close_sent)
      /\ s.write_keys = [key |-> "server", seq |-> Cardinality(Ended(all, Len(all)))]
      /\ s.close_sent => Len(all) # 0
      /\ Carried(all, m) >= q.flushed
  BY <1>1 DEF Fits
<1>5. /\ Buffer(n) /\ n.write_keys = s.write_keys /\ n.close_sent = s.close_sent
      /\ IsSeq(v) /\ Len(v) = m + k
      /\ v \o Pending(n) = all
      /\ k = Len(Pending(s)) => Len(Pending(n)) = 0
  BY DEF Moved, all, m
<1>6. Carried(all, m + k) >= r.flushed
  <2>1. m + k \in Nat /\ m + k <= Len(all) /\ m <= m + k
    BY <1>3
  <2>2. Carried(all, m) \in Nat /\ Carried(all, m + k) \in Nat /\ Carried(all, m) <= Carried(all, m + k)
    BY <1>3, <1>4, <2>1, CarriedMonotone
  <2>3. CASE r.flushed = q.flushed
    BY <1>1, <1>4, <2>2, <2>3 DEF Caller
  <2>4. CASE r.flushed = q.acked /\ k = Len(Pending(s))
    <3>1. m + k = Len(all)
      BY <1>3, <2>4
    <3>2. Carried(all, Len(all)) = q.acked
      BY <1>4 DEF RecordStream
    <3> QED
      BY <1>1, <2>4, <3>1, <3>2 DEF Caller
  <2> QED
    BY <2>3, <2>4
<1>7. Fits(all, m + k, n, r)
  BY <1>4, <1>5, <1>6 DEF Fits
<1>8. r.closed => Len(Pending(n)) = 0 /\ n.close_sent
  BY <1>5
<1>9. n.close_sent \in BOOLEAN /\ r.closing = n.close_sent
  BY <1>1, <1>5
<1>10. Fits(v \o Pending(n), Len(v), n, r)
  BY <1>5, <1>7
<1> QED
  BY <1>5, <1>8, <1>9, <1>10 DEF Writer

\* All that was pending is gone.
LEMMA KeptView ==
  ASSUME NEW s, Buffer(s)
  PROVE  LET n == FlushPending(s, Len(Pending(s)))
         IN /\ DOMAIN n = StreamFields /\ n.write_buf = <<>> /\ n.write_pos = 0
            /\ n.write_keys = s.write_keys /\ n.close_sent = s.close_sent
            /\ Buffer(n) /\ Pending(n) = <<>> /\ Len(Pending(n)) = 0
<1> DEFINE n == FlushPending(s, Len(Pending(s)))
<1>1. n = [s EXCEPT !.write_buf = <<>>, !.write_pos = 0] /\ DOMAIN s = StreamFields
  BY DEF FlushPending, Buffer
<1>2. /\ DOMAIN n = StreamFields /\ n.write_buf = <<>> /\ n.write_pos = 0
      /\ n.write_keys = s.write_keys /\ n.close_sent = s.close_sent
  BY <1>1 DEF StreamFields
<1> HIDE DEF n
<1>3. IsSeq(n.write_buf) /\ Len(n.write_buf) = 0
  <2>1. <<>> \in Seq({}) /\ Len(<<>>) = 0
    OBVIOUS
  <2> QED
    BY <1>2, <2>1, SeqAny
<1>4. Buffer(n)
  BY <1>2, <1>3 DEF Buffer
<1>5. Pending(n) = <<>> /\ Len(Pending(n)) = 0
  BY <1>2, <1>3, <1>4, PendingSeq
<1> QED
  BY <1>2, <1>4, <1>5 DEF n

\* All of a sequence.
LEMMA SeqAll ==
  ASSUME NEW p, IsSeq(p)
  PROVE  SubSeq(p, 1, Len(p)) = p
<1> DEFINE t == SubSeq(p, 1, Len(p))
<1>1. Len(p) \in Nat /\ 1 \in Nat \ {0} /\ Len(p) <= Len(p)
  BY SeqEmpty
<1>2. /\ IsSeq(t) /\ Len(t) = (IF 1 <= Len(p) THEN Len(p) - 1 + 1 ELSE 0)
      /\ \A i \in 1 .. Len(t) : t[i] = p[1 + i - 1]
  BY <1>1, SeqSub
<1> HIDE DEF t
<1>3. Len(t) = Len(p)
  BY <1>1, <1>2
<1>4. \A i \in 1 .. Len(t) : t[i] = p[i]
  BY <1>1, <1>2, <1>3
<1>5. t = p
  BY <1>2, <1>3, <1>4, SeqSame
<1> QED
  BY <1>5 DEF t

\* A writer whose pending bytes have all gone.
LEMMA Emptied ==
  ASSUME NEW w, NEW s, NEW q, Writer(w, s, q)
  PROVE  Writer(w \o Pending(s), FlushPending(s, Len(Pending(s))), q)
<1> DEFINE p == Pending(s)
           k == Len(p)
           n == FlushPending(s, k)
<1>1. IsSeq(w) /\ Buffer(s) /\ Caller(q) /\ (q.closed => s.close_sent)
  BY DEF Writer
<1>2. IsSeq(p) /\ k \in Nat /\ k <= k
  BY <1>1, PendingSeq
<1>3. Moved(w, s, k, w \o SubSeq(p, 1, k), n)
  BY <1>1, <1>2, FlushMoves
<1>4. SubSeq(p, 1, k) = p
  BY <1>2, SeqAll
<1>5. Moved(w, s, k, w \o p, n)
  BY <1>3, <1>4
<1> HIDE DEF n, k
<1>6. Writer(w \o p, n, q)
  BY <1>1, <1>2, <1>5, MovesOn DEF k
<1> QED
  BY <1>6 DEF n, k

\* One more record is sealed, after all that was pending has gone.
Seals(s, q, type, close, body, n, r) ==
  /\ s.close_sent = FALSE /\ close \in BOOLEAN /\ (type = "alert" <=> close)
  /\ Len(body) \in Nat /\ body = [i \in 1 .. Len(body) |-> q.acked + i]
  /\ DOMAIN n = StreamFields /\ n.write_pos = 0 /\ n.close_sent = close
  /\ n.write_buf = UnitsOf(SealRecord(s.write_keys, type, body))
  /\ n.write_keys = Stepped(s.write_keys)
  /\ Caller(r) /\ r.acked = q.acked + Len(body) /\ r.flushed = q.flushed
  /\ r.closing = close /\ r.closed = FALSE

LEMMA SealedRecord ==
  ASSUME NEW w, NEW s, NEW q, Writer(w, s, q), NEW type, NEW close, NEW body, NEW n, NEW r,
         Seals(s, q, type, close, body, n, r)
  PROVE  Writer(w \o Pending(s), n, r) /\ Pending(n) = n.write_buf
<1> DEFINE all == w \o Pending(s)
           m == Len(w)
           rec == SealRecord(s.write_keys, type, body)
           b == all \o UnitsOf(rec)
<1>0. /\ s.close_sent = FALSE /\ close \in BOOLEAN /\ (type = "alert" <=> close)
      /\ Len(body) \in Nat /\ body = [i \in 1 .. Len(body) |-> q.acked + i]
      /\ DOMAIN n = StreamFields /\ n.write_pos = 0 /\ n.close_sent = close
      /\ n.write_buf = UnitsOf(rec) /\ n.write_keys = Stepped(s.write_keys)
      /\ Caller(r) /\ r.acked = q.acked + Len(body) /\ r.flushed = q.flushed
      /\ r.closing = close /\ r.closed = FALSE
  BY DEF Seals
<1>1. /\ IsSeq(w) /\ Buffer(s) /\ s.close_sent \in BOOLEAN
      /\ Fits(all, m, s, q) /\ Caller(q)
  BY DEF Writer
<1>2. Parts(w, Pending(s), all)
  BY <1>1, PendingSeq, SeqParts
<1> HIDE DEF all, m
<1>3. Len(all) = m + Len(Pending(s)) /\ m \in Nat /\ Len(Pending(s)) \in Nat /\ IsSeq(all)
  BY <1>2 DEF Parts, m
<1>4. /\ Measured(all) /\ RecordStream(all, q.acked, FALSE)
      /\ s.write_keys = [key |-> "server", seq |-> Cardinality(Ended(all, Len(all)))]
      /\ Carried(all, m) >= q.flushed
  BY <1>0, <1>1 DEF Fits
<1>5. /\ rec.key = "server" /\ rec.seq = Cardinality(Ended(all, Len(all)))
      /\ rec.type = type /\ rec.body = body /\ rec.len = Len(body) + 1
  BY <1>4 DEF SealRecord
<1>6. q.acked \in Nat /\ q.flushed \in Nat
  BY <1>1 DEF Caller
<1> HIDE DEF rec
<1>7. Continues(all, q.acked, rec) /\ rec.len \in Nat
  BY <1>0, <1>5 DEF Continues
<1>8. rec.type = "alert" <=> close
  BY <1>0, <1>5
<1>9. /\ Measured(b) /\ Len(b) \in Nat \ {0}
      /\ RecordStream(b, q.acked + Len(rec.body), close)
      /\ Cardinality(Ended(b, Len(b))) = Cardinality(Ended(all, Len(all))) + 1
  <2>1. Grown(all, q.acked, rec, close, b)
    BY <1>0, <1>4, <1>6, <1>7, <1>8, Appended
  <2> QED
    BY <2>1 DEF Grown
<1>10. Longer(all, rec, HeaderLen + rec.len, b)
  BY <1>0, <1>4, <1>5, AppendedBytes
<1> HIDE DEF b
<1>11. Carried(b, Len(all)) >= q.flushed
  <2>1. \A i \in 1 .. Len(all) : b[i] = all[i]
    BY <1>10 DEF Longer
  <2>2. Len(all) \in Nat /\ m <= Len(all) /\ Len(all) <= Len(all)
    BY <1>3
  <2>3. Carried(b, Len(all)) = Carried(all, Len(all))
    BY <2>1, <2>2, CarriedSame
  <2>4. /\ Carried(all, m) \in Nat /\ Carried(all, Len(all)) \in Nat
        /\ Carried(all, m) <= Carried(all, Len(all))
    BY <1>3, <1>4, <2>2, CarriedMonotone
  <2> QED
    BY <1>4, <1>6, <2>3, <2>4
<1>12. n.write_buf = UnitsOf(rec)
  BY <1>0
<1>13. Buffer(n)
  <2>1. IsSeq(UnitsOf(rec)) /\ Len(UnitsOf(rec)) \in Nat
    BY <1>7, UnitsSeq
  <2> QED
    BY <1>0, <1>12, <2>1 DEF Buffer
<1>14. Pending(n) = n.write_buf
  BY <1>0, <1>13, PendingSeq
<1>15. n.write_keys = [key |-> "server", seq |-> Cardinality(Ended(b, Len(b)))]
  BY <1>0, <1>4, <1>9 DEF Stepped
<1>16. Fits(b, Len(all), n, r)
  <2>1. RecordStream(b, r.acked, n.close_sent)
    BY <1>0, <1>5, <1>9
  <2>2. Len(b) # 0
    BY <1>9
  <2> QED
    BY <1>0, <1>9, <1>11, <1>15, <2>1, <2>2 DEF Fits
<1>17. all \o Pending(n) = b
  BY <1>12, <1>14 DEF b
<1>18. Writer(all, n, r)
  BY <1>0, <1>3, <1>13, <1>16, <1>17 DEF Writer
<1> QED
  BY <1>14, <1>18 DEF all

-------------------------------------------------------------------------------
(* The steps of a writer.                                                    *)

WriterOf(c) == Writer(wire[c], tls[c], caller[c])
WritersShaped ==
  /\ DOMAIN task = Conns /\ DOMAIN stage = Conns
  /\ DOMAIN tls = Conns /\ DOMAIN wire = Conns /\ DOMAIN caller = Conns

LEMMA TakableView ==
  ASSUME NEW c, NEW s, Buffer(s), NEW k \in Takable(c, s)
  PROVE  k \in Nat /\ k <= Len(Pending(s))
<1>1. Len(Pending(s)) \in Nat
  BY PendingSeq
<1> QED
  BY <1>1 DEF Takable

LEMMA StuckWrites ==
  ASSUME WritersShaped, NEW c \in Conns, WriterOf(c), PollStuck(c)
  PROVE  Writer(wire'[c], tls'[c], caller'[c])
<1> DEFINE w == wire[c]
           s == tls[c]
           q == caller[c]
<1>1. PICK k \in Takable(c, s) :
        /\ k < Len(Pending(s)) /\ TakenBy(c, s, k)
        /\ tls' = [tls EXCEPT ![c] = FlushPending(@, k)] /\ caller' = caller
  BY DEF PollStuck
<1>2. /\ wire'[c] = w \o SubSeq(Pending(s), 1, k) /\ tls'[c] = FlushPending(s, k)
      /\ caller'[c] = q
  BY <1>1 DEF WritersShaped, TakenBy
<1>3. Writer(w, s, q)
  BY DEF WriterOf
<1> HIDE DEF w, s, q
<1>4. IsSeq(w) /\ Buffer(s) /\ Caller(q) /\ (q.closed => Len(Pending(s)) = 0 /\ s.close_sent)
  BY <1>3 DEF Writer
<1>5. k \in Nat /\ k <= Len(Pending(s))
  BY <1>4, TakableView
<1>6. Moved(w, s, k, wire'[c], tls'[c])
  BY <1>2, <1>4, <1>5, FlushMoves
<1>7. ~q.closed
  BY <1>1, <1>4, <1>5
<1> QED
  BY <1>2, <1>3, <1>4, <1>5, <1>6, <1>7, MovesOn

LEMMA FlushWrites ==
  ASSUME WritersShaped, NEW c \in Conns, WriterOf(c), PollFlush(c)
  PROVE  Writer(wire'[c], tls'[c], caller'[c])
<1> DEFINE w == wire[c]
           s == tls[c]
           q == caller[c]
           k == IF c \in down THEN 0 ELSE Len(Pending(s))
           r == [q EXCEPT !.flushed = q.acked]
<1>1. /\ Len(Pending(s)) \in Takable(c, s) /\ TakenBy(c, s, k) /\ ~q.closing
      /\ tls' = [tls EXCEPT ![c] = FlushPending(@, k)]
      /\ caller' = [caller EXCEPT ![c].flushed = caller[c].acked]
  BY DEF PollFlush, FlushReady
<1>2. /\ wire'[c] = w \o SubSeq(Pending(s), 1, k) /\ tls'[c] = FlushPending(s, k)
      /\ caller'[c] = r
  BY <1>1 DEF WritersShaped, TakenBy
<1>3. Writer(w, s, q)
  BY DEF WriterOf
<1> HIDE DEF w, s, q
<1>4. /\ IsSeq(w) /\ Buffer(s) /\ Caller(q) /\ (q.closed => s.close_sent)
      /\ s.close_sent \in BOOLEAN /\ q.closing = s.close_sent
  BY <1>3 DEF Writer
<1>5. k = Len(Pending(s))
  BY <1>1 DEF Takable
<1>6. k \in Nat /\ k <= Len(Pending(s))
  BY <1>1, <1>4, <1>5, TakableView
<1> HIDE DEF k
<1>7. Moved(w, s, k, wire'[c], tls'[c])
  BY <1>2, <1>4, <1>6, FlushMoves
<1>8. ~q.closed
  BY <1>1, <1>4
<1>9. /\ Caller(r) /\ r.acked = q.acked /\ r.closing = q.closing /\ r.flushed = q.acked
      /\ r.closed = q.closed
  BY <1>4 DEF Caller, CallerFields
<1> HIDE DEF r
<1> QED
  BY <1>2, <1>3, <1>4, <1>5, <1>6, <1>7, <1>8, <1>9, MovesOn

LEMMA DataWrites ==
  ASSUME WritersShaped, NEW c \in Conns, WriterOf(c), NEW n \in 1 .. MaxApp + 1, PollWrite(c, n)
  PROVE  Writer(wire'[c], tls'[c], caller'[c])
<1> DEFINE w == wire[c]
           s == tls[c]
           q == caller[c]
           kept == FlushPending(s, Len(Pending(s)))
           size == IF n < MaxApp THEN n ELSE MaxApp
           body == [i \in 1 .. size |-> q.acked + 1 + i - 1]
           new == Buffered(kept, "data", body)
           r == [q EXCEPT !.acked = @ + size]
<1>1. PICK k \in Takable(c, new) :
        /\ ~q.closing
        /\ wire' = [wire EXCEPT ![c] = @ \o Pending(s) \o SubSeq(new.write_buf, 1, k)]
        /\ tls' = [tls EXCEPT ![c] = FlushPending(new, k)]
        /\ caller' = [caller EXCEPT ![c].acked = @ + size]
  BY DEF PollWrite
<1>2. /\ wire'[c] = w \o Pending(s) \o SubSeq(new.write_buf, 1, k)
      /\ tls'[c] = FlushPending(new, k) /\ caller'[c] = r
  <2> HIDE DEF new, size
  <2> QED
    BY <1>1 DEF WritersShaped
<1>3. Writer(w, s, q)
  BY DEF WriterOf
<1>4. ~q.closing
  BY <1>1
<1>5. MaxApp \in Nat
  BY OriginAssumption
<1>6. size \in Nat
  BY <1>5
<1> HIDE DEF w, s, q, size
<1>7. /\ IsSeq(w) /\ Buffer(s) /\ Caller(q) /\ (q.closed => s.close_sent)
      /\ s.close_sent \in BOOLEAN /\ q.closing = s.close_sent
  BY <1>3 DEF Writer
<1>8. s.close_sent = FALSE /\ q.acked \in Nat /\ q.flushed \in Nat
  BY <1>4, <1>7 DEF Caller
<1>9. Len(body) = size /\ body = [i \in 1 .. Len(body) |-> q.acked + i]
  <2>1. body \in [1 .. size -> Nat]
    BY <1>6, <1>8
  <2>2. Len(body) = size
    BY <1>6, <2>1
  <2>3. \A i \in 1 .. size : q.acked + 1 + i - 1 = q.acked + i
    BY <1>6, <1>8
  <2>4. body = [i \in 1 .. size |-> q.acked + i]
    BY <2>3
  <2> HIDE DEF body
  <2> QED
    BY <2>2, <2>4
<1> HIDE DEF body
<1>10. /\ DOMAIN kept = StreamFields /\ kept.write_keys = s.write_keys
       /\ kept.close_sent = s.close_sent
  BY <1>7, KeptView
<1> HIDE DEF kept
<1>11. /\ DOMAIN new = StreamFields /\ new.write_pos = 0 /\ new.close_sent = FALSE
       /\ new.write_buf = UnitsOf(SealRecord(s.write_keys, "data", body))
       /\ new.write_keys = Stepped(s.write_keys)
  BY <1>8, <1>10 DEF Buffered, StreamFields
<1> HIDE DEF new
<1>12. /\ Caller(r) /\ r.acked = q.acked + size /\ r.flushed = q.flushed /\ r.closing = FALSE
       /\ r.closed = q.closed
  BY <1>6, <1>7, <1>8 DEF Caller, CallerFields
<1> HIDE DEF r
<1> DEFINE z == [acked |-> q.acked + size, flushed |-> q.flushed, closing |-> FALSE, closed |-> FALSE]
<1>13. /\ Caller(z) /\ z.acked = q.acked + size /\ z.flushed = q.flushed /\ z.closing = FALSE
       /\ z.closed = FALSE
  BY <1>6, <1>8 DEF Caller, CallerFields
<1> HIDE DEF z
<1> DEFINE all == w \o Pending(s)
<1>14. Writer(all, new, z) /\ Pending(new) = new.write_buf
  <2>1. z.acked = q.acked + Len(body) /\ Len(body) \in Nat
    BY <1>6, <1>9, <1>13
  <2>2. Seals(s, q, "data", FALSE, body, new, z)
    BY <1>8, <1>9, <1>11, <1>13, <2>1 DEF Seals
  <2> QED
    BY <1>3, <2>2, SealedRecord
<1> HIDE DEF all
<1>15. IsSeq(all) /\ Buffer(new)
  BY <1>14 DEF Writer
<1>16. k \in Nat /\ k <= Len(Pending(new))
  BY <1>15, TakableView
<1>17. Moved(all, new, k, wire'[c], tls'[c])
  <2>1. Moved(all, new, k, all \o SubSeq(Pending(new), 1, k), FlushPending(new, k))
    BY <1>15, <1>16, FlushMoves
  <2> QED
    BY <1>2, <1>14, <2>1 DEF all
<1>18. ~r.closed
  BY <1>7, <1>8, <1>12
<1>19. Writer(wire'[c], tls'[c], r)
  BY <1>12, <1>13, <1>14, <1>16, <1>17, <1>18, MovesOn
<1> QED
  BY <1>2, <1>19

LEMMA ShutdownWrites ==
  ASSUME WritersShaped, NEW c \in Conns, WriterOf(c), PollShutdown(c)
  PROVE  Writer(wire'[c], tls'[c], caller'[c])
<1> DEFINE w == wire[c]
           s == tls[c]
           q == caller[c]
           kept == FlushPending(s, Len(Pending(s)))
           alert == [Buffered(kept, "alert", <<>>) EXCEPT !.close_sent = TRUE]
           new == IF kept.close_sent THEN kept ELSE alert
           all == w \o Pending(s)
<1>1. PICK k \in Takable(c, new) :
        /\ wire' = [wire EXCEPT ![c] = @ \o Pending(s) \o SubSeq(new.write_buf, 1, k)]
        /\ tls' = [tls EXCEPT ![c] = FlushPending(new, k)]
        /\ caller' = [caller EXCEPT ![c].closing = TRUE, ![c].closed = (k = Len(new.write_buf))]
  BY DEF PollShutdown
<1> DEFINE r == [q EXCEPT !.closing = TRUE, !.closed = (k = Len(new.write_buf))]
<1>2. /\ wire'[c] = w \o Pending(s) \o SubSeq(new.write_buf, 1, k)
      /\ tls'[c] = FlushPending(new, k) /\ caller'[c] = r
  <2> HIDE DEF new
  <2> QED
    BY <1>1 DEF WritersShaped
<1>3. Writer(w, s, q)
  BY DEF WriterOf
<1> HIDE DEF w, s, q
<1>4. /\ IsSeq(w) /\ Buffer(s) /\ Caller(q) /\ (q.closed => s.close_sent)
      /\ s.close_sent \in BOOLEAN /\ q.closing = s.close_sent
  BY <1>3 DEF Writer
<1>5. DOMAIN q = CallerFields /\ q.acked \in Nat /\ q.flushed \in Nat
  BY <1>4 DEF Caller
<1>6. /\ DOMAIN kept = StreamFields /\ kept.write_keys = s.write_keys
      /\ kept.close_sent = s.close_sent /\ Pending(kept) = <<>> /\ kept.write_buf = <<>>
  BY <1>4, KeptView
<1>7. Writer(all, kept, q)
  BY <1>3, Emptied
<1> HIDE DEF kept, all
<1>8. ASSUME NEW z, Writer(all, new, z), z.acked = q.acked, z.flushed = q.flushed,
             z.closing = TRUE, new.close_sent = TRUE, Pending(new) = new.write_buf
      PROVE  Writer(wire'[c], tls'[c], caller'[c])
  <2> HIDE DEF new
  <2>1. IsSeq(all) /\ Buffer(new)
    BY <1>8 DEF Writer
  <2>2. k \in Nat /\ k <= Len(Pending(new))
    BY <1>1, <2>1, TakableView
  <2>3. Moved(all, new, k, wire'[c], tls'[c])
    <3>1. Moved(all, new, k, all \o SubSeq(Pending(new), 1, k), FlushPending(new, k))
      BY <2>1, <2>2, FlushMoves
    <3> QED
      BY <1>2, <1>8, <3>1 DEF all
  <2> DEFINE over == (k = Len(new.write_buf))
  <2>4. over => k = Len(Pending(new))
    BY <1>8
  <2>5. /\ DOMAIN r = CallerFields /\ r.acked = q.acked /\ r.flushed = q.flushed
        /\ r.closing = TRUE /\ r.closed = over
    <3> HIDE DEF over
    <3> QED
      BY <1>5 DEF CallerFields, over
  <2> HIDE DEF r, over
  <2>6. Caller(r)
    BY <1>5, <2>5 DEF Caller
  <2>7. r.closed => k = Len(Pending(new)) /\ new.close_sent
    BY <1>8, <2>4, <2>5
  <2>8. r.acked = z.acked /\ r.closing = z.closing /\ r.flushed = z.flushed
    BY <1>8, <2>5
  <2>9. Writer(wire'[c], tls'[c], r)
    BY <1>8, <2>2, <2>3, <2>6, <2>7, <2>8, MovesOn
  <2> QED
    BY <1>2, <2>9
<1>9. CASE s.close_sent
  <2>1. new = kept /\ new.close_sent = TRUE
    BY <1>4, <1>6, <1>9
  <2>2. q.closing = TRUE
    BY <1>4, <1>9
  <2>3. Writer(all, new, q) /\ Pending(new) = new.write_buf
    BY <1>6, <1>7, <2>1
  <2> HIDE DEF new, r
  <2> QED
    BY <1>8, <2>1, <2>2, <2>3
<1>10. CASE ~s.close_sent
  <2> DEFINE z == [acked |-> q.acked, flushed |-> q.flushed, closing |-> TRUE, closed |-> FALSE]
             body == <<>>
             a == Buffered(kept, "alert", body)
  <2>1. new = alert /\ s.close_sent = FALSE
    BY <1>4, <1>6, <1>10
  <2>2. /\ DOMAIN a = StreamFields /\ a.write_pos = 0
        /\ a.write_buf = UnitsOf(SealRecord(s.write_keys, "alert", body))
        /\ a.write_keys = Stepped(s.write_keys)
    <3> HIDE DEF body
    <3> QED
      BY <1>6 DEF Buffered, StreamFields
  <2>3. alert = [a EXCEPT !.close_sent = TRUE]
    OBVIOUS
  <2> HIDE DEF a
  <2>4. /\ DOMAIN alert = StreamFields /\ alert.write_pos = 0 /\ alert.close_sent = TRUE
        /\ alert.write_buf = UnitsOf(SealRecord(s.write_keys, "alert", body))
        /\ alert.write_keys = Stepped(s.write_keys)
    <3> DEFINE units == UnitsOf(SealRecord(s.write_keys, "alert", body))
    <3> HIDE DEF units, alert
    <3> QED
      BY <2>2, <2>3 DEF StreamFields, units
  <2>5. Len(body) = 0 /\ body = [i \in 1 .. Len(body) |-> q.acked + i]
    <3>1. body \in Seq(Nat) /\ Len(body) = 0
      OBVIOUS
    <3>2. [i \in 1 .. 0 |-> q.acked + i] \in Seq(Nat) /\ Len([i \in 1 .. 0 |-> q.acked + i]) = 0
      BY <1>5
    <3>3. [i \in 1 .. 0 |-> q.acked + i] = <<>>
      BY <3>2
    <3> QED
      BY <3>1, <3>3
  <2>6. /\ Caller(z) /\ z.acked = q.acked /\ z.flushed = q.flushed /\ z.closing = TRUE
        /\ z.closed = FALSE
    BY <1>5 DEF Caller, CallerFields
  <2> HIDE DEF body, z, alert
  <2>7. z.acked = q.acked + Len(body) /\ Len(body) \in Nat
    BY <1>5, <2>5, <2>6
  <2>8. Seals(s, q, "alert", TRUE, body, alert, z)
    BY <2>1, <2>4, <2>5, <2>6, <2>7 DEF Seals
  <2>9. Writer(all, alert, z) /\ Pending(alert) = alert.write_buf
    BY <1>3, <2>8, SealedRecord DEF all
  <2>10. Writer(all, new, z) /\ Pending(new) = new.write_buf /\ new.close_sent = TRUE
    BY <2>1, <2>4, <2>9
  <2> HIDE DEF new, r
  <2> QED
    BY <1>8, <2>6, <2>10
<1> QED
  BY <1>9, <1>10

-------------------------------------------------------------------------------
(* The connections, and the theorem.                                         *)

\* A connection whose stream has not begun.
Idle(c) ==
  task[c] \in {"none", "queued"} \/ stage[c] \in {"hello", "loaded", "flight", "finished"}
NewCaller == [acked |-> 0, flushed |-> 0, closing |-> FALSE, closed |-> FALSE]
Unwritten(c) == Idle(c) => wire[c] = <<>> /\ caller[c] = NewCaller
Written == WritersShaped /\ \A c \in Conns : WriterOf(c) /\ Unwritten(c)

LEMMA WriterBegins == Writer(<<>>, NewStream, NewCaller)
<1> DEFINE e == <<>>
           s == NewStream
           q == NewCaller
<1>1. e \in Seq({}) /\ Len(e) = 0
  OBVIOUS
<1>2. IsSeq(e)
  BY <1>1, SeqAny
<1>3. /\ DOMAIN s = StreamFields /\ s.write_buf = e /\ s.write_pos = 0 /\ s.close_sent = FALSE
      /\ s.write_keys = [key |-> "server", seq |-> 0]
  BY DEF NewStream, StreamFields, NewKeys
<1>4. DOMAIN q = CallerFields /\ q.acked = 0 /\ q.flushed = 0 /\ q.closing = FALSE /\ q.closed = FALSE
  BY DEF NewCaller, CallerFields
<1> HIDE DEF e, s, q
<1>5. Buffer(s) /\ Caller(q)
  BY <1>1, <1>2, <1>3, <1>4 DEF Buffer, Caller
<1>6. Pending(s) = e
  BY <1>3, <1>5, PendingSeq
<1>7. e \o Pending(s) = e
  BY <1>6 DEF e
<1>8. Measured(e)
  BY <1>1, <1>2 DEF Measured
<1>9. RecordStream(e, 0, FALSE)
  BY <1>1, NothingCarried DEF RecordStream
<1>10. Fits(e, 0, s, q)
  <2>1. Carried(e, 0) = 0 /\ Cardinality(Ended(e, Len(e))) = 0
    BY <1>1, NothingCarried
  <2>2. s.write_keys = [key |-> "server", seq |-> Cardinality(Ended(e, Len(e)))]
    BY <1>3, <2>1
  <2>3. Carried(e, 0) >= q.flushed
    BY <1>4, <2>1
  <2>4. RecordStream(e, q.acked, s.close_sent)
    BY <1>3, <1>4, <1>9
  <2> QED
    BY <1>3, <1>8, <2>2, <2>3, <2>4 DEF Fits
<1>11. Writer(e, s, q)
  BY <1>1, <1>2, <1>3, <1>4, <1>5, <1>7, <1>10 DEF Writer
<1> QED
  BY <1>11 DEF e, s, q

\* What the reader does with a stream leaves its writer alone.
Untouched(s, t) ==
  /\ DOMAIN t = StreamFields /\ t.write_buf = s.write_buf /\ t.write_pos = s.write_pos
  /\ t.write_keys = s.write_keys /\ t.close_sent = s.close_sent

LEMMA WriterSame ==
  ASSUME NEW w, NEW s, NEW q, Writer(w, s, q), NEW t, Untouched(s, t)
  PROVE  Writer(w, t, q)
<1>1. Pending(t) = Pending(s)
  BY DEF Untouched, Pending
<1>2. Buffer(t)
  BY DEF Writer, Buffer, Untouched
<1>3. Fits(w \o Pending(s), Len(w), t, q)
  BY DEF Writer, Fits, Untouched
<1> QED
  BY <1>1, <1>2, <1>3 DEF Writer, Untouched

\* A step that no writer notices.
WriterKept(d) ==
  /\ wire'[d] = wire[d] /\ caller'[d] = caller[d] /\ Untouched(tls[d], tls'[d])
  /\ Idle(d)' => Idle(d)
WritersShape ==
  /\ DOMAIN task' = Conns /\ DOMAIN stage' = Conns
  /\ DOMAIN tls' = Conns /\ DOMAIN wire' = Conns /\ DOMAIN caller' = Conns

LEMMA KeptWriter ==
  ASSUME NEW d \in Conns, WriterOf(d), Unwritten(d), WriterKept(d)
  PROVE  WriterOf(d)' /\ Unwritten(d)'
<1>1. Writer(wire[d], tls'[d], caller[d])
  BY WriterSame DEF WriterOf, WriterKept
<1> QED
  BY <1>1 DEF WriterKept, WriterOf, Unwritten

LEMMA AllKept ==
  ASSUME Written, WritersShape, \A d \in Conns : WriterKept(d)
  PROVE  Written'
<1>1. ASSUME NEW d \in Conns PROVE WriterOf(d)' /\ Unwritten(d)'
  BY KeptWriter DEF Written
<1>2. WritersShaped'
  BY DEF WritersShape, WritersShaped
<1> QED
  BY <1>1, <1>2 DEF Written

LEMMA OneWritten ==
  ASSUME Written, WritersShape, NEW c \in Conns, \A d \in Conns \ {c} : WriterKept(d),
         Writer(wire'[c], tls'[c], caller'[c]), ~(Idle(c)')
  PROVE  Written'
<1>1. ASSUME NEW d \in Conns PROVE WriterOf(d)' /\ Unwritten(d)'
  <2>1. CASE d = c
    BY <2>1 DEF WriterOf, Unwritten
  <2>2. CASE d # c
    BY <2>2, KeptWriter DEF Written
  <2> QED
    BY <2>1, <2>2
<1>2. WritersShaped'
  BY DEF WritersShape, WritersShaped
<1> QED
  BY <1>1, <1>2 DEF Written

LEMMA WritersFields ==
  ASSUME Written, NEW d \in Conns
  PROVE  DOMAIN tls[d] = StreamFields
  BY DEF Written, WriterOf, Writer, Buffer

\* Streams, sockets and callers stay as they are.
LEMMA QuietWriters ==
  ASSUME Written, UNCHANGED <<tls, wire, caller>>, DOMAIN task' = Conns, DOMAIN stage' = Conns,
         \A d \in Conns : Idle(d)' => Idle(d)
  PROVE  Written'
<1>1. ASSUME NEW d \in Conns PROVE WriterKept(d)
  BY WritersFields DEF WriterKept, Untouched
<1>2. WritersShape
  BY DEF Written, WritersShaped, WritersShape
<1> QED
  BY <1>1, <1>2, AllKept

\* The task of a connection ends: its stream is not used any more.
LEMMA EndWriters ==
  ASSUME Written, NEW c \in Conns, TaskEnds(c), UNCHANGED <<wire, caller>>
  PROVE  Written'
<1>1. DOMAIN task = Conns /\ DOMAIN stage = Conns
  BY DEF Written, WritersShaped
<1>2. /\ tls' = tls /\ DOMAIN task' = Conns /\ DOMAIN stage' = Conns
      /\ task'[c] = "ended" /\ stage'[c] = "closed"
      /\ \A d \in Conns \ {c} : task'[d] = task[d] /\ stage'[d] = stage[d]
  BY <1>1 DEF TaskEnds
<1>3. \A d \in Conns : Idle(d)' => Idle(d)
  BY <1>2 DEF Idle
<1> QED
  BY <1>2, <1>3, QuietWriters

\* A handshake goes on: it had not begun to write, and does not.
LEMMA GoesOnWriters ==
  ASSUME Written, NEW c \in Conns, Idle(c), NEW at, GoesOn(c, at), UNCHANGED <<tls, wire, caller>>
  PROVE  Written'
<1>1. DOMAIN task = Conns /\ DOMAIN stage = Conns
  BY DEF Written, WritersShaped
<1>2. /\ DOMAIN task' = Conns /\ DOMAIN stage' = Conns
      /\ \A d \in Conns \ {c} : task'[d] = task[d] /\ stage'[d] = stage[d]
  BY <1>1 DEF GoesOn, serving
<1>3. \A d \in Conns : Idle(d)' => Idle(d)
  BY <1>2 DEF Idle
<1> QED
  BY <1>2, <1>3, QuietWriters

LEMMA LoopWriters ==
  ASSUME Written,
         \/ AcceptTransient \/ BackoffOver \/ AcceptFatal \/ Signal \/ Shutdown \/ Drained
         \/ Deadline \/ Reload
  PROVE  Written'
<1>1. DOMAIN task = Conns /\ DOMAIN stage = Conns
  BY DEF Written, WritersShaped
<1>2. UNCHANGED <<tls, wire, caller, stage>>
  BY DEF AcceptTransient, BackoffOver, AcceptFatal, Signal, Shutdown, Drained, Deadline, Reload,
         LoopTo, writing
<1>3. /\ DOMAIN task' = Conns
      /\ \A d \in Conns : task'[d] = task[d] \/ task'[d] = "refused"
  BY <1>1 DEF AcceptTransient, BackoffOver, AcceptFatal, Signal, Shutdown, Drained, Deadline,
         Reload, serving
<1>4. \A d \in Conns : Idle(d)' => Idle(d)
  BY <1>2, <1>3 DEF Idle
<1> QED
  BY <1>1, <1>2, <1>3, <1>4, QuietWriters

LEMMA AcceptWriters ==
  ASSUME Written, NEW c \in Conns, Connect(c) \/ Accept(c) \/ Join(c)
  PROVE  Written'
<1>1. DOMAIN task = Conns /\ DOMAIN stage = Conns
  BY DEF Written, WritersShaped
<1>2. UNCHANGED <<tls, wire, caller>>
  BY DEF Connect, Accept, Join, LoopTo, writing
<1>3. /\ DOMAIN task' = Conns /\ DOMAIN stage' = Conns
      /\ \A d \in Conns \ {c} : task'[d] = task[d] /\ stage'[d] = stage[d]
  BY <1>1 DEF Connect, Accept, Join, LoopTo
<1>4. Idle(c)' => Idle(c)
  BY <1>1 DEF Connect, Accept, Join, LoopTo, Idle
<1>5. \A d \in Conns : Idle(d)' => Idle(d)
  BY <1>3, <1>4 DEF Idle
<1> QED
  BY <1>2, <1>3, <1>5, QuietWriters

\* The steps that concern neither task nor stream.
LEMMA IdleWriters ==
  ASSUME Written, UNCHANGED <<task, stage, tls, wire, caller>>
  PROVE  Written'
<1>1. DOMAIN task' = Conns /\ DOMAIN stage' = Conns
  BY DEF Written, WritersShaped
<1>2. \A d \in Conns : Idle(d)' => Idle(d)
  BY DEF Idle
<1> QED
  BY <1>1, <1>2, QuietWriters

\* The reader's steps.
LEMMA ReadWriters ==
  ASSUME Written, NEW c \in Conns, NEW t, Untouched(tls[c], t),
         tls' = [tls EXCEPT ![c] = t], UNCHANGED <<task, stage, wire, caller>>
  PROVE  Written'
<1>1. WritersShaped
  BY DEF Written
<1>2. DOMAIN tls' = Conns /\ tls'[c] = t /\ \A d \in Conns \ {c} : tls'[d] = tls[d]
  BY <1>1 DEF WritersShaped
<1>3. ASSUME NEW d \in Conns PROVE WriterKept(d)
  <2>1. Untouched(tls[d], tls'[d])
    <3>1. CASE d = c
      BY <1>2, <3>1
    <3>2. CASE d # c
      BY <1>2, <3>2, WritersFields DEF Untouched
    <3> QED
      BY <3>1, <3>2
  <2> QED
    BY <2>1 DEF WriterKept, Idle
<1>4. WritersShape
  BY <1>1, <1>2 DEF WritersShaped, WritersShape
<1> QED
  BY <1>3, <1>4, AllKept

LEMMA PollReadWriters ==
  ASSUME Written, NEW c \in Conns,
         \/ \E n \in 1 .. 2 : PollReadPlain(c, n)
         \/ PollReadHeader(c) \/ PollReadRecord(c) \/ PollReadEof(c)
         \/ \E k \in 1 .. Len(lane[c]) : PollReadFill(c, k)
  PROVE  Written'
<1> DEFINE s == tls[c]
<1>1. DOMAIN s = StreamFields /\ DOMAIN tls = Conns
  BY WritersFields DEF Written, WritersShaped
<1>2. UNCHANGED <<task, stage, wire, caller>>
  BY DEF PollReadPlain, PollReadHeader, PollReadRecord, PollReadEof, PollReadFill, ReadKeeps,
         serving, writing
<1>3. CASE tls' = tls
  BY <1>2, <1>3, IdleWriters
<1>4. ASSUME NEW t, tls' = [tls EXCEPT ![c] = t], Untouched(s, t) PROVE Written'
  BY <1>2, <1>4, ReadWriters
<1>5. ASSUME NEW n \in 1 .. 2, PollReadPlain(c, n) PROVE Written'
  <2> DEFINE p == s.plaintext
             k == IF Len(p) < n THEN Len(p) ELSE n
             left == PlainLeft(p, k)
             t == [s EXCEPT !.plaintext = left]
  <2>1. tls' = [tls EXCEPT ![c].plaintext = left]
    BY <1>5 DEF PollReadPlain
  <2> HIDE DEF left
  <2>2. tls' = [tls EXCEPT ![c] = t]
    BY <2>1
  <2>3. Untouched(s, t)
    BY <1>1 DEF Untouched, StreamFields
  <2> HIDE DEF t
  <2> QED
    BY <1>4, <2>2, <2>3
<1>6. CASE PollReadHeader(c)
  <2>1. tls' = tls \/ tls' = [tls EXCEPT ![c] = HeaderRead(@)]
    BY <1>6 DEF PollReadHeader
  <2>2. CASE tls' = [tls EXCEPT ![c] = HeaderRead(@)]
    <3> DEFINE x == s.encrypted[1].rec.len
               t == [s EXCEPT !.expected = x]
    <3>1. tls' = [tls EXCEPT ![c] = t]
      BY <2>2 DEF HeaderRead
    <3> HIDE DEF x
    <3>2. Untouched(s, t)
      BY <1>1 DEF Untouched, StreamFields
    <3> HIDE DEF t
    <3> QED
      BY <1>4, <3>1, <3>2
  <2> QED
    BY <1>3, <2>1, <2>2
<1>7. CASE PollReadRecord(c)
  <2>1. tls' = tls \/ tls' = [tls EXCEPT ![c] = RecordOpened(s)]
    BY <1>7 DEF PollReadRecord
  <2>2. CASE tls' = [tls EXCEPT ![c] = RecordOpened(s)]
    <3> DEFINE x == SubSeq(s.encrypted, HeaderLen + s.expected + 1, Len(s.encrypted))
               k == Stepped(s.read_keys)
               p == IF NextRecord(s).type = "data" THEN NextRecord(s).body ELSE <<>>
               t == [s EXCEPT !.encrypted = x, !.expected = None, !.read_keys = k, !.plaintext = p]
    <3>1. RecordOpened(s) = t
      BY DEF RecordOpened
    <3> HIDE DEF x, k, p
    <3>2. Untouched(s, t)
      BY <1>1 DEF Untouched, StreamFields
    <3> HIDE DEF t
    <3> QED
      BY <1>4, <2>2, <3>1, <3>2
  <2> QED
    BY <1>3, <2>1, <2>2
<1>8. CASE PollReadEof(c)
  BY <1>3, <1>8 DEF PollReadEof
<1>9. ASSUME NEW k \in 1 .. Len(lane[c]), PollReadFill(c, k) PROVE Written'
  <2> DEFINE x == s.encrypted \o SubSeq(lane[c], 1, k)
             t == [s EXCEPT !.encrypted = x]
  <2>1. tls' = [tls EXCEPT ![c] = t]
    BY <1>9 DEF PollReadFill
  <2> HIDE DEF x
  <2>2. Untouched(s, t)
    BY <1>1 DEF Untouched, StreamFields
  <2> HIDE DEF t
  <2> QED
    BY <1>4, <2>1, <2>2
<1> QED
  BY <1>5, <1>6, <1>7, <1>8, <1>9

\* The steps of a handshake.
LEMMA HandshakeWriters ==
  ASSUME Written, NEW c \in Conns, ReadHello(c) \/ Prepare(c) \/ SendFlight(c) \/ ReadFinished(c)
  PROVE  Written'
<1>1. Idle(c) /\ UNCHANGED <<wire, caller>>
  BY DEF ReadHello, Prepare, SendFlight, ReadFinished, Takes, Idle, writing
<1>2. \/ TaskEnds(c)
      \/ tls' = tls /\ \E at : GoesOn(c, at)
      \/ GoesOn(c, "stream") /\ tls' = [tls EXCEPT ![c] = NewStream]
  BY DEF ReadHello, Prepare, SendFlight, ReadFinished
<1>3. CASE GoesOn(c, "stream") /\ tls' = [tls EXCEPT ![c] = NewStream] /\ Running(c)
  <2>1. WritersShaped
    BY DEF Written
  <2>2. /\ DOMAIN tls' = Conns /\ tls'[c] = NewStream /\ DOMAIN stage' = Conns /\ task' = task
        /\ stage'[c] = "stream"
        /\ \A d \in Conns \ {c} : tls'[d] = tls[d] /\ stage'[d] = stage[d]
    BY <1>3, <2>1 DEF WritersShaped, GoesOn, serving
  <2>3. WritersShape
    BY <1>1, <2>1, <2>2 DEF WritersShape, WritersShaped
  <2>4. ASSUME NEW d \in Conns \ {c} PROVE WriterKept(d)
    BY <1>1, <2>2, WritersFields DEF WriterKept, Untouched, Idle
  <2>5. wire'[c] = <<>> /\ caller'[c] = NewCaller
    BY <1>1 DEF Written, Unwritten
  <2>6. Writer(wire'[c], tls'[c], caller'[c])
    BY <2>2, <2>5, WriterBegins
  <2>7. ~(Idle(c)')
    BY <1>3, <2>2 DEF Running, Idle
  <2> QED
    BY <2>3, <2>4, <2>6, <2>7, OneWritten
<1>4. Running(c)
  BY DEF ReadHello, Prepare, SendFlight, ReadFinished, Takes
<1> QED
  BY <1>1, <1>2, <1>3, <1>4, EndWriters, GoesOnWriters

\* The writer's steps.
LEMMA PollWriters ==
  ASSUME Written, NEW c \in Conns,
         \/ \E n \in 1 .. MaxApp + 1 : PollWrite(c, n)
         \/ PollStuck(c) \/ PollFlush(c) \/ PollShutdown(c)
  PROVE  Written'
<1>1. WritersShaped /\ WriterOf(c)
  BY DEF Written
<1>2. Writer(wire'[c], tls'[c], caller'[c])
  BY <1>1, StuckWrites, FlushWrites, DataWrites, ShutdownWrites
<1>3. Running(c) /\ stage[c] = "stream" /\ UNCHANGED <<task, stage>>
  BY DEF PollWrite, PollStuck, PollFlush, PollShutdown, Writes, WriteKeeps, serving
<1>4. /\ \E t : tls' = [tls EXCEPT ![c] = t]
      /\ \E v : wire' = [wire EXCEPT ![c] = v]
      /\ caller' = caller \/ \E q : caller' = [caller EXCEPT ![c] = q]
  <2>1. CASE PollStuck(c)
    BY <2>1 DEF PollStuck, TakenBy
  <2>2. CASE PollFlush(c)
    BY <2>2 DEF PollFlush, TakenBy
  <2>3. ASSUME NEW n \in 1 .. MaxApp + 1, PollWrite(c, n)
        PROVE  /\ \E t : tls' = [tls EXCEPT ![c] = t]
               /\ \E v : wire' = [wire EXCEPT ![c] = v]
               /\ \E q : caller' = [caller EXCEPT ![c] = q]
    BY <2>3 DEF PollWrite
  <2>4. CASE PollShutdown(c)
    BY <2>4 DEF PollShutdown
  <2> QED
    BY <2>1, <2>2, <2>3, <2>4
<1>5. /\ DOMAIN tls' = Conns /\ DOMAIN wire' = Conns /\ DOMAIN caller' = Conns
      /\ \A d \in Conns \ {c} : tls'[d] = tls[d] /\ wire'[d] = wire[d] /\ caller'[d] = caller[d]
  BY <1>1, <1>4 DEF WritersShaped
<1>6. WritersShape
  BY <1>1, <1>3, <1>5 DEF WritersShape, WritersShaped
<1>7. ASSUME NEW d \in Conns \ {c} PROVE WriterKept(d)
  BY <1>3, <1>5, WritersFields DEF WriterKept, Untouched, Idle
<1>8. ~(Idle(c)')
  BY <1>3 DEF Running, Idle
<1> QED
  BY <1>2, <1>6, <1>7, <1>8, OneWritten

LEMMA WrittenStep ==
  ASSUME Written, [Next]_vars
  PROVE  Written'
<1>1. CASE UNCHANGED vars
  BY <1>1, IdleWriters DEF vars
<1>2. ASSUME NEW c \in Conns, ConnStep(c) PROVE Written'
  <2>1. CASE \/ Cancelled(c) \/ HandshakeTimeout(c) \/ ConnectionOver(c) \/ HandshakeEof(c)
    <3>1. TaskEnds(c) /\ UNCHANGED <<wire, caller>>
      BY <2>1 DEF Cancelled, HandshakeTimeout, ConnectionOver, HandshakeEof, writing
    <3> QED
      BY <3>1, EndWriters
  <2>2. CASE \/ HandlerReset(c) \/ ClientHandshake(c) \/ ClientRecord(c) \/ SocketDown(c)
             \/ \E k \in 0 .. Len(lane[c]) : ClientEof(c, k)
    <3>1. UNCHANGED <<task, stage, tls, wire, caller>>
      BY <2>2 DEF HandlerReset, ClientHandshake, ClientRecord, SocketDown, ClientEof, Sends,
                  serving, writing
    <3> QED
      BY <3>1, IdleWriters
  <2>3. CASE \/ Handle(c) \/ BodyEnd(c) \/ BodyError(c) \/ DownloadOver(c)
             \/ \E n \in 0 .. MaxPost + 1 : BodyFrame(c, n)
             \/ \E result \in DOMAIN PushStatus : Push(c, result)
    <3>1. HandlerKeeps
      BY <2>3 DEF Handle, BodyEnd, BodyError, DownloadOver, BodyFrame, Push, HandlerStep
    <3>2. UNCHANGED <<task, stage, tls, wire, caller>>
      BY <3>1 DEF HandlerKeeps, serving, writing
    <3> QED
      BY <3>2, IdleWriters
  <2> QED
    BY <1>2, <2>1, <2>2, <2>3, AcceptWriters, HandshakeWriters, PollReadWriters, PollWriters
       DEF ConnStep
<1> QED
  BY <1>1, <1>2, LoopWriters DEF Next

\* What hyper may rely on, of one writer.
LEMMA WriterHonest ==
  ASSUME NEW c \in Conns, WriterOf(c)
  PROVE  LET w == wire[c]
             q == caller[c]
             n == Len(w)
         IN /\ RecordStream(w \o Pending(tls[c]), q.acked, tls[c].close_sent)
            /\ Carried(w, n) >= q.flushed
            /\ q.closed => /\ Carried(w, n) = q.acked
                           /\ n > 0 /\ Ends(w[n]) /\ w[n].rec.type = "alert"
<1> DEFINE w == wire[c]
           s == tls[c]
           q == caller[c]
           n == Len(w)
           all == w \o Pending(s)
<1>1. /\ IsSeq(w) /\ Buffer(s) /\ s.close_sent \in BOOLEAN
      /\ Fits(all, n, s, q) /\ (q.closed => Len(Pending(s)) = 0 /\ s.close_sent)
  BY DEF WriterOf, Writer
<1>2. Parts(w, Pending(s), all)
  BY <1>1, PendingSeq, SeqParts
<1> HIDE DEF w, s, q, all, n
<1>3. /\ RecordStream(all, q.acked, s.close_sent) /\ Carried(all, n) >= q.flushed
      /\ s.close_sent => Len(all) # 0
  BY <1>1 DEF Fits
<1>4. /\ n \in Nat /\ Len(all) = n + Len(Pending(s)) /\ Len(all) \in Nat
      /\ \A i \in 1 .. n : all[i] = w[i]
  BY <1>2 DEF Parts, n
<1>5. Carried(w, n) = Carried(all, n)
  BY <1>4, CarriedSame
<1>6. ASSUME q.closed
      PROVE  Carried(w, n) = q.acked /\ n > 0 /\ Ends(w[n]) /\ w[n].rec.type = "alert"
  <2>1. s.close_sent = TRUE /\ Len(all) = n /\ n \in 1 .. n
    <3>1. s.close_sent = TRUE
      BY <1>1, <1>6
    <3>2. Len(Pending(s)) = 0 /\ Len(all) # 0
      BY <1>1, <1>3, <1>6
    <3> QED
      BY <1>4, <3>1, <3>2
  <2>2. (\A i \in 1 .. n : ByteOk(all, i, s.close_sent)) /\ Carried(all, n) = q.acked
    BY <1>3, <2>1, StreamBytes
  <2>3. ByteOk(all, n, TRUE)
    BY <2>1, <2>2
  <2>4. Ends(all[n]) /\ all[n].rec.type = "alert"
    BY <2>1, <2>3 DEF ByteOk
  <2>5. w[n] = all[n] /\ n > 0
    BY <1>4, <2>1
  <2> QED
    BY <1>5, <2>2, <2>4, <2>5
<1> QED
  BY <1>3, <1>5, <1>6 DEF w, s, q, n, all

\* However writes, flushes and a shutdown are cut by the socket, for any number of
\* connections and any sizes: what left and what waits are whole records in
\* sequence that carry what hyper was told is written; what was flushed has left,
\* and a completed shutdown ends with the close_notify.
THEOREM ServerWritesHonest == Spec => []WritesHonest
<1>1. Init => Written
  <2> SUFFICES ASSUME Init PROVE Written
    OBVIOUS
  <2>1. WritersShaped
    BY DEF Init, WritersShaped
  <2>2. ASSUME NEW c \in Conns
        PROVE  wire[c] = <<>> /\ tls[c] = NewStream /\ caller[c] = NewCaller
    BY DEF Init, NewCaller
  <2>3. ASSUME NEW c \in Conns PROVE WriterOf(c) /\ Unwritten(c)
    BY <2>2, WriterBegins DEF WriterOf, Unwritten
  <2> QED
    BY <2>1, <2>3 DEF Written
<1>2. Written => WritesHonest
  <2> SUFFICES ASSUME Written PROVE WritesHonest
    OBVIOUS
  <2>1. WriteExact
    BY WriterHonest DEF Written, WriteExact
  <2>2. FlushHonest
    BY WriterHonest DEF Written, FlushHonest
  <2> QED
    BY <2>1, <2>2 DEF WritesHonest
<1>3. Written /\ [Next]_vars => Written'
  BY WrittenStep
<1> QED
  BY <1>1, <1>2, <1>3, PTL DEF Spec

-------------------------------------------------------------------------------
(* Sequences laid out one after the other: pieces P[1] .. P[N], and where      *)
(* each of them begins.                                                      *)

Pieces(P, N) == N \in Nat /\ \A i \in 1 .. N : IsSeq(P[i])
Offset(P, i) == Total([j \in 1 .. i - 1 |-> Len(P[j])], 1 .. i - 1)

Offsets(P, N) ==
  /\ Offset(P, 1) = 0
  /\ \A i \in 1 .. N + 1 : Offset(P, i) \in Nat
  /\ \A i \in 1 .. N : Offset(P, i + 1) = Offset(P, i) + Len(P[i]) /\ Len(P[i]) \in Nat
  /\ \A i, k \in 1 .. N + 1 : i <= k => Offset(P, i) <= Offset(P, k)

LEMMA TotalNext ==
  ASSUME NEW n \in Nat, NEW f, NEW g, \A j \in 1 .. n : f[j] = g[j] /\ f[j] \in Nat,
         g[n + 1] \in Nat
  PROVE  Total(g, 1 .. n + 1) = Total(f, 1 .. n) + g[n + 1]
<1> DEFINE S == 1 .. n
           x == n + 1
<1>1. IsFiniteSet(S)
  BY FS_Interval
<1>2. 1 .. n + 1 = S \cup {x} /\ x \notin S /\ g[x] \in Nat
  OBVIOUS
<1>3. (\A y \in S : g[y] \in Int) /\ \A y \in S : f[y] = g[y]
  OBVIOUS
<1> HIDE DEF S, x
<1>4. Total(g, S \cup {x}) = Total(g, S) + g[x]
  BY <1>1, <1>2, <1>3, TotalAdd
<1>5. Total(f, S) = Total(g, S)
  BY <1>3, TotalSame
<1> QED
  BY <1>2, <1>4, <1>5 DEF S, x

LEMMA OffsetFacts ==
  ASSUME NEW P, NEW N, Pieces(P, N)
  PROVE  Offsets(P, N)
<1> DEFINE L(i) == [j \in 1 .. i - 1 |-> Len(P[j])]
<1>1. N \in Nat /\ \A i \in 1 .. N : Len(P[i]) \in Nat
  BY SeqEmpty DEF Pieces
<1>2. ASSUME NEW i \in 1 .. N + 1
      PROVE  /\ IsFiniteSet(1 .. i - 1)
             /\ \A x \in 1 .. i - 1 : L(i)[x] = Len(P[x]) /\ L(i)[x] \in Int
             /\ Offset(P, i) = Total(L(i), 1 .. i - 1)
  <2>1. IsFiniteSet(1 .. i - 1)
    BY <1>1, FS_Interval
  <2> QED
    BY <1>1, <2>1 DEF Offset
<1>3. Offset(P, 1) = 0
  <2>1. \A x \in 1 .. 1 - 1 : L(1)[x] \in Int /\ L(1)[x] <= 0
    OBVIOUS
  <2> HIDE DEF L
  <2>2. Total(L(1), 1 .. 1 - 1) = 0
    BY <2>1, TotalZero
  <2> QED
    BY <2>2 DEF Offset, L
<1>4. ASSUME NEW i \in 1 .. N + 1 PROVE Offset(P, i) \in Nat
  <2> HIDE DEF L
  <2> QED
    BY <1>2, TotalType
<1>5. ASSUME NEW i \in 1 .. N PROVE Offset(P, i + 1) = Offset(P, i) + Len(P[i])
  <2> DEFINE n == i - 1
             f == L(i)
             g == L(i + 1)
  <2>1. n \in Nat /\ n + 1 = i /\ (i + 1) - 1 = n + 1
    BY <1>1
  <2>2. (\A j \in 1 .. n : f[j] = g[j] /\ f[j] \in Nat) /\ g[n + 1] = Len(P[i]) /\ g[n + 1] \in Nat
    BY <1>1, <2>1
  <2>3. Offset(P, i) = Total(f, 1 .. n) /\ Offset(P, i + 1) = Total(g, 1 .. n + 1)
    BY <2>1 DEF Offset
  <2> HIDE DEF n, f, g
  <2>4. Total(g, 1 .. n + 1) = Total(f, 1 .. n) + g[n + 1]
    BY <2>1, <2>2, TotalNext
  <2> QED
    BY <2>2, <2>3, <2>4
<1>6. ASSUME NEW i \in 1 .. N + 1, NEW k \in 1 .. N + 1, i <= k
      PROVE  Offset(P, i) <= Offset(P, k)
  <2> DEFINE S == 1 .. k - 1
             T == 1 .. i - 1
             f == L(k)
             g == L(i)
  <2>1. T \subseteq S /\ IsFiniteSet(S) /\ \A x \in S : f[x] \in Int
    <3>1. T \subseteq S
      BY <1>1, <1>6
    <3> QED
      BY <1>2, <3>1
  <2>2. \A x \in T : g[x] \in Int /\ g[x] <= f[x]
    BY <1>1, <1>6
  <2>3. Offset(P, i) = Total(g, T) /\ Offset(P, k) = Total(f, S)
    BY <1>2
  <2> HIDE DEF S, T, f, g
  <2>4. Total(g, T) <= Total(f, S)
    BY <2>1, <2>2, TotalMonotone
  <2> QED
    BY <2>3, <2>4
<1> QED
  BY <1>1, <1>3, <1>4, <1>5, <1>6 DEF Offsets

LEMMA OffsetSame ==
  ASSUME NEW P, NEW Q, NEW N \in Nat, \A j \in 1 .. N : P[j] = Q[j], NEW i \in 1 .. N + 1
  PROVE  Offset(P, i) = Offset(Q, i)
<1> DEFINE f == [j \in 1 .. i - 1 |-> Len(P[j])]
           g == [j \in 1 .. i - 1 |-> Len(Q[j])]
<1>1. \A x \in 1 .. i - 1 : f[x] = g[x]
  OBVIOUS
<1> HIDE DEF f, g
<1>2. Total(f, 1 .. i - 1) = Total(g, 1 .. i - 1)
  BY <1>1, TotalSame
<1> QED
  BY <1>2 DEF Offset, f, g

\* Without the first piece, all the others begin so much earlier.
LEMMA OffsetTail ==
  ASSUME NEW P, NEW N, Pieces(P, N), NEW Q, \A j \in 1 .. N - 1 : Q[j] = P[j + 1], NEW i \in 1 .. N
  PROVE  Offset(P, i + 1) = Offset(Q, i) + Len(P[1])
<1> DEFINE n == i - 1
           f == [j \in 1 .. n |-> Len(Q[j])]
           g == [j \in 1 .. n + 1 |-> Len(P[j])]
<1>1. N \in Nat /\ n \in Nat /\ n + 1 = i /\ (i + 1) - 1 = n + 1 /\ n <= N - 1
  BY DEF Pieces
<1>2. \A j \in 1 .. N : Len(P[j]) \in Nat
  BY SeqEmpty DEF Pieces
<1>3. Offset(Q, i) = Total(f, 1 .. n) /\ Offset(P, i + 1) = Total(g, 1 .. n + 1)
  BY <1>1 DEF Offset
<1>4. \A j \in 1 .. n : f[j] \in Int /\ g[j + 1] = f[j]
  <2> SUFFICES ASSUME NEW j \in 1 .. n PROVE f[j] \in Int /\ g[j + 1] = f[j]
    OBVIOUS
  <2>1. j \in 1 .. N - 1 /\ j + 1 \in 1 .. N /\ j + 1 \in 1 .. n + 1
    BY <1>1
  <2>2. Q[j] = P[j + 1] /\ Len(P[j + 1]) \in Nat
    BY <1>2, <2>1
  <2> QED
    BY <2>1, <2>2
<1>5. /\ g[1] = Len(P[1]) /\ g[1] \in Nat /\ 1 .. n + 1 = (2 .. n + 1) \cup {1}
      /\ \A j \in 2 .. n + 1 : g[j] \in Int
  <2>1. 1 \in 1 .. n + 1 /\ 1 \in 1 .. N /\ \A j \in 2 .. n + 1 : j \in 1 .. N /\ j \in 1 .. n + 1
    BY <1>1
  <2>2. 1 .. n + 1 = (2 .. n + 1) \cup {1}
    BY <1>1
  <2> QED
    BY <1>2, <2>1, <2>2
<1>6. Total(g, 2 .. n + 1) = Total(f, 1 .. n)
  <2> HIDE DEF f, g, n
  <2> QED
    BY <1>1, <1>4, TotalShift
<1>7. Total(g, 1 .. n + 1) = Total(g, 2 .. n + 1) + g[1]
  <2> DEFINE S == 2 .. n + 1
             x == 1
  <2>1. IsFiniteSet(S) /\ x \notin S /\ g[x] \in Nat /\ \A y \in S : g[y] \in Int
    <3>1. 2 \in Int /\ n + 1 \in Int
      BY <1>1
    <3>2. IsFiniteSet(S)
      <4> HIDE DEF n
      <4> QED
        BY <3>1, FS_Interval
    <3> HIDE DEF g, n
    <3> QED
      BY <1>5, <3>1, <3>2
  <2>2. 1 .. n + 1 = S \cup {x}
    BY <1>5
  <2> HIDE DEF S, x, g
  <2>3. Total(g, S \cup {x}) = Total(g, S) + g[x]
    BY <2>1, TotalAdd
  <2> QED
    BY <2>2, <2>3 DEF S, x
<1> QED
  BY <1>3, <1>5, <1>6, <1>7

\* The sequence u is the pieces n + 1 .. m, or the beginning of them.
Laid(P, m, n, u) ==
  /\ n \in Nat /\ m \in Nat /\ n <= m /\ IsSeq(u)
  /\ Offset(P, n + 1) + Len(u) <= Offset(P, m + 1)
  /\ \A i \in n + 1 .. m : \A j \in 1 .. Len(P[i]) : \A p \in 1 .. Len(u) :
       Offset(P, n + 1) + p = Offset(P, i) + j => u[p] = P[i][j]
Full(P, m, n, u) == Offset(P, n + 1) + Len(u) = Offset(P, m + 1)

LEMMA LaidSame ==
  ASSUME NEW P, NEW m, NEW n, NEW u, Laid(P, m, n, u), NEW Q, \A j \in 1 .. m : P[j] = Q[j]
  PROVE  Laid(Q, m, n, u) /\ (Full(P, m, n, u) => Full(Q, m, n, u))
<1>1. m \in Nat /\ n \in Nat /\ n <= m
  BY DEF Laid
<1>2. \A i \in 1 .. m + 1 : Offset(P, i) = Offset(Q, i)
  BY <1>1, OffsetSame
<1>3. n + 1 \in 1 .. m + 1 /\ m + 1 \in 1 .. m + 1 /\ \A i \in n + 1 .. m : i \in 1 .. m /\ i \in 1 .. m + 1
  BY <1>1
<1> QED
  BY <1>1, <1>2, <1>3 DEF Laid, Full

\* The end is cut off.
LEMMA LaidCut ==
  ASSUME NEW P, NEW m, NEW n, NEW u, Laid(P, m, n, u), Pieces(P, m),
         NEW v, IsSeq(v), Len(v) <= Len(u), \A p \in 1 .. Len(v) : v[p] = u[p]
  PROVE  Laid(P, m, n, v)
<1>1. m \in Nat /\ n \in Nat /\ n <= m /\ Len(u) \in Nat /\ Len(v) \in Nat
  BY SeqEmpty DEF Laid
<1>2. Offset(P, n + 1) \in Nat /\ Offset(P, m + 1) \in Nat
  BY <1>1, OffsetFacts DEF Offsets
<1>3. Offset(P, n + 1) + Len(v) <= Offset(P, m + 1)
  BY <1>1, <1>2 DEF Laid
<1>4. ASSUME NEW i \in n + 1 .. m, NEW j \in 1 .. Len(P[i]), NEW p \in 1 .. Len(v),
             Offset(P, n + 1) + p = Offset(P, i) + j
      PROVE  v[p] = P[i][j]
  <2>1. p \in 1 .. Len(u)
    BY <1>1
  <2> QED
    BY <1>4, <2>1 DEF Laid
<1> QED
  BY <1>1, <1>3, <1>4 DEF Laid

\* One more piece at the end.
LEMMA LaidAppend ==
  ASSUME NEW P, NEW m, NEW n, NEW u, Laid(P, m, n, u), Full(P, m, n, u), Pieces(P, m + 1)
  PROVE  Laid(P, m + 1, n, u \o P[m + 1]) /\ Full(P, m + 1, n, u \o P[m + 1])
<1> DEFINE t == P[m + 1]
           v == u \o t
           z == Offset(P, n + 1)
<1>1. m \in Nat /\ n \in Nat /\ n <= m /\ IsSeq(u) /\ Len(u) \in Nat
  BY SeqEmpty DEF Laid
<1>2. m + 1 \in 1 .. m + 1 /\ m + 1 \in Nat
  BY <1>1
<1>3. IsSeq(t) /\ Len(t) \in Nat
  BY <1>2, SeqEmpty DEF Pieces
<1>4. Offsets(P, m + 1)
  BY OffsetFacts
<1>5. /\ z \in Nat /\ Offset(P, m + 1) \in Nat /\ Offset(P, m + 1 + 1) = Offset(P, m + 1) + Len(t)
      /\ \A i \in n + 1 .. m : /\ Offset(P, i) \in Nat /\ Len(P[i]) \in Nat
                                /\ Offset(P, i) + Len(P[i]) <= Offset(P, m + 1)
  <2>1. n + 1 \in 1 .. m + 1 + 1 /\ m + 1 \in 1 .. m + 1 + 1
    BY <1>1
  <2>2. z \in Nat /\ Offset(P, m + 1) \in Nat /\ Offset(P, m + 1 + 1) = Offset(P, m + 1) + Len(t)
    BY <1>2, <1>4, <2>1 DEF Offsets
  <2>3. ASSUME NEW i \in n + 1 .. m
        PROVE  /\ Offset(P, i) \in Nat /\ Len(P[i]) \in Nat
               /\ Offset(P, i) + Len(P[i]) <= Offset(P, m + 1)
    <3>1. i \in 1 .. m + 1 /\ i \in 1 .. m + 1 + 1 /\ i + 1 \in 1 .. m + 1 + 1 /\ i + 1 <= m + 1
      BY <1>1
    <3>2. Offset(P, i + 1) = Offset(P, i) + Len(P[i]) /\ Offset(P, i + 1) <= Offset(P, m + 1)
      BY <1>4, <2>1, <3>1 DEF Offsets
    <3>3. Offset(P, i) \in Nat /\ Len(P[i]) \in Nat
      BY <1>4, <3>1 DEF Offsets
    <3> QED
      BY <3>2, <3>3
  <2> QED
    BY <2>2, <2>3
<1>6. z + Len(u) = Offset(P, m + 1)
  BY DEF Full
<1>7. Parts(u, t, v)
  BY <1>1, <1>3, SeqParts
<1>8. /\ IsSeq(v) /\ Len(v) = Len(u) + Len(t)
      /\ \A i \in 1 .. Len(u) : v[i] = u[i]
      /\ \A k \in 1 .. Len(t) : \A i : i = Len(u) + k => v[i] = t[k]
  BY <1>7 DEF Parts
<1>9. \A i \in n + 1 .. m : \A j \in 1 .. Len(P[i]) : \A p \in 1 .. Len(u) :
        z + p = Offset(P, i) + j => u[p] = P[i][j]
  BY DEF Laid
<1> HIDE DEF t, v, z
<1>10. z + Len(v) = Offset(P, m + 1 + 1)
  BY <1>1, <1>3, <1>5, <1>6, <1>8
<1>11. ASSUME NEW i \in n + 1 .. m + 1, NEW j \in 1 .. Len(P[i]), NEW p \in 1 .. Len(v),
              z + p = Offset(P, i) + j
       PROVE  v[p] = P[i][j]
  <2>1. CASE i \in n + 1 .. m
    <3> DEFINE x == Len(P[i])
               o == Offset(P, i)
               e == Offset(P, m + 1)
    <3>0. x \in Nat /\ o \in Nat /\ o + x <= e /\ e \in Nat /\ z \in Nat /\ j <= x
          /\ z + p = o + j /\ z + Len(u) = e
      BY <1>5, <1>6, <1>11, <2>1
    <3>1. p <= Len(u)
      <4> HIDE DEF x, o, e
      <4> QED
        BY <1>1, <3>0
    <3>2. p \in 1 .. Len(u)
      BY <1>1, <3>1
    <3> QED
      BY <1>8, <1>9, <1>11, <2>1, <3>2
  <2>2. CASE i = m + 1
    <3>1. P[i] = t
      BY <2>2 DEF t
    <3>2. j \in 1 .. Len(t) /\ p = Len(u) + j
      <4> DEFINE e == Offset(P, m + 1)
                 a == Len(u)
      <4>1. j \in 1 .. Len(t) /\ z + p = e + j /\ z + a = e
        BY <1>6, <1>11, <2>2, <3>1
      <4>2. z \in Nat /\ e \in Nat /\ a \in Nat /\ j \in Nat /\ p \in Int
        BY <1>1, <1>3, <1>5, <4>1
      <4> HIDE DEF e, a
      <4>3. p = a + j
        BY <4>1, <4>2
      <4> QED
        BY <4>1, <4>3 DEF a
    <3> QED
      BY <1>8, <3>1, <3>2
  <2> QED
    BY <1>1, <2>1, <2>2
<1>12. n <= m + 1 /\ z + Len(v) <= Offset(P, m + 1 + 1)
  BY <1>1, <1>3, <1>5, <1>8, <1>10
<1>13. Laid(P, m + 1, n, v)
  BY <1>1, <1>2, <1>8, <1>11, <1>12 DEF Laid, z
<1>14. Full(P, m + 1, n, v)
  BY <1>10 DEF Full, z
<1> QED
  BY <1>13, <1>14 DEF v, t

\* What is there begins with the next piece.
LEMMA LaidFirst ==
  ASSUME NEW P, NEW m, NEW n, NEW u, Laid(P, m, n, u), Pieces(P, m),
         \A i \in 1 .. m : Len(P[i]) > 0, Len(u) > 0
  PROVE  n + 1 \in 1 .. m /\ u[1] = P[n + 1][1]
<1> DEFINE z == Offset(P, n + 1)
<1>1. m \in Nat /\ n \in Nat /\ n <= m /\ IsSeq(u) /\ Len(u) \in Nat
  BY SeqEmpty DEF Laid
<1>2. z \in Nat /\ z + Len(u) <= Offset(P, m + 1)
  <2>1. n + 1 \in 1 .. m + 1
    BY <1>1
  <2> QED
    BY <2>1, OffsetFacts DEF Offsets, Laid
<1>3. n # m
  <2> SUFFICES ASSUME n = m PROVE FALSE
    OBVIOUS
  <2>1. Offset(P, m + 1) = z
    OBVIOUS
  <2> HIDE DEF z
  <2> QED
    BY <1>1, <1>2, <2>1
<1>4. n + 1 \in 1 .. m /\ n + 1 \in n + 1 .. m
  BY <1>1, <1>3
<1>5. 1 \in 1 .. Len(P[n + 1]) /\ 1 \in 1 .. Len(u)
  <2>1. Len(P[n + 1]) \in Nat /\ Len(P[n + 1]) > 0
    BY <1>4, SeqEmpty DEF Pieces
  <2> QED
    BY <1>1, <2>1
<1>6. u[1] = P[n + 1][1]
  BY <1>4, <1>5 DEF Laid
<1> QED
  BY <1>4, <1>6

\* The next piece is taken away.
LEMMA LaidDrop ==
  ASSUME NEW P, NEW m, NEW n, NEW u, Laid(P, m, n, u), Pieces(P, m), n + 1 \in 1 .. m,
         Len(P[n + 1]) <= Len(u),
         NEW v, IsSeq(v), Len(v) = Len(u) - Len(P[n + 1]),
         \A p \in 1 .. Len(v) : v[p] = u[p + Len(P[n + 1])]
  PROVE  Laid(P, m, n + 1, v) /\ (Full(P, m, n, u) => Full(P, m, n + 1, v))
<1> DEFINE z == Offset(P, n + 1)
           y == Offset(P, n + 1 + 1)
           k == Len(P[n + 1])
<1>1. m \in Nat /\ n \in Nat /\ n <= m /\ IsSeq(u) /\ Len(u) \in Nat /\ Len(v) \in Nat
  BY SeqEmpty DEF Laid
<1>2. Offsets(P, m)
  BY OffsetFacts
<1>3. z \in Nat /\ k \in Nat /\ y = z + k /\ Offset(P, m + 1) \in Nat
  <2>1. n + 1 \in 1 .. m + 1 /\ m + 1 \in 1 .. m + 1
    BY <1>1
  <2> QED
    BY <1>2, <2>1 DEF Offsets
<1>4. \A i \in n + 1 .. m : \A j \in 1 .. Len(P[i]) : \A p \in 1 .. Len(u) :
        z + p = Offset(P, i) + j => u[p] = P[i][j]
  BY DEF Laid
<1>5. \A p \in 1 .. Len(v) : v[p] = u[p + k]
  OBVIOUS
<1> DEFINE e == Offset(P, m + 1)
           a == Len(u)
           b == Len(v)
<1>6. /\ z + a <= e /\ (Full(P, m, n, u) => z + a = e)
      /\ k <= a /\ b = a - k /\ a \in Nat /\ b \in Nat /\ e \in Nat
  BY <1>1, <1>3 DEF Laid, Full
<1> HIDE DEF z, y, k, e, a, b
<1>7. y + b <= e /\ (Full(P, m, n, u) => y + b = e)
  BY <1>3, <1>6
<1>8. ASSUME NEW i \in n + 1 + 1 .. m, NEW j \in 1 .. Len(P[i]), NEW p \in 1 .. Len(v),
             y + p = Offset(P, i) + j
      PROVE  v[p] = P[i][j]
  <2>1. i \in n + 1 .. m /\ p + k \in 1 .. Len(u) /\ z + (p + k) = y + p
    <3>1. p \in 1 .. b /\ i \in Nat /\ n + 1 + 1 <= i /\ i <= m
      BY <1>1 DEF b
    <3>2. i \in n + 1 .. m
      BY <1>1, <3>1
    <3>3. p + k \in 1 .. a /\ z + (p + k) = y + p
      BY <1>3, <1>6, <3>1
    <3> QED
      BY <3>2, <3>3 DEF a
  <2>2. z + (p + k) = Offset(P, i) + j
    BY <1>8, <2>1
  <2> QED
    BY <1>4, <1>5, <2>1, <2>2
<1>9. n + 1 \in Nat /\ n + 1 <= m
  BY <1>1
<1> QED
  BY <1>1, <1>7, <1>8, <1>9 DEF Laid, Full, y, e, b

\* The same, counted without the first piece.
LEMMA LaidTail ==
  ASSUME NEW P, NEW m, NEW u, Laid(P, m, 1, u), Pieces(P, m),
         NEW Q, Pieces(Q, m - 1), \A j \in 1 .. m - 1 : Q[j] = P[j + 1]
  PROVE  Laid(Q, m - 1, 0, u) /\ (Full(P, m, 1, u) => Full(Q, m - 1, 0, u))
<1> DEFINE z == Len(P[1])
           a == Len(u)
<1>1. m \in Nat /\ 1 <= m /\ m - 1 \in Nat /\ IsSeq(u) /\ a \in Nat
  BY SeqEmpty DEF Laid
<1>2. z \in Nat
  <2>1. 1 \in 1 .. m
    BY <1>1
  <2> QED
    BY <2>1, SeqEmpty DEF Pieces
<1>3. \A i \in 1 .. m : Offset(P, i + 1) = Offset(Q, i) + z /\ Offset(Q, i) \in Nat
  <2>1. ASSUME NEW i \in 1 .. m PROVE Offset(Q, i) \in Nat
    <3>1. i \in 1 .. (m - 1) + 1
      BY <1>1
    <3> QED
      BY <3>1, OffsetFacts DEF Offsets
  <2>2. ASSUME NEW i \in 1 .. m PROVE Offset(P, i + 1) = Offset(Q, i) + z
    BY OffsetTail
  <2> QED
    BY <2>1, <2>2
<1> HIDE DEF z
<1>4. /\ Offset(P, 1 + 1) = Offset(Q, 0 + 1) + z /\ Offset(Q, 0 + 1) \in Nat
      /\ Offset(P, m + 1) = Offset(Q, (m - 1) + 1) + z /\ Offset(Q, (m - 1) + 1) \in Nat
  <2>1. 1 \in 1 .. m /\ m \in 1 .. m /\ (m - 1) + 1 = m /\ 0 + 1 = 1
    BY <1>1
  <2> QED
    BY <1>3, <2>1
<1> DEFINE o == Offset(Q, 0 + 1)
           e == Offset(Q, (m - 1) + 1)
<1>5. /\ o + z + a <= e + z /\ (Full(P, m, 1, u) => o + z + a = e + z)
      /\ o \in Nat /\ e \in Nat
  BY <1>4 DEF Laid, Full
<1>6. o + a <= e /\ (Full(P, m, 1, u) => o + a = e)
  <2> HIDE DEF o, e, a
  <2> QED
    BY <1>1, <1>2, <1>5
<1>7. ASSUME NEW i \in 0 + 1 .. m - 1, NEW j \in 1 .. Len(Q[i]), NEW p \in 1 .. Len(u),
             o + p = Offset(Q, i) + j
      PROVE  u[p] = Q[i][j]
  <2>1. i \in 1 .. m /\ i \in 1 .. m - 1 /\ i + 1 \in 1 + 1 .. m
    BY <1>1
  <2>2. Q[i] = P[i + 1] /\ Offset(P, i + 1) = Offset(Q, i) + z /\ Offset(Q, i) \in Nat
    BY <1>3, <2>1
  <2>3. Offset(P, 1 + 1) + p = Offset(P, i + 1) + j
    <3> DEFINE y == Offset(Q, i)
    <3>1. o \in Nat /\ y \in Nat /\ p \in Nat /\ j \in Int /\ o + p = y + j
      BY <1>1, <1>5, <1>7, <2>2
    <3> HIDE DEF o, y
    <3>2. (o + z) + p = (y + z) + j
      BY <1>2, <3>1
    <3> QED
      BY <1>4, <2>2, <3>2 DEF o, y
  <2>4. \A x \in 1 + 1 .. m : \A k \in 1 .. Len(P[x]) : \A q \in 1 .. Len(u) :
          Offset(P, 1 + 1) + q = Offset(P, x) + k => u[q] = P[x][k]
    BY DEF Laid
  <2>5. j \in 1 .. Len(P[i + 1])
    BY <2>2
  <2> QED
    BY <2>1, <2>2, <2>3, <2>4, <2>5
<1>8. Laid(Q, m - 1, 0, u)
  BY <1>1, <1>6, <1>7 DEF Laid
<1>9. Full(P, m, 1, u) => Full(Q, m - 1, 0, u)
  BY <1>6 DEF Full
<1> QED
  BY <1>8, <1>9

-------------------------------------------------------------------------------
(* The records of a client: their data, and their bytes.                     *)

Heard(recs) ==
  IsSeq(recs) /\ \A i \in 1 .. Len(recs) : recs[i].len \in Nat /\ IsSeq(recs[i].body)
Bodies(recs) == [i \in 1 .. Len(recs) |-> recs[i].body]
Wires(recs) == [i \in 1 .. Len(recs) |-> UnitsOf(recs[i])]

LEMMA HeardPieces ==
  ASSUME NEW recs, Heard(recs), NEW m \in Nat, m <= Len(recs)
  PROVE  /\ Pieces(Bodies(recs), m) /\ Pieces(Wires(recs), m)
         /\ \A i \in 1 .. m : /\ Bodies(recs)[i] = recs[i].body
                              /\ Len(Wires(recs)[i]) = HeaderLen + recs[i].len
                              /\ Len(Wires(recs)[i]) > 0
                              /\ Wires(recs)[i][1] = [rec |-> recs[i], at |-> 1]
<1>1. ASSUME NEW i \in 1 .. m
      PROVE  /\ i \in 1 .. Len(recs) /\ recs[i].len \in Nat /\ IsSeq(recs[i].body)
             /\ Bodies(recs)[i] = recs[i].body /\ Wires(recs)[i] = UnitsOf(recs[i])
  <2>1. i \in 1 .. Len(recs)
    BY SeqEmpty DEF Heard
  <2> QED
    BY <2>1 DEF Heard, Bodies, Wires
<1>2. ASSUME NEW i \in 1 .. m
      PROVE  /\ IsSeq(UnitsOf(recs[i])) /\ Len(UnitsOf(recs[i])) = HeaderLen + recs[i].len
             /\ Len(UnitsOf(recs[i])) > 0
             /\ UnitsOf(recs[i])[1] = [rec |-> recs[i], at |-> 1]
  <2> DEFINE r == recs[i]
  <2>1. r.len \in Nat /\ HeaderLen \in Nat \ {0}
    BY <1>1, OriginAssumption
  <2> HIDE DEF r
  <2>2. /\ IsSeq(UnitsOf(r)) /\ Len(UnitsOf(r)) = HeaderLen + r.len
        /\ Len(UnitsOf(r)) \in Nat \ {0}
    BY <2>1, UnitsSeq
  <2>3. 1 \in 1 .. HeaderLen + r.len
    BY <2>1
  <2>4. UnitsOf(r)[1] = [rec |-> r, at |-> 1]
    BY <2>1, <2>3, UnitsAt
  <2> QED
    BY <2>2, <2>4 DEF r
<1> QED
  BY <1>1, <1>2 DEF Pieces

LEMMA DataOffset ==
  ASSUME NEW recs, Heard(recs), NEW i \in 1 .. Len(recs) + 1
  PROVE  DataBefore(recs, i) = Offset(Bodies(recs), i)
<1> DEFINE f == [j \in 1 .. i - 1 |-> Len(recs[j].body)]
           g == [j \in 1 .. i - 1 |-> Len(Bodies(recs)[j])]
<1>1. Len(recs) \in Nat
  BY SeqEmpty DEF Heard
<1>2. \A x \in 1 .. i - 1 : f[x] = g[x]
  BY <1>1 DEF Bodies
<1> HIDE DEF f, g
<1>3. Total(f, 1 .. i - 1) = Total(g, 1 .. i - 1)
  BY <1>2, TotalSame
<1> QED
  BY <1>3 DEF DataBefore, Offset, f, g

LEMMA DataLaid ==
  ASSUME NEW recs, Heard(recs), NEW k \in 0 .. Len(recs), NEW data, IsSeq(data)
  PROVE  DataOf(recs, k, data) <=> /\ \A i \in 1 .. k : Good(recs[i])
                                   /\ Laid(Bodies(recs), k, 0, data) /\ Full(Bodies(recs), k, 0, data)
<1> DEFINE P == Bodies(recs)
<1>1. Len(recs) \in Nat /\ Len(data) \in Nat /\ k \in Nat /\ k <= Len(recs)
  BY SeqEmpty DEF Heard
<1>2. Offsets(P, k) /\ \A i \in 1 .. k : P[i] = recs[i].body
  BY <1>1, HeardPieces, OffsetFacts
<1>3. \A i \in 1 .. k + 1 : DataBefore(recs, i) = Offset(P, i)
  <2>1. \A i \in 1 .. k + 1 : i \in 1 .. Len(recs) + 1
    BY <1>1
  <2> QED
    BY <2>1, DataOffset
<1> HIDE DEF P
<1>4. Offset(P, 0 + 1) = 0 /\ 0 + 1 \in 1 .. k + 1 /\ k + 1 \in 1 .. k + 1
  BY <1>1, <1>2 DEF Offsets
<1>5. /\ Offset(P, k + 1) \in Nat
      /\ \A i \in 1 .. k : /\ Offset(P, i) \in Nat /\ Len(P[i]) \in Nat
                           /\ Offset(P, i) + Len(P[i]) <= Offset(P, k + 1)
  <2>1. Offset(P, k + 1) \in Nat
    BY <1>2, <1>4 DEF Offsets
  <2>2. ASSUME NEW i \in 1 .. k
        PROVE  /\ Offset(P, i) \in Nat /\ Len(P[i]) \in Nat
               /\ Offset(P, i) + Len(P[i]) <= Offset(P, k + 1)
    <3>1. i \in 1 .. k + 1 /\ i + 1 \in 1 .. k + 1 /\ i + 1 <= k + 1
      BY <1>1
    <3>2. Offset(P, i + 1) = Offset(P, i) + Len(P[i]) /\ Offset(P, i + 1) <= Offset(P, k + 1)
      BY <1>2, <1>4, <3>1 DEF Offsets
    <3> QED
      BY <1>2, <3>1, <3>2 DEF Offsets
  <2> QED
    BY <2>1, <2>2
<1>6. ASSUME DataOf(recs, k, data)
      PROVE  (\A i \in 1 .. k : Good(recs[i])) /\ Laid(P, k, 0, data) /\ Full(P, k, 0, data)
  <2>1. Len(data) = Offset(P, k + 1)
    BY <1>3, <1>4, <1>6 DEF DataOf
  <2>2. ASSUME NEW i \in 1 .. k, NEW j \in 1 .. Len(P[i]), NEW p \in 1 .. Len(data),
               0 + p = Offset(P, i) + j
        PROVE  data[p] = P[i][j]
    <3>1. p = DataBefore(recs, i) + j /\ P[i] = recs[i].body
      BY <1>1, <1>2, <1>3, <2>2
    <3>2. data[DataBefore(recs, i) + j] = recs[i].body[j]
      BY <1>6, <3>1 DEF DataOf
    <3> QED
      BY <3>1, <3>2
  <2>3. Full(P, k, 0, data)
    BY <1>1, <1>4, <2>1 DEF Full
  <2>4. Offset(P, 0 + 1) + Len(data) <= Offset(P, k + 1)
    BY <1>1, <1>4, <2>1
  <2>5. \A i \in 0 + 1 .. k : \A j \in 1 .. Len(P[i]) : \A p \in 1 .. Len(data) :
          Offset(P, 0 + 1) + p = Offset(P, i) + j => data[p] = P[i][j]
    BY <1>4, <2>2
  <2>6. Laid(P, k, 0, data)
    BY <1>1, <2>4, <2>5 DEF Laid
  <2> QED
    BY <1>6, <2>3, <2>6 DEF DataOf
<1>7. ASSUME \A i \in 1 .. k : Good(recs[i]), Laid(P, k, 0, data), Full(P, k, 0, data)
      PROVE  DataOf(recs, k, data)
  <2>1. Len(data) = Offset(P, k + 1)
    BY <1>1, <1>4, <1>5, <1>7 DEF Full
  <2>2. ASSUME NEW i \in 1 .. k, NEW j \in 1 .. Len(recs[i].body)
        PROVE  data[DataBefore(recs, i) + j] = recs[i].body[j]
    <3> DEFINE p == Offset(P, i) + j
    <3>1. i \in 1 .. k + 1 /\ i \in 0 + 1 .. k /\ P[i] = recs[i].body
      BY <1>1, <1>2
    <3>2. p \in 1 .. Len(data) /\ Offset(P, 0 + 1) + p = Offset(P, i) + j
      BY <1>1, <1>4, <1>5, <2>1, <3>1
    <3>3. data[p] = P[i][j]
      BY <1>7, <3>1, <3>2 DEF Laid
    <3> QED
      BY <1>3, <3>1, <3>3
  <2>3. Len(data) = DataBefore(recs, k + 1)
    BY <1>3, <1>4, <2>1
  <2> QED
    BY <1>7, <2>2, <2>3 DEF DataOf
<1> QED
  BY <1>6, <1>7 DEF P

LEMMA DataNone ==
  ASSUME NEW recs
  PROVE  DataOf(recs, 0, <<>>)
<1> DEFINE f == [j \in 1 .. 0 + 1 - 1 |-> Len(recs[j].body)]
<1>1. \A x \in 1 .. 0 + 1 - 1 : f[x] \in Int /\ f[x] <= 0
  OBVIOUS
<1> HIDE DEF f
<1>2. Total(f, 1 .. 0 + 1 - 1) = 0
  BY <1>1, TotalZero
<1>3. DataBefore(recs, 0 + 1) = 0
  BY <1>2 DEF DataBefore, f
<1> QED
  BY <1>3 DEF DataOf

\* One more record was read.
LEMMA DataGrows ==
  ASSUME NEW recs, Heard(recs), NEW k \in Nat, k + 1 \in 1 .. Len(recs), NEW data, IsSeq(data),
         DataOf(recs, k, data), Good(recs[k + 1])
  PROVE  DataOf(recs, k + 1, data \o recs[k + 1].body)
<1> DEFINE P == Bodies(recs)
<1>1. Len(recs) \in Nat /\ k \in 0 .. Len(recs) /\ k + 1 \in 0 .. Len(recs)
  BY SeqEmpty DEF Heard
<1>2. Laid(P, k, 0, data) /\ Full(P, k, 0, data) /\ \A i \in 1 .. k : Good(recs[i])
  BY <1>1, DataLaid
<1>3. Pieces(P, k + 1) /\ P[k + 1] = recs[k + 1].body
  <2> DEFINE m == k + 1
  <2>1. m \in Nat /\ m <= Len(recs) /\ m \in 1 .. m
    BY <1>1
  <2> HIDE DEF m
  <2>2. Pieces(P, m) /\ P[m] = recs[m].body
    BY <2>1, HeardPieces
  <2> QED
    BY <2>2 DEF m
<1>4. IsSeq(data \o recs[k + 1].body)
  BY SeqConcat DEF Heard
<1> HIDE DEF P
<1>5. Laid(P, k + 1, 0, data \o P[k + 1]) /\ Full(P, k + 1, 0, data \o P[k + 1])
  BY <1>2, <1>3, LaidAppend
<1>6. \A i \in 1 .. k + 1 : Good(recs[i])
  BY <1>2
<1> QED
  BY <1>1, <1>3, <1>4, <1>5, <1>6, DataLaid DEF P

\* One more record was sent.
LEMMA DataKept ==
  ASSUME NEW recs, Heard(recs), NEW new, Heard(new), Len(new) >= Len(recs),
         \A i \in 1 .. Len(recs) : new[i] = recs[i],
         NEW k \in 0 .. Len(recs), NEW data, IsSeq(data), DataOf(recs, k, data)
  PROVE  DataOf(new, k, data)
<1> DEFINE P == Bodies(recs)
           Q == Bodies(new)
<1>1. Len(recs) \in Nat /\ Len(new) \in Nat /\ k \in Nat /\ k <= Len(recs) /\ k <= Len(new)
  BY SeqEmpty DEF Heard
<1>2. k \in 0 .. Len(new)
  BY <1>1
<1>3. Laid(P, k, 0, data) /\ Full(P, k, 0, data) /\ \A i \in 1 .. k : Good(recs[i])
  BY DataLaid
<1>4. \A j \in 1 .. k : P[j] = Q[j] /\ new[j] = recs[j]
  BY <1>1 DEF Bodies
<1> HIDE DEF P, Q
<1>5. Laid(Q, k, 0, data) /\ Full(Q, k, 0, data)
  BY <1>3, <1>4, LaidSame
<1>6. \A i \in 1 .. k : Good(new[i])
  BY <1>3, <1>4
<1> QED
  BY <1>2, <1>5, <1>6, DataLaid DEF Q

\* The bytes u are those of the records after the n-th: all of them, or, when some
\* were lost, the first.
Flow(recs, n, u, whole) ==
  /\ Laid(Wires(recs), Len(recs), n, u)
  /\ whole => Full(Wires(recs), Len(recs), n, u)

LEMMA FlowBegins == Flow(<<>>, 0, <<>>, TRUE)
<1> DEFINE e == <<>>
           P == Wires(e)
<1>1. e \in Seq({}) /\ Len(e) = 0
  OBVIOUS
<1>2. IsSeq(e)
  BY <1>1, SeqAny
<1>3. Pieces(P, 0)
  BY DEF Pieces
<1> HIDE DEF e, P
<1>4. Offset(P, 0 + 1) = 0
  BY <1>3, OffsetFacts DEF Offsets
<1>5. Full(P, 0, 0, e)
  BY <1>1, <1>4 DEF Full
<1>6. Laid(P, 0, 0, e)
  BY <1>1, <1>2, <1>4 DEF Laid
<1>7. Flow(e, 0, e, TRUE)
  BY <1>1, <1>5, <1>6 DEF Flow, P
<1> QED
  BY <1>7 DEF e

LEMMA FlowFirst ==
  ASSUME NEW recs, Heard(recs), NEW n, NEW u, NEW whole, Flow(recs, n, u, whole), Len(u) > 0
  PROVE  n \in Nat /\ n + 1 \in 1 .. Len(recs) /\ u[1] = [rec |-> recs[n + 1], at |-> 1]
<1> DEFINE P == Wires(recs)
           m == Len(recs)
<1>1. m \in Nat /\ m <= m
  BY SeqEmpty DEF Heard
<1>2. /\ Pieces(P, m) /\ \A i \in 1 .. m : Len(P[i]) > 0
      /\ \A i \in 1 .. m : P[i][1] = [rec |-> recs[i], at |-> 1]
  BY <1>1, HeardPieces
<1>3. Laid(P, m, n, u)
  BY DEF Flow
<1>4. n \in Nat
  BY <1>3 DEF Laid
<1> HIDE DEF P, m
<1>5. n + 1 \in 1 .. m /\ u[1] = P[n + 1][1]
  BY <1>2, <1>3, LaidFirst
<1> QED
  BY <1>2, <1>4, <1>5 DEF m

LEMMA FlowSent ==
  ASSUME NEW recs, Heard(recs), NEW n, NEW u, Flow(recs, n, u, TRUE),
         NEW new, Heard(new), Len(new) = Len(recs) + 1, \A i \in 1 .. Len(recs) : new[i] = recs[i]
  PROVE  Flow(new, n, u \o UnitsOf(new[Len(recs) + 1]), TRUE)
<1> DEFINE P == Wires(recs)
           Q == Wires(new)
           m == Len(recs)
           t == UnitsOf(new[m + 1])
<1>1. m \in Nat /\ Len(new) = m + 1 /\ m + 1 \in Nat /\ m + 1 <= Len(new) /\ m + 1 \in 1 .. m + 1
  BY SeqEmpty DEF Heard
<1>2. Pieces(Q, m + 1)
  BY <1>1, HeardPieces
<1>3. \A j \in 1 .. m : P[j] = Q[j]
  BY <1>1 DEF Wires
<1>4. Q[m + 1] = t
  BY <1>1 DEF Wires
<1>5. Laid(P, m, n, u) /\ Full(P, m, n, u)
  BY DEF Flow
<1> HIDE DEF P, Q, m, t
<1>6. Laid(Q, m, n, u) /\ Full(Q, m, n, u)
  BY <1>3, <1>5, LaidSame
<1>7. Laid(Q, m + 1, n, u \o Q[m + 1]) /\ Full(Q, m + 1, n, u \o Q[m + 1])
  BY <1>2, <1>6, LaidAppend
<1>8. Flow(new, n, u \o t, TRUE)
  BY <1>1, <1>4, <1>7 DEF Flow, Q
<1> QED
  BY <1>8 DEF t, m

LEMMA FlowCut ==
  ASSUME NEW recs, Heard(recs), NEW n, NEW u, NEW whole, Flow(recs, n, u, whole),
         NEW v, IsSeq(v), Len(v) <= Len(u), \A p \in 1 .. Len(v) : v[p] = u[p]
  PROVE  Flow(recs, n, v, FALSE)
<1>1. Len(recs) \in Nat /\ Len(recs) <= Len(recs)
  BY SeqEmpty DEF Heard
<1>2. Pieces(Wires(recs), Len(recs))
  BY <1>1, HeardPieces
<1> QED
  BY <1>2, LaidCut DEF Flow

LEMMA FlowTaken ==
  ASSUME NEW recs, Heard(recs), NEW n, NEW u, NEW whole, Flow(recs, n, u, whole),
         n + 1 \in 1 .. Len(recs), NEW k, k = HeaderLen + recs[n + 1].len, k <= Len(u),
         NEW v, IsSeq(v), Len(v) = Len(u) - k, \A p \in 1 .. Len(v) : v[p] = u[p + k]
  PROVE  Flow(recs, n + 1, v, whole)
<1> DEFINE P == Wires(recs)
           m == Len(recs)
<1>1. m \in Nat /\ m <= m
  BY SeqEmpty DEF Heard
<1>2. Pieces(P, m) /\ Len(P[n + 1]) = k
  BY <1>1, HeardPieces
<1>3. Laid(P, m, n, u) /\ (whole => Full(P, m, n, u))
  BY DEF Flow
<1>4. n + 1 \in 1 .. m
  OBVIOUS
<1> HIDE DEF P, m
<1>5. Laid(P, m, n + 1, v) /\ (Full(P, m, n, u) => Full(P, m, n + 1, v))
  BY <1>2, <1>3, <1>4, LaidDrop
<1> QED
  BY <1>3, <1>5 DEF Flow, P, m

\* The bytes of the records behind the first one are those of a shorter stream.
FirstOff(recs, rest) ==
  /\ IsSeq(rest) /\ Len(recs) \in Nat /\ 1 <= Len(recs) /\ Len(rest) = Len(recs) - 1
  /\ \A i \in 1 .. Len(rest) : rest[i] = recs[i + 1]

LEMMA FlowTail ==
  ASSUME NEW recs, Heard(recs), NEW rest, FirstOff(recs, rest), NEW u, NEW whole,
         Flow(recs, 1, u, whole)
  PROVE  Heard(rest) /\ Flow(rest, 0, u, whole)
<1> DEFINE P == Wires(recs)
           Q == Wires(rest)
           m == Len(recs)
<1>1. m \in Nat /\ m <= m /\ Len(rest) = m - 1 /\ m - 1 \in Nat /\ m - 1 <= Len(rest)
  BY DEF FirstOff
<1>2. Heard(rest)
  <2>1. ASSUME NEW i \in 1 .. Len(rest) PROVE rest[i].len \in Nat /\ IsSeq(rest[i].body)
    <3>1. i + 1 \in 1 .. Len(recs) /\ rest[i] = recs[i + 1]
      BY <1>1 DEF FirstOff
    <3> QED
      BY <3>1 DEF Heard
  <2> QED
    BY <2>1 DEF Heard, FirstOff
<1>3. Pieces(P, m) /\ Pieces(Q, m - 1)
  BY <1>1, <1>2, HeardPieces
<1>4. ASSUME NEW j \in 1 .. m - 1 PROVE Q[j] = P[j + 1]
  <2>1. j \in 1 .. Len(rest) /\ j + 1 \in 1 .. m /\ rest[j] = recs[j + 1]
    BY <1>1 DEF FirstOff
  <2> QED
    BY <2>1 DEF Wires
<1>5. Laid(P, m, 1, u) /\ (whole => Full(P, m, 1, u))
  BY DEF Flow
<1> HIDE DEF P, Q, m
<1>6. Laid(Q, m - 1, 0, u) /\ (Full(P, m, 1, u) => Full(Q, m - 1, 0, u))
  BY <1>3, <1>4, <1>5, LaidTail
<1> QED
  BY <1>1, <1>2, <1>5, <1>6 DEF Flow, Q

-------------------------------------------------------------------------------
(* The records that a handshake has taken, and those it has left.            *)

Begins(tak, sent) ==
  /\ IsSeq(tak) /\ IsSeq(sent) /\ Len(tak) <= Len(sent)
  /\ \A i \in 1 .. Len(tak) : tak[i] = sent[i]
Rest(sent, tak) == SubSeq(sent, Len(tak) + 1, Len(sent))

RestAt(sent, m, recs) ==
  /\ IsSeq(recs) /\ Len(recs) = Len(sent) - m /\ Len(recs) \in Nat
  /\ \A i \in 1 .. Len(recs) : \A p : p = m + i => recs[i] = sent[p]

LEMMA RestView ==
  ASSUME NEW tak, NEW sent, Begins(tak, sent)
  PROVE  RestAt(sent, Len(tak), Rest(sent, tak))
<1> DEFINE m == Len(tak)
           recs == SubSeq(sent, m + 1, Len(sent))
<1>1. Len(sent) \in Nat /\ m \in Nat /\ m <= Len(sent) /\ m + 1 \in Nat \ {0}
  BY SeqEmpty DEF Begins
<1>2. /\ IsSeq(recs) /\ Len(recs) = (IF m + 1 <= Len(sent) THEN Len(sent) - (m + 1) + 1 ELSE 0)
      /\ \A i \in 1 .. Len(recs) : recs[i] = sent[m + 1 + i - 1]
  BY <1>1, SeqSub DEF Begins
<1>3. Rest(sent, tak) = recs
  BY DEF Rest
<1> HIDE DEF recs, m
<1>4. Len(recs) = Len(sent) - m /\ Len(recs) \in Nat
  BY <1>1, <1>2
<1>5. ASSUME NEW i \in 1 .. Len(recs), NEW p, p = m + i PROVE recs[i] = sent[p]
  <2>1. m + 1 + i - 1 = p
    BY <1>1, <1>4, <1>5
  <2> QED
    BY <1>2, <2>1
<1> QED
  BY <1>2, <1>3, <1>4, <1>5 DEF RestAt, m

\* The client sends one more of them.
OneMore(recs, more, rec) ==
  /\ IsSeq(recs) /\ IsSeq(more) /\ Len(recs) \in Nat /\ Len(more) = Len(recs) + 1
  /\ \A i \in 1 .. Len(recs) : more[i] = recs[i]
  /\ more[Len(recs) + 1] = rec

LEMMA RestSent ==
  ASSUME NEW tak, NEW sent, Begins(tak, sent), NEW rec
  PROVE  Begins(tak, Append(sent, rec)) /\ OneMore(Rest(sent, tak), Rest(Append(sent, rec), tak), rec)
<1> DEFINE new == Append(sent, rec)
           a == Rest(sent, tak)
           b == Rest(new, tak)
           m == Len(tak)
<1>1. Len(sent) \in Nat /\ m \in Nat /\ m <= Len(sent) /\ IsSeq(sent)
  BY SeqEmpty DEF Begins
<1>2. /\ IsSeq(new) /\ Len(new) = Len(sent) + 1 /\ new[Len(sent) + 1] = rec
      /\ \A i \in 1 .. Len(sent) : new[i] = sent[i]
  BY <1>1, SeqAppend
<1> HIDE DEF new, a, b
<1>3. Begins(tak, new)
  <2>1. ASSUME NEW i \in 1 .. m PROVE tak[i] = new[i]
    <3>1. i \in 1 .. Len(sent)
      BY <1>1
    <3> QED
      BY <1>2, <3>1 DEF Begins
  <2>2. m <= Len(new)
    BY <1>1, <1>2
  <2> QED
    BY <1>2, <2>1, <2>2 DEF Begins
<1>4. RestAt(sent, m, a) /\ RestAt(new, m, b)
  BY <1>3, RestView DEF a, b
<1> HIDE DEF m
<1>5. IsSeq(a) /\ IsSeq(b) /\ Len(a) \in Nat /\ Len(a) = Len(sent) - m /\ Len(b) = Len(new) - m
  BY <1>4 DEF RestAt
<1>6. Len(b) = Len(a) + 1
  BY <1>1, <1>2, <1>5
<1>7. ASSUME NEW i \in 1 .. Len(a) PROVE b[i] = a[i]
  <2>1. i \in 1 .. Len(b) /\ m + i \in 1 .. Len(sent)
    BY <1>1, <1>5, <1>6
  <2>2. b[i] = new[m + i] /\ a[i] = sent[m + i]
    BY <1>4, <2>1 DEF RestAt
  <2> QED
    BY <1>2, <2>1, <2>2
<1>8. b[Len(a) + 1] = rec
  <2>1. Len(a) + 1 \in 1 .. Len(b) /\ Len(sent) + 1 = m + (Len(a) + 1)
    BY <1>1, <1>5, <1>6
  <2>2. b[Len(a) + 1] = new[Len(sent) + 1]
    BY <1>4, <2>1 DEF RestAt
  <2> QED
    BY <1>2, <2>2
<1>9. OneMore(a, b, rec)
  BY <1>5, <1>6, <1>7, <1>8 DEF OneMore
<1> QED
  BY <1>3, <1>9 DEF new, a, b

\* The handshake takes the first of them.
LEMMA RestTaken ==
  ASSUME NEW tak, NEW sent, Begins(tak, sent), 1 \in 1 .. Len(Rest(sent, tak)),
         NEW rec, rec = Rest(sent, tak)[1]
  PROVE  Begins(Append(tak, rec), sent) /\ FirstOff(Rest(sent, tak), Rest(sent, Append(tak, rec)))
<1> DEFINE new == Append(tak, rec)
           a == Rest(sent, tak)
           b == Rest(sent, new)
           m == Len(tak)
<1>1. Len(sent) \in Nat /\ m \in Nat /\ m <= Len(sent) /\ IsSeq(tak)
  BY SeqEmpty DEF Begins
<1>2. /\ IsSeq(new) /\ Len(new) = m + 1 /\ new[m + 1] = rec
      /\ \A i \in 1 .. m : new[i] = tak[i]
  BY <1>1, SeqAppend
<1>3. RestAt(sent, m, a)
  BY RestView
<1>4. 1 \in 1 .. Len(a) /\ rec = a[1]
  OBVIOUS
<1> HIDE DEF new, a, b
<1>5. Len(a) = Len(sent) - m /\ Len(a) \in Nat /\ 1 <= Len(a)
  BY <1>3, <1>4 DEF RestAt
<1>6. m + 1 <= Len(sent)
  BY <1>1, <1>5
<1>7. rec = sent[m + 1]
  BY <1>3, <1>4 DEF RestAt
<1>8. Begins(new, sent)
  <2>1. ASSUME NEW i \in 1 .. Len(new) PROVE new[i] = sent[i]
    <3>1. CASE i \in 1 .. m
      BY <1>2, <3>1 DEF Begins
    <3>2. CASE i = m + 1
      BY <1>2, <1>7, <3>2
    <3> QED
      BY <1>1, <1>2, <3>1, <3>2
  <2> QED
    BY <1>2, <1>6, <2>1 DEF Begins
<1>9. RestAt(sent, m + 1, b)
  BY <1>2, <1>8, RestView DEF b
<1> HIDE DEF m
<1>10. IsSeq(b) /\ Len(b) = Len(sent) - (m + 1)
  BY <1>9 DEF RestAt
<1>11. Len(b) = Len(a) - 1
  BY <1>1, <1>5, <1>10
<1>12. ASSUME NEW i \in 1 .. Len(b) PROVE b[i] = a[i + 1]
  <2>1. i + 1 \in 1 .. Len(a) /\ (m + 1) + i = m + (i + 1)
    BY <1>1, <1>5, <1>11
  <2>2. b[i] = sent[(m + 1) + i] /\ a[i + 1] = sent[m + (i + 1)]
    BY <1>3, <1>9, <2>1 DEF RestAt
  <2> QED
    BY <2>1, <2>2
<1>13. FirstOff(a, b)
  BY <1>5, <1>10, <1>11, <1>12 DEF FirstOff
<1> QED
  BY <1>8, <1>13 DEF new, a, b

\* Concatenation, in any order.
Associates(a, b, d) == (a \o b) \o d = a \o (b \o d)

LEMMA SeqAssoc ==
  ASSUME NEW a, IsSeq(a), NEW b, IsSeq(b), NEW d, IsSeq(d)
  PROVE  Associates(a, b, d)
<1> DEFINE T == {a[i] : i \in 1 .. Len(a)} \cup {b[i] : i \in 1 .. Len(b)}
                  \cup {d[i] : i \in 1 .. Len(d)}
<1>1. a \in Seq(T) /\ b \in Seq(T) /\ d \in Seq(T)
  BY DEF IsSeq
<1> HIDE DEF T
<1> QED
  BY <1>1, ConcatAssociative DEF Associates

-------------------------------------------------------------------------------
(* The reader of a TlsStream s: g was read of it, recs were sent to it and lan *)
(* is on its way.                                                            *)

\* The header of the next record was read.
Begun(s) ==
  s.expected # None =>
    /\ s.expected = s.encrypted[1].rec.len /\ s.expected <= MaxRecord
    /\ Len(s.encrypted) > 0

\* It reads: all data up to the record its keys are at, and the bytes from there on.
Open(s, g, recs, eof, lan) ==
  /\ s.read_keys.key = "client"
  /\ s.read_keys.seq \in 0 .. Len(recs)
  /\ DataOf(recs, s.read_keys.seq, g \o s.plaintext)
  /\ Flow(recs, s.read_keys.seq, s.encrypted \o lan, ~eof)
  /\ Begun(s)

\* It has reported the end.
Over(s, g, recs, eof, lan) ==
  \/ \E k \in 0 .. Len(recs) - 1 :
       DataOf(recs, k, g) /\ recs[k + 1].type = "alert" /\ recs[k + 1].key = "client"
  \/ eof /\ s.encrypted = <<>> /\ lan = <<>>

Streamed(s, g) ==
  /\ DOMAIN s = StreamFields /\ DOMAIN s.read_keys = {"key", "seq"}
  /\ IsSeq(s.encrypted) /\ IsSeq(s.plaintext) /\ IsSeq(g)

Reader(st, e, s, g, recs, eof, lan) ==
  /\ Streamed(s, g) /\ Heard(recs)
  /\ \E k \in 0 .. Len(recs) : DataOf(recs, k, g \o s.plaintext)
  /\ e = "eof" => Over(s, g, recs, eof, lan)
  /\ st = "stream" /\ e = "open" => Open(s, g, recs, eof, lan)

\* A reader that reads is as good as one that has read.
LEMMA OpenReads ==
  ASSUME NEW s, NEW g, NEW recs, NEW eof, NEW lan, Streamed(s, g), Heard(recs),
         Open(s, g, recs, eof, lan)
  PROVE  \A st : Reader(st, "open", s, g, recs, eof, lan)
  BY DEF Reader, Open

\* The client sends one more record.
LEMMA ReaderSent ==
  ASSUME NEW s, NEW g, NEW recs, NEW lan, IsSeq(lan), Streamed(s, g), Heard(recs),
         NEW eof, eof = FALSE, Open(s, g, recs, eof, lan),
         NEW new, Heard(new), Len(new) = Len(recs) + 1, \A i \in 1 .. Len(recs) : new[i] = recs[i]
  PROVE  Open(s, g, new, eof, lan \o UnitsOf(new[Len(recs) + 1]))
<1> DEFINE n == s.read_keys.seq
           t == UnitsOf(new[Len(recs) + 1])
           x == s.encrypted
<1>1. Len(recs) \in Nat /\ n \in 0 .. Len(recs) /\ n \in 0 .. Len(new) /\ Len(new) >= Len(recs)
  BY SeqEmpty DEF Heard, Open
<1>2. IsSeq(g \o s.plaintext)
  BY SeqConcat DEF Streamed
<1>3. DataOf(recs, n, g \o s.plaintext)
  BY DEF Open
<1>4. DataOf(new, n, g \o s.plaintext)
  <2> DEFINE data == g \o s.plaintext
  <2> HIDE DEF data, n
  <2>1. IsSeq(data) /\ DataOf(recs, n, data)
    BY <1>2, <1>3 DEF data, n
  <2>2. DataOf(new, n, data)
    BY <1>1, <2>1, DataKept DEF n
  <2> QED
    BY <2>2 DEF data
<1>5. Flow(recs, n, x \o lan, TRUE)
  BY DEF Open
<1>6. Flow(new, n, (x \o lan) \o t, TRUE)
  <2> DEFINE u == x \o lan
  <2> HIDE DEF u, n
  <2>1. Flow(recs, n, u, TRUE)
    BY <1>5 DEF u, n
  <2>2. Flow(new, n, u \o t, TRUE)
    BY <2>1, FlowSent
  <2> QED
    BY <2>2 DEF u
<1>7. (x \o lan) \o t = x \o (lan \o t)
  <2>1. IsSeq(t)
    <3>1. Len(recs) + 1 \in 1 .. Len(new)
      BY <1>1
    <3>2. new[Len(recs) + 1].len \in Nat
      BY <3>1 DEF Heard
    <3> QED
      BY <3>2, UnitsSeq
  <2>2. IsSeq(x)
    BY DEF Streamed
  <2>3. IsSeq(lan)
    OBVIOUS
  <2> HIDE DEF x, t
  <2>4. Associates(x, lan, t)
    BY <2>1, <2>2, <2>3, SeqAssoc
  <2> QED
    BY <2>4 DEF Associates
<1>8. Flow(new, n, x \o (lan \o t), TRUE)
  BY <1>6, <1>7
<1> QED
  BY <1>1, <1>4, <1>8 DEF Open

LEMMA SeqNil ==
  ASSUME NEW g, IsSeq(g)
  PROVE  g \o <<>> = g
<1> DEFINE T == {g[i] : i \in 1 .. Len(g)}
<1>1. g \in Seq(T)
  BY DEF IsSeq
<1> HIDE DEF T
<1> QED
  BY <1>1, ConcatSimplifications

\* The first k of a sequence, and the others.
LEMMA SeqHalves ==
  ASSUME NEW s, IsSeq(s), NEW k \in 0 .. Len(s)
  PROVE  /\ IsSeq(SubSeq(s, 1, k)) /\ Len(SubSeq(s, 1, k)) = k
         /\ \A i \in 1 .. k : SubSeq(s, 1, k)[i] = s[i]
         /\ IsSeq(SubSeq(s, k + 1, Len(s))) /\ Len(SubSeq(s, k + 1, Len(s))) = Len(s) - k
         /\ \A i \in 1 .. Len(s) - k : SubSeq(s, k + 1, Len(s))[i] = s[k + i]
<1> DEFINE a == SubSeq(s, 1, k)
           b == SubSeq(s, k + 1, Len(s))
<1>1. Len(s) \in Nat /\ k \in Nat /\ k <= Len(s) /\ k + 1 \in Nat \ {0} /\ 1 \in Nat \ {0}
      /\ Len(s) <= Len(s)
  BY SeqEmpty
<1>2. /\ IsSeq(a) /\ Len(a) = (IF 1 <= k THEN k - 1 + 1 ELSE 0)
      /\ \A i \in 1 .. Len(a) : a[i] = s[1 + i - 1]
  BY <1>1, SeqSub
<1>3. /\ IsSeq(b) /\ Len(b) = (IF k + 1 <= Len(s) THEN Len(s) - (k + 1) + 1 ELSE 0)
      /\ \A i \in 1 .. Len(b) : b[i] = s[k + 1 + i - 1]
  BY <1>1, SeqSub
<1> HIDE DEF a, b
<1>4. Len(a) = k /\ Len(b) = Len(s) - k
  BY <1>1, <1>2, <1>3
<1>5. \A i \in 1 .. k : a[i] = s[i]
  BY <1>1, <1>2, <1>4
<1>6. ASSUME NEW i \in 1 .. Len(s) - k PROVE b[i] = s[k + i]
  <2>1. k + 1 + i - 1 = k + i /\ i \in 1 .. Len(b)
    BY <1>1, <1>4
  <2> QED
    BY <1>3, <2>1
<1> QED
  BY <1>2, <1>3, <1>4, <1>5, <1>6 DEF a, b

\* What is moved from the front of one sequence to the end of another.
LEMMA SeqMoved ==
  ASSUME NEW w, IsSeq(w), NEW p, IsSeq(p), NEW k \in 0 .. Len(p)
  PROVE  /\ IsSeq(w \o SubSeq(p, 1, k)) /\ IsSeq(SubSeq(p, k + 1, Len(p)))
         /\ (w \o SubSeq(p, 1, k)) \o SubSeq(p, k + 1, Len(p)) = w \o p
<1>1. Len(p) \in Nat /\ k \in Nat /\ 0 + k <= Len(p) /\ 0 \in Nat /\ 0 + 1 = 1 /\ 0 + k + 1 = k + 1
  BY SeqEmpty
<1>2. Cut(w, p, 0, k, SubSeq(p, 0 + 1, Len(p)))
  BY <1>1, CutAgain
<1>3. SubSeq(p, 0 + 1, Len(p)) = p
  BY <1>1, SeqAll
<1>4. Cut(w, p, 0, k, p)
  BY <1>2, <1>3
<1> QED
  BY <1>1, <1>4, SeqHalves DEF Cut

\* The connection of the client ends, and what it had sent last is lost.
LEMMA ReaderCut ==
  ASSUME NEW s, NEW g, NEW recs, NEW lan, IsSeq(lan), Streamed(s, g), Heard(recs),
         NEW eof, NEW k \in 0 .. Len(lan)
  PROVE  /\ Open(s, g, recs, eof, lan) => Open(s, g, recs, TRUE, SubSeq(lan, 1, k))
         /\ Over(s, g, recs, eof, lan) => Over(s, g, recs, TRUE, SubSeq(lan, 1, k))
<1> DEFINE x == s.encrypted
           l == SubSeq(lan, 1, k)
           u == x \o lan
           v == x \o l
           n == s.read_keys.seq
<1>1. IsSeq(x) /\ Len(x) \in Nat /\ Len(lan) \in Nat
  BY SeqEmpty DEF Streamed
<1>2. IsSeq(l) /\ Len(l) = k /\ \A i \in 1 .. k : l[i] = lan[i]
  BY SeqHalves
<1> HIDE DEF x, l
<1>3. Parts(x, lan, u) /\ Parts(x, l, v)
  BY <1>1, <1>2, SeqParts
<1> HIDE DEF u, v
<1>4. IsSeq(v) /\ Len(v) <= Len(u)
  BY <1>1, <1>2, <1>3 DEF Parts
<1>5. ASSUME NEW p \in 1 .. Len(v) PROVE v[p] = u[p]
  <2>1. CASE p \in 1 .. Len(x)
    BY <1>3, <2>1 DEF Parts
  <2>2. CASE p \notin 1 .. Len(x)
    <3> DEFINE i == p - Len(x)
    <3>1. i \in 1 .. Len(l) /\ i \in 1 .. Len(lan) /\ p = Len(x) + i
      BY <1>1, <1>2, <1>3, <2>2 DEF Parts
    <3>2. v[p] = l[i] /\ u[p] = lan[i]
      <4> HIDE DEF i
      <4> QED
        BY <1>3, <3>1 DEF Parts
    <3> QED
      BY <1>2, <3>1, <3>2
  <2> QED
    BY <2>1, <2>2
<1>6. ASSUME Open(s, g, recs, eof, lan) PROVE Open(s, g, recs, TRUE, l)
  <2>1. Flow(recs, n, u, ~eof)
    BY <1>6 DEF Open, u, x
  <2> DEFINE whole == ~eof
  <2> HIDE DEF n, whole
  <2>2. Flow(recs, n, u, whole)
    BY <2>1 DEF whole
  <2>3. Flow(recs, n, v, FALSE)
    BY <1>4, <1>5, <2>2, FlowCut
  <2> QED
    BY <1>6, <2>3 DEF Open, v, x, n
<1>7. ASSUME Over(s, g, recs, eof, lan) PROVE Over(s, g, recs, TRUE, l)
  <2>1. lan = <<>> => l = <<>>
    <3>1. ASSUME lan = <<>> PROVE Len(l) = 0
      BY <1>2, <3>1
    <3> QED
      BY <1>2, <3>1, SeqEmpty
  <2> QED
    BY <1>7, <2>1 DEF Over
<1> QED
  BY <1>6, <1>7 DEF l

\* Bytes come in.
LEMMA ReaderFill ==
  ASSUME NEW s, NEW g, NEW recs, NEW lan, IsSeq(lan), Streamed(s, g), NEW eof,
         Open(s, g, recs, eof, lan), NEW k \in 1 .. Len(lan),
         NEW t, t = [s EXCEPT !.encrypted = s.encrypted \o SubSeq(lan, 1, k)]
  PROVE  Streamed(t, g) /\ Open(t, g, recs, eof, SubSeq(lan, k + 1, Len(lan)))
<1> DEFINE x == s.encrypted
           y == x \o SubSeq(lan, 1, k)
           l == SubSeq(lan, k + 1, Len(lan))
<1>1. IsSeq(x) /\ Len(x) \in Nat /\ k \in 0 .. Len(lan)
  BY SeqEmpty DEF Streamed
<1>2. IsSeq(y) /\ y \o l = x \o lan
  <2> HIDE DEF x
  <2> QED
    BY <1>1, SeqMoved
<1>3. Len(x) > 0 => y[1] = x[1] /\ Len(y) > 0
  <2> DEFINE a == SubSeq(lan, 1, k)
  <2>1. IsSeq(a)
    BY <1>1, SeqHalves
  <2> HIDE DEF x, a
  <2>2. Parts(x, a, x \o a)
    BY <1>1, <2>1, SeqParts
  <2>3. y = x \o a
    BY DEF a
  <2> HIDE DEF y
  <2> QED
    BY <1>1, <2>2, <2>3 DEF Parts
<1>4. /\ DOMAIN t = StreamFields /\ t.encrypted = y /\ t.plaintext = s.plaintext
      /\ t.read_keys = s.read_keys /\ t.expected = s.expected
  <2> HIDE DEF y
  <2>1. t = [s EXCEPT !.encrypted = y]
    BY DEF y
  <2> QED
    BY <2>1 DEF Streamed, StreamFields
<1> HIDE DEF y, l
<1>5. Streamed(t, g)
  BY <1>2, <1>4 DEF Streamed
<1>6. Begun(t)
  BY <1>3, <1>4 DEF Open, Begun, x
<1>7. Open(t, g, recs, eof, l)
  BY <1>2, <1>4, <1>6 DEF Open, x
<1> QED
  BY <1>5, <1>7 DEF l

\* Plaintext is handed over.
LEMMA ReaderPlain ==
  ASSUME NEW s, NEW g, NEW recs, NEW lan, Streamed(s, g), NEW eof,
         Open(s, g, recs, eof, lan), NEW k \in 0 .. Len(s.plaintext),
         NEW t, t = [s EXCEPT !.plaintext = PlainLeft(s.plaintext, k)]
  PROVE  /\ Streamed(t, g \o SubSeq(s.plaintext, 1, k))
         /\ Open(t, g \o SubSeq(s.plaintext, 1, k), recs, eof, lan)
<1> DEFINE p == s.plaintext
           h == g \o SubSeq(p, 1, k)
           q == SubSeq(p, k + 1, Len(p))
<1>1. IsSeq(p) /\ IsSeq(g)
  BY DEF Streamed
<1>2. IsSeq(h) /\ IsSeq(q) /\ h \o q = g \o p
  <2> HIDE DEF p
  <2>1. k \in 0 .. Len(p)
    BY DEF p
  <2> QED
    BY <1>1, <2>1, SeqMoved
<1>3. /\ DOMAIN t = StreamFields /\ t.encrypted = s.encrypted /\ t.plaintext = q
      /\ t.read_keys = s.read_keys /\ t.expected = s.expected
  <2>1. t = [s EXCEPT !.plaintext = q]
    BY DEF PlainLeft
  <2> HIDE DEF q
  <2> QED
    BY <2>1 DEF Streamed, StreamFields
<1> HIDE DEF h, q
<1>4. Streamed(t, h)
  BY <1>2, <1>3 DEF Streamed
<1>5. Begun(t)
  BY <1>3 DEF Open, Begun
<1>6. Open(t, h, recs, eof, lan)
  BY <1>2, <1>3, <1>5 DEF Open, p
<1> QED
  BY <1>4, <1>6 DEF h, p

\* The length of the next record is read.
LEMMA ReaderHeader ==
  ASSUME NEW s, NEW g, NEW recs, NEW lan, Streamed(s, g), NEW eof,
         Open(s, g, recs, eof, lan), HeaderReady(s), HeaderFits(s)
  PROVE  Streamed(HeaderRead(s), g) /\ Open(HeaderRead(s), g, recs, eof, lan)
<1> DEFINE x == s.encrypted[1].rec.len
           t == HeaderRead(s)
<1>1. /\ DOMAIN t = StreamFields /\ t.encrypted = s.encrypted /\ t.plaintext = s.plaintext
      /\ t.read_keys = s.read_keys /\ t.expected = x
  <2>1. t = [s EXCEPT !.expected = x]
    BY DEF HeaderRead
  <2> HIDE DEF x, t
  <2> QED
    BY <2>1 DEF Streamed, StreamFields
<1>2. Len(s.encrypted) > 0 /\ x <= MaxRecord
  <2>1. Len(s.encrypted) >= HeaderLen /\ Len(s.encrypted) \in Nat /\ HeaderLen \in Nat \ {0}
    BY OriginAssumption, SeqEmpty DEF HeaderReady, Streamed
  <2> QED
    BY <2>1 DEF HeaderFits
<1> HIDE DEF t
<1>3. Begun(t)
  BY <1>1, <1>2 DEF Begun
<1>4. Streamed(t, g) /\ Open(t, g, recs, eof, lan)
  BY <1>1, <1>3 DEF Streamed, Open
<1> QED
  BY <1>4 DEF t

\* The next record is complete: it is the one after those that were read, and all
\* of its bytes come first.
NextIn(s, recs, lan, t) ==
  LET n == s.read_keys.seq
  IN /\ n \in Nat /\ n + 1 \in 1 .. Len(recs) /\ NextRecord(s) = recs[n + 1]
     /\ recs[n + 1].len <= MaxRecord
     /\ DOMAIN t = StreamFields /\ t.read_keys = [key |-> "client", seq |-> n + 1]
     /\ t.expected = None /\ IsSeq(t.encrypted)
     /\ t.plaintext = (IF recs[n + 1].type = "data" THEN recs[n + 1].body ELSE <<>>)
     /\ \A whole : Flow(recs, n, s.encrypted \o lan, whole) => Flow(recs, n + 1, t.encrypted \o lan, whole)

LEMMA ReaderNext ==
  ASSUME NEW s, NEW g, NEW recs, NEW lan, IsSeq(lan), Streamed(s, g), Heard(recs), NEW eof,
         Open(s, g, recs, eof, lan), RecordReady(s)
  PROVE  NextIn(s, recs, lan, RecordOpened(s))
<1> DEFINE x == s.encrypted
           u == x \o lan
           n == s.read_keys.seq
           t == RecordOpened(s)
           rec == recs[n + 1]
           whole == ~eof
<1>1. IsSeq(x) /\ Len(x) \in Nat /\ Len(x) > 0 /\ s.expected = x[1].rec.len /\ s.expected <= MaxRecord
      /\ Len(x) >= HeaderLen + s.expected
  BY SeqEmpty DEF Streamed, Open, Begun, RecordReady
<1>2. Flow(recs, n, u, whole)
  BY DEF Open
<1>3. Parts(x, lan, u)
  BY <1>1, SeqParts
<1>4. Len(u) > 0 /\ u[1] = x[1]
  <2> HIDE DEF x, u
  <2> QED
    BY <1>1, <1>3 DEF Parts
<1>5. n \in Nat /\ n + 1 \in 1 .. Len(recs) /\ u[1] = [rec |-> rec, at |-> 1]
  <2> HIDE DEF n, u, whole
  <2> QED
    BY <1>2, <1>4, FlowFirst
<1>6. x[1].rec = rec /\ NextRecord(s) = rec
  BY <1>4, <1>5 DEF NextRecord
<1>7. rec.len \in Nat /\ s.expected = rec.len /\ HeaderLen \in Nat
  BY <1>1, <1>5, <1>6, OriginAssumption DEF Heard
<1> DEFINE k == HeaderLen + rec.len
           y == SubSeq(x, k + 1, Len(x))
           v == y \o lan
<1>8. k \in 0 .. Len(x)
  <2> HIDE DEF x, rec
  <2> QED
    BY <1>1, <1>7
<1>9. IsSeq(y) /\ Len(y) = Len(x) - k /\ \A i \in 1 .. Len(x) - k : y[i] = x[k + i]
  <2> HIDE DEF x, k
  <2> QED
    BY <1>1, <1>8, SeqHalves
<1>10. Parts(y, lan, v)
  <2> HIDE DEF y
  <2> QED
    BY <1>9, SeqParts
<1>11. /\ DOMAIN t = StreamFields /\ t.read_keys = [key |-> "client", seq |-> n + 1]
       /\ t.expected = None /\ t.encrypted = y
       /\ t.plaintext = (IF rec.type = "data" THEN rec.body ELSE <<>>)
  <2> DEFINE r == Stepped(s.read_keys)
             p == IF NextRecord(s).type = "data" THEN NextRecord(s).body ELSE <<>>
             z == SubSeq(x, HeaderLen + s.expected + 1, Len(x))
  <2>1. t = [s EXCEPT !.encrypted = z, !.expected = None, !.read_keys = r, !.plaintext = p]
    BY DEF RecordOpened
  <2>2. z = y /\ p = (IF rec.type = "data" THEN rec.body ELSE <<>>)
    BY <1>6, <1>7
  <2>3. r = [key |-> "client", seq |-> n + 1]
    <3>1. DOMAIN s.read_keys = {"key", "seq"} /\ s.read_keys.key = "client"
      BY DEF Streamed, Open
    <3> QED
      BY <3>1 DEF Stepped
  <2>4. DOMAIN s = StreamFields
    BY DEF Streamed
  <2> HIDE DEF r, p, z, t
  <2>5. /\ DOMAIN t = StreamFields /\ t.read_keys = r /\ t.expected = None /\ t.encrypted = z
        /\ t.plaintext = p
    BY <2>1, <2>4 DEF StreamFields
  <2> QED
    BY <2>2, <2>3, <2>5
<1> HIDE DEF x, u, t, k, y, v, n
<1>12. /\ IsSeq(v) /\ Len(v) = Len(u) - k /\ k <= Len(u)
  BY <1>1, <1>3, <1>8, <1>9, <1>10 DEF Parts
<1>13. ASSUME NEW p \in 1 .. Len(v) PROVE v[p] = u[p + k]
  <2>1. CASE p \in 1 .. Len(y)
    <3>1. k + p \in 1 .. Len(x) /\ p + k = k + p /\ p \in 1 .. Len(x) - k
      BY <1>1, <1>8, <1>9, <2>1
    <3>2. v[p] = y[p] /\ y[p] = x[k + p]
      BY <1>9, <1>10, <2>1, <3>1 DEF Parts
    <3>3. u[k + p] = x[k + p]
      BY <1>3, <3>1 DEF Parts
    <3> QED
      BY <3>1, <3>2, <3>3
  <2>2. CASE p \notin 1 .. Len(y)
    <3> DEFINE i == p - Len(y)
    <3>1. i \in 1 .. Len(lan) /\ p = Len(y) + i /\ p + k = Len(x) + i
      BY <1>1, <1>8, <1>9, <1>10, <2>2 DEF Parts
    <3> HIDE DEF i
    <3>2. v[p] = lan[i] /\ u[p + k] = lan[i]
      BY <1>3, <1>10, <3>1 DEF Parts
    <3> QED
      BY <3>2
  <2> QED
    BY <2>1, <2>2
<1>14. ASSUME NEW w, Flow(recs, n, u, w) PROVE Flow(recs, n + 1, v, w)
  BY <1>5, <1>12, <1>13, <1>14, FlowTaken DEF k
<1> QED
  <2>1. rec.len <= MaxRecord
    BY <1>1, <1>7
  <2>2. NextIn(s, recs, lan, t)
    BY <1>5, <1>6, <1>9, <1>11, <1>14, <2>1 DEF NextIn, n, u, v, x
  <2> QED
    BY <2>2 DEF t

\* It is data.
LEMMA ReaderData ==
  ASSUME NEW s, NEW g, NEW recs, NEW lan, IsSeq(lan), Streamed(s, g), Heard(recs), NEW eof,
         Open(s, g, recs, eof, lan), RecordReady(s), s.plaintext = <<>>,
         Opens(s.read_keys, NextRecord(s)), NextRecord(s).type = "data"
  PROVE  Streamed(RecordOpened(s), g) /\ Open(RecordOpened(s), g, recs, eof, lan)
<1> DEFINE t == RecordOpened(s)
           n == s.read_keys.seq
           rec == recs[n + 1]
<1>1. NextIn(s, recs, lan, t)
  BY ReaderNext
<1> HIDE DEF t
<1>2. /\ n \in Nat /\ n + 1 \in 1 .. Len(recs) /\ NextRecord(s) = rec /\ rec.len <= MaxRecord
      /\ DOMAIN t = StreamFields /\ t.read_keys = [key |-> "client", seq |-> n + 1]
      /\ t.expected = None /\ IsSeq(t.encrypted)
      /\ t.plaintext = (IF rec.type = "data" THEN rec.body ELSE <<>>)
  BY <1>1 DEF NextIn
<1>3. t.plaintext = rec.body /\ Good(rec)
  BY <1>2 DEF Good, Opens, Authentic, Open
<1>4. IsSeq(rec.body) /\ IsSeq(g)
  BY <1>2 DEF Heard, Streamed
<1>5. DOMAIN t.read_keys = {"key", "seq"} /\ t.read_keys.key = "client" /\ t.read_keys.seq = n + 1
  BY <1>2
<1>6. Streamed(t, g)
  BY <1>2, <1>3, <1>4, <1>5 DEF Streamed
<1>7. DataOf(recs, n, g)
  BY <1>4, SeqNil DEF Open
<1>8. DataOf(recs, n + 1, g \o rec.body)
  <2> HIDE DEF n
  <2> QED
    BY <1>2, <1>3, <1>4, <1>7, DataGrows
<1>9. Flow(recs, n + 1, t.encrypted \o lan, ~eof)
  <2>1. Flow(recs, n, s.encrypted \o lan, ~eof)
    BY DEF Open
  <2> QED
    BY <1>1, <2>1 DEF NextIn
<1>10. n + 1 \in 0 .. Len(recs)
  BY <1>2
<1>11. Begun(t)
  BY <1>2 DEF Begun
<1>12. Open(t, g, recs, eof, lan)
  BY <1>3, <1>5, <1>8, <1>9, <1>10, <1>11 DEF Open
<1> QED
  BY <1>6, <1>12 DEF t

\* It is an alert.
LEMMA ReaderAlert ==
  ASSUME NEW s, NEW g, NEW recs, NEW lan, IsSeq(lan), Streamed(s, g), Heard(recs), NEW eof,
         Open(s, g, recs, eof, lan), RecordReady(s), s.plaintext = <<>>,
         Opens(s.read_keys, NextRecord(s)), NextRecord(s).type = "alert"
  PROVE  \A st : Reader(st, "eof", RecordOpened(s), g, recs, eof, lan)
<1> DEFINE t == RecordOpened(s)
           n == s.read_keys.seq
           rec == recs[n + 1]
<1>1. NextIn(s, recs, lan, t)
  BY ReaderNext
<1> HIDE DEF t
<1>2. /\ n \in Nat /\ n + 1 \in 1 .. Len(recs) /\ NextRecord(s) = rec
      /\ DOMAIN t = StreamFields /\ t.read_keys = [key |-> "client", seq |-> n + 1]
      /\ IsSeq(t.encrypted)
      /\ t.plaintext = (IF rec.type = "data" THEN rec.body ELSE <<>>)
  BY <1>1 DEF NextIn
<1>3. t.plaintext = <<>> /\ rec.type = "alert" /\ rec.key = "client"
  BY <1>2 DEF Opens, Authentic, Open
<1>4. IsSeq(<<>>) /\ IsSeq(g)
  BY DEF Streamed
<1>5. DOMAIN t.read_keys = {"key", "seq"}
  BY <1>2
<1>6. Streamed(t, g)
  BY <1>2, <1>3, <1>4, <1>5 DEF Streamed
<1>7. DataOf(recs, n, g) /\ g \o t.plaintext = g
  BY <1>3, <1>4, SeqNil DEF Open
<1>8. n \in 0 .. Len(recs) - 1 /\ n \in 0 .. Len(recs)
  <2>1. Len(recs) \in Nat
    BY SeqEmpty DEF Heard
  <2> HIDE DEF n
  <2> QED
    BY <1>2, <2>1
<1>9. Over(t, g, recs, eof, lan)
  BY <1>3, <1>7, <1>8 DEF Over
<1>10. \E k \in 0 .. Len(recs) : DataOf(recs, k, g \o t.plaintext)
  BY <1>7, <1>8
<1> QED
  BY <1>6, <1>9, <1>10 DEF Reader, t

-------------------------------------------------------------------------------
(* The readers of the connections, and the theorem.                          *)

\* A handshake has read nothing for hyper: what is on its way are the records it has
\* left, also those that the client has sent ahead.
Unread(e, s, g, recs, eof, lan) ==
  e = "open" /\ s = NewStream /\ g = <<>> /\ Flow(recs, 0, lan, ~eof)

Listens(idle, st, e, s, g, sent, tak, eof, lan) ==
  /\ Reader(st, e, s, g, Rest(sent, tak), eof, lan) /\ eof \in BOOLEAN
  /\ Begins(tak, sent)
  /\ idle => Unread(e, s, g, Rest(sent, tak), eof, lan)

Hears(c) ==
  Listens(Idle(c), stage[c], ends[c], tls[c], got[c], peer[c].sent, taken[c], peer[c].eof, lane[c])
Reading == DOMAIN got = Conns /\ DOMAIN ends = Conns /\ \A c \in Conns : Hears(c)

\* A stream that begins finds all that the handshake has left.
LEMMA ReaderBegins ==
  ASSUME NEW recs, Heard(recs), NEW st, NEW eof, NEW lan, Flow(recs, 0, lan, ~eof)
  PROVE  Reader(st, "open", NewStream, <<>>, recs, eof, lan)
<1> DEFINE e == <<>>
           s == NewStream
<1>1. Len(e) = 0 /\ IsSeq(e) /\ e \o e = e
  <2>1. e \in Seq({}) /\ Len(e) = 0
    OBVIOUS
  <2>2. IsSeq(e)
    BY <2>1, SeqAny
  <2> QED
    BY <2>1, <2>2, SeqNil
<1>2. e \o lan = lan
  <2>1. IsSeq(lan)
    BY DEF Flow, Laid
  <2> DEFINE T == {lan[i] : i \in 1 .. Len(lan)}
  <2>2. lan \in Seq(T)
    BY <2>1 DEF IsSeq
  <2> HIDE DEF T
  <2> QED
    BY <2>2, ConcatSimplifications
<1>3. /\ DOMAIN s = StreamFields /\ s.read_keys = [key |-> "client", seq |-> 0]
      /\ s.encrypted = e /\ s.plaintext = e /\ s.expected = None
  BY DEF NewStream, StreamFields, NewKeys
<1>4. DOMAIN s.read_keys = {"key", "seq"} /\ s.read_keys.key = "client" /\ s.read_keys.seq = 0
  BY <1>3
<1>5. DataOf(recs, 0, e)
  BY DataNone
<1>6. Len(recs) \in Nat
  BY SeqEmpty DEF Heard
<1> HIDE DEF e, s
<1>7. Streamed(s, e) /\ 0 \in 0 .. Len(recs)
  BY <1>1, <1>3, <1>4, <1>6 DEF Streamed
<1>8. DataOf(recs, 0, e \o s.plaintext)
  BY <1>1, <1>3, <1>5
<1>9. Flow(recs, 0, s.encrypted \o lan, ~eof)
  BY <1>2, <1>3
<1>10. Begun(s)
  BY <1>3 DEF Begun
<1>11. Open(s, e, recs, eof, lan)
  BY <1>4, <1>7, <1>8, <1>9, <1>10 DEF Open
<1>12. Reader(st, "open", s, e, recs, eof, lan)
  BY <1>7, <1>11, OpenReads
<1> QED
  BY <1>12 DEF s, e

\* A connection at its beginning, or one whose handshake goes on or has just ended.
LEMMA ListensNew ==
  ASSUME NEW sent, NEW tak, Begins(tak, sent), Heard(Rest(sent, tak)), NEW st,
         NEW eof \in BOOLEAN, NEW lan, Flow(Rest(sent, tak), 0, lan, ~eof)
  PROVE  \A idle : Listens(idle, st, "open", NewStream, <<>>, sent, tak, eof, lan)
<1>1. Reader(st, "open", NewStream, <<>>, Rest(sent, tak), eof, lan)
  BY ReaderBegins
<1>2. Unread("open", NewStream, <<>>, Rest(sent, tak), eof, lan)
  BY DEF Unread
<1> QED
  BY <1>1, <1>2 DEF Listens

\* What the writer does with a stream leaves its reader alone.
Unmoved(s, t) ==
  /\ DOMAIN t = StreamFields /\ t.read_keys = s.read_keys /\ t.expected = s.expected
  /\ t.encrypted = s.encrypted /\ t.plaintext = s.plaintext

LEMMA ReaderSame ==
  ASSUME NEW st, NEW e, NEW s, NEW g, NEW recs, NEW eof, NEW lan, Reader(st, e, s, g, recs, eof, lan),
         NEW t, Unmoved(s, t), NEW at, at = "stream" => st = "stream"
  PROVE  Reader(at, e, t, g, recs, eof, lan)
<1>1. Streamed(t, g)
  BY DEF Reader, Streamed, Unmoved
<1>2. \E k \in 0 .. Len(recs) : DataOf(recs, k, g \o t.plaintext)
  BY DEF Reader, Unmoved
<1>3. Over(s, g, recs, eof, lan) => Over(t, g, recs, eof, lan)
  BY DEF Over, Unmoved
<1>4. Open(s, g, recs, eof, lan) => Open(t, g, recs, eof, lan)
  BY DEF Open, Begun, Unmoved
<1> QED
  BY <1>1, <1>2, <1>3, <1>4 DEF Reader

\* A step that the reader of connection d does not notice.
ReaderKept(d) ==
  /\ ends'[d] = ends[d] /\ got'[d] = got[d] /\ peer'[d] = peer[d] /\ lane'[d] = lane[d]
  /\ taken'[d] = taken[d]
  /\ Unmoved(tls[d], tls'[d])
  /\ stage'[d] = "stream" => stage[d] = "stream"
  /\ Idle(d)' => Idle(d) /\ tls'[d] = tls[d]
ReadersShape == DOMAIN got' = Conns /\ DOMAIN ends' = Conns

LEMMA KeptReader ==
  ASSUME NEW d \in Conns, Hears(d), ReaderKept(d)
  PROVE  Hears(d)'
<1>1. Reader(stage[d], ends[d], tls[d], got[d], Rest(peer[d].sent, taken[d]), peer[d].eof, lane[d])
  BY DEF Hears, Listens
<1>2. Reader(stage'[d], ends[d], tls'[d], got[d], Rest(peer[d].sent, taken[d]), peer[d].eof, lane[d])
  BY <1>1, ReaderSame DEF ReaderKept
<1>3. peer[d].eof \in BOOLEAN /\ Begins(taken[d], peer[d].sent)
  BY DEF Hears, Listens
<1>4. Idle(d)' => Unread(ends[d], tls'[d], got[d], Rest(peer[d].sent, taken[d]), peer[d].eof, lane[d])
  BY DEF Hears, Listens, ReaderKept
<1>5. /\ ends'[d] = ends[d] /\ got'[d] = got[d] /\ peer'[d] = peer[d] /\ lane'[d] = lane[d]
      /\ taken'[d] = taken[d]
  BY DEF ReaderKept
<1> QED
  BY <1>2, <1>3, <1>4, <1>5 DEF Hears, Listens

LEMMA AllHeard ==
  ASSUME Reading, ReadersShape, \A d \in Conns : ReaderKept(d)
  PROVE  Reading'
<1>1. ASSUME NEW d \in Conns PROVE Hears(d)'
  BY KeptReader DEF Reading
<1> QED
  BY <1>1 DEF Reading, ReadersShape

LEMMA OneHeard ==
  ASSUME Reading, ReadersShape, NEW c \in Conns, \A d \in Conns \ {c} : ReaderKept(d), Hears(c)'
  PROVE  Reading'
<1>1. ASSUME NEW d \in Conns PROVE Hears(d)'
  <2>1. CASE d = c
    BY <2>1
  <2>2. CASE d # c
    BY <2>2, KeptReader DEF Reading
  <2> QED
    BY <2>1, <2>2
<1> QED
  BY <1>1 DEF Reading, ReadersShape

\* Nothing happens to connection d.
Still(d) ==
  /\ ends'[d] = ends[d] /\ got'[d] = got[d] /\ peer'[d] = peer[d] /\ lane'[d] = lane[d]
  /\ tls'[d] = tls[d] /\ stage'[d] = stage[d] /\ task'[d] = task[d] /\ taken'[d] = taken[d]

LEMMA StillKept ==
  ASSUME Written, NEW d \in Conns, Still(d)
  PROVE  ReaderKept(d)
<1>1. DOMAIN tls[d] = StreamFields
  BY WritersFields
<1> QED
  BY <1>1 DEF Still, ReaderKept, Unmoved, Idle

\* Streams and what comes in stay as they are.
LEMMA QuietReaders ==
  ASSUME Written, Reading, UNCHANGED <<tls, lane, peer, taken, got, ends>>,
         \A d \in Conns : Idle(d)' => Idle(d),
         \A d \in Conns : stage'[d] = "stream" => stage[d] = "stream"
  PROVE  Reading'
<1>1. ASSUME NEW d \in Conns PROVE ReaderKept(d)
  BY WritersFields DEF ReaderKept, Unmoved
<1>2. ReadersShape
  BY DEF Reading, ReadersShape
<1> QED
  BY <1>1, <1>2, AllHeard

\* The steps of serve and of its tasks, and those of the request handlers.
LEMMA LoopReaders ==
  ASSUME Written, Reading,
         \/ AcceptTransient \/ BackoffOver \/ AcceptFatal \/ Signal \/ Shutdown \/ Drained
         \/ Deadline \/ Reload
  PROVE  Reading'
<1>1. DOMAIN task = Conns /\ DOMAIN stage = Conns
  BY DEF Written, WritersShaped
<1>2. UNCHANGED <<tls, lane, peer, taken, got, ends, stage>>
  BY DEF AcceptTransient, BackoffOver, AcceptFatal, Signal, Shutdown, Drained, Deadline, Reload,
         LoopTo, reading
<1>3. \A d \in Conns : task'[d] = task[d] \/ task'[d] = "refused"
  BY <1>1 DEF AcceptTransient, BackoffOver, AcceptFatal, Signal, Shutdown, Drained, Deadline,
         Reload, serving
<1>4. \A d \in Conns : Idle(d)' => Idle(d)
  BY <1>2, <1>3 DEF Idle
<1> QED
  BY <1>2, <1>4, QuietReaders

LEMMA AcceptReaders ==
  ASSUME Written, Reading, NEW c \in Conns, Connect(c) \/ Accept(c) \/ Join(c)
  PROVE  Reading'
<1>1. DOMAIN task = Conns /\ DOMAIN stage = Conns
  BY DEF Written, WritersShaped
<1>2. UNCHANGED <<tls, lane, peer, taken, got, ends>>
  BY DEF Connect, Accept, Join, LoopTo, reading
<1>3. \A d \in Conns \ {c} : task'[d] = task[d] /\ stage'[d] = stage[d]
  BY <1>1 DEF Connect, Accept, Join, LoopTo
<1>4. (Idle(c)' => Idle(c)) /\ (stage'[c] = "stream" => stage[c] = "stream")
  BY <1>1 DEF Connect, Accept, Join, LoopTo, Idle
<1>5. \A d \in Conns : Idle(d)' => Idle(d)
  BY <1>3, <1>4 DEF Idle
<1>6. \A d \in Conns : stage'[d] = "stream" => stage[d] = "stream"
  BY <1>3, <1>4
<1> QED
  BY <1>2, <1>5, <1>6, QuietReaders

LEMMA EndReaders ==
  ASSUME Written, Reading, NEW c \in Conns, TaskEnds(c), UNCHANGED reading
  PROVE  Reading'
<1>1. DOMAIN task = Conns /\ DOMAIN stage = Conns
  BY DEF Written, WritersShaped
<1>2. /\ UNCHANGED <<tls, lane, peer, taken, got, ends>>
      /\ task'[c] = "ended" /\ stage'[c] = "closed"
      /\ \A d \in Conns \ {c} : task'[d] = task[d] /\ stage'[d] = stage[d]
  BY <1>1 DEF TaskEnds, reading
<1>3. \A d \in Conns : Idle(d)' => Idle(d)
  BY <1>2 DEF Idle
<1>4. \A d \in Conns : stage'[d] = "stream" => stage[d] = "stream"
  BY <1>2
<1> QED
  BY <1>2, <1>3, <1>4, QuietReaders

LEMMA IdleReaders ==
  ASSUME Written, Reading, UNCHANGED <<task, stage, tls, lane, peer, taken, got, ends>>
  PROVE  Reading'
<1>1. \A d \in Conns : Idle(d)' => Idle(d)
  BY DEF Idle
<1> QED
  BY <1>1, QuietReaders

\* The flight is prepared and sent.
LEMMA FlightReaders ==
  ASSUME Written, Reading, NEW c \in Conns, Prepare(c) \/ SendFlight(c)
  PROVE  Reading'
<1>1. DOMAIN task = Conns /\ DOMAIN stage = Conns
  BY DEF Written, WritersShaped
<1>2. UNCHANGED reading /\ Idle(c)
  BY DEF Prepare, SendFlight, Idle
<1>3. CASE TaskEnds(c)
  BY <1>2, <1>3, EndReaders
<1>4. ASSUME NEW at \in {"flight", "finished"}, GoesOn(c, at), tls' = tls PROVE Reading'
  <2>1. /\ UNCHANGED <<tls, lane, peer, taken, got, ends>> /\ stage'[c] = at
        /\ \A d \in Conns \ {c} : task'[d] = task[d] /\ stage'[d] = stage[d]
    BY <1>1, <1>2, <1>4 DEF GoesOn, serving, reading
  <2>2. \A d \in Conns : Idle(d)' => Idle(d)
    BY <1>2, <2>1 DEF Idle
  <2>3. \A d \in Conns : stage'[d] = "stream" => stage[d] = "stream"
    BY <2>1
  <2> QED
    BY <2>1, <2>2, <2>3, QuietReaders
<1> QED
  BY <1>3, <1>4 DEF Prepare, SendFlight

-------------------------------------------------------------------------------
(* The writer's steps.                                                       *)

LEMMA UnmovedTwice ==
  ASSUME NEW s, NEW t, NEW u, Unmoved(s, t), Unmoved(t, u)
  PROVE  Unmoved(s, u)
  BY DEF Unmoved

LEMMA FlushUnmoved ==
  ASSUME NEW s, DOMAIN s = StreamFields, NEW k
  PROVE  Unmoved(s, FlushPending(s, k))
<1>1. CASE k = Len(Pending(s))
  <2>1. FlushPending(s, k) = [s EXCEPT !.write_buf = <<>>, !.write_pos = 0]
    BY <1>1 DEF FlushPending
  <2> QED
    BY <2>1 DEF Unmoved, StreamFields
<1>2. CASE k # Len(Pending(s))
  <2> DEFINE p == s.write_pos + k
  <2>1. FlushPending(s, k) = [s EXCEPT !.write_pos = p]
    BY <1>2 DEF FlushPending
  <2> HIDE DEF p
  <2> QED
    BY <2>1 DEF Unmoved, StreamFields
<1> QED
  BY <1>1, <1>2

LEMMA BufferedUnmoved ==
  ASSUME NEW s, DOMAIN s = StreamFields, NEW type, NEW body
  PROVE  /\ Unmoved(s, Buffered(s, type, body))
         /\ Unmoved(s, [Buffered(s, type, body) EXCEPT !.close_sent = TRUE])
<1> DEFINE b == UnitsOf(SealRecord(s.write_keys, type, body))
           k == Stepped(s.write_keys)
           t == Buffered(s, type, body)
<1>1. t = [s EXCEPT !.write_buf = b, !.write_pos = 0, !.write_keys = k]
  BY DEF Buffered
<1> HIDE DEF b, k, t
<1>2. Unmoved(s, t)
  BY <1>1 DEF Unmoved, StreamFields
<1>3. Unmoved(s, [t EXCEPT !.close_sent = TRUE])
  BY <1>2 DEF Unmoved, StreamFields
<1> QED
  BY <1>2, <1>3 DEF t

LEMMA PollReaders ==
  ASSUME Written, Reading, NEW c \in Conns,
         \/ \E n \in 1 .. MaxApp + 1 : PollWrite(c, n)
         \/ PollStuck(c) \/ PollFlush(c) \/ PollShutdown(c)
  PROVE  Reading'
<1> DEFINE s == tls[c]
<1>1. DOMAIN s = StreamFields /\ DOMAIN tls = Conns
  BY WritersFields DEF Written, WritersShaped
<1>2. Running(c) /\ stage[c] = "stream" /\ UNCHANGED <<task, stage, lane, peer, taken, got, ends>>
  BY DEF PollWrite, PollStuck, PollFlush, PollShutdown, Writes, WriteKeeps, serving, reading
<1>3. ASSUME NEW t, tls' = [tls EXCEPT ![c] = t], Unmoved(s, t) PROVE Reading'
  <2>1. tls'[c] = t /\ \A d \in Conns \ {c} : tls'[d] = tls[d]
    BY <1>1, <1>3
  <2>2. ASSUME NEW d \in Conns PROVE ReaderKept(d)
    <3>1. CASE d = c
      BY <1>2, <1>3, <2>1, <3>1 DEF ReaderKept, Idle, Running
    <3>2. CASE d # c
      BY <1>2, <2>1, <3>2, StillKept DEF Still
    <3> QED
      BY <3>1, <3>2
  <2>3. ReadersShape
    BY <1>2 DEF Reading, ReadersShape
  <2> QED
    BY <2>2, <2>3, AllHeard
<1>4. \A k : Unmoved(s, FlushPending(s, k))
  BY <1>1, FlushUnmoved
<1>5. CASE PollStuck(c)
  <2>1. \E k : tls' = [tls EXCEPT ![c] = FlushPending(s, k)]
    BY <1>5 DEF PollStuck
  <2> QED
    BY <1>3, <1>4, <2>1
<1>6. CASE PollFlush(c)
  <2>1. \E k : tls' = [tls EXCEPT ![c] = FlushPending(s, k)]
    BY <1>6 DEF PollFlush
  <2> QED
    BY <1>3, <1>4, <2>1
<1> DEFINE kept == FlushPending(s, Len(Pending(s)))
<1>7. Unmoved(s, kept) /\ DOMAIN kept = StreamFields
  BY <1>4 DEF Unmoved
<1>8. ASSUME NEW new, Unmoved(kept, new), NEW k, tls' = [tls EXCEPT ![c] = FlushPending(new, k)]
      PROVE  Reading'
  <2> HIDE DEF kept
  <2>1. Unmoved(s, new) /\ DOMAIN new = StreamFields
    BY <1>7, <1>8, UnmovedTwice DEF Unmoved
  <2>2. Unmoved(s, FlushPending(new, k))
    BY <2>1, FlushUnmoved, UnmovedTwice
  <2> QED
    BY <1>3, <1>8, <2>2
<1>9. ASSUME NEW n \in 1 .. MaxApp + 1, PollWrite(c, n) PROVE Reading'
  <2> DEFINE first == caller[c].acked + 1
             size == IF n < MaxApp THEN n ELSE MaxApp
             body == [i \in 1 .. size |-> first + i - 1]
             new == Buffered(kept, "data", body)
  <2>1. PICK k : tls' = [tls EXCEPT ![c] = FlushPending(new, k)]
    BY <1>9 DEF PollWrite
  <2>2. Unmoved(kept, new)
    <3> HIDE DEF kept, body
    <3> QED
      BY <1>7, BufferedUnmoved
  <2> HIDE DEF kept, new
  <2> QED
    BY <1>8, <2>1, <2>2
<1>10. CASE PollShutdown(c)
  <2> DEFINE alert == [Buffered(kept, "alert", <<>>) EXCEPT !.close_sent = TRUE]
             new == IF kept.close_sent THEN kept ELSE alert
  <2>1. PICK k : tls' = [tls EXCEPT ![c] = FlushPending(new, k)]
    BY <1>10 DEF PollShutdown
  <2>2. Unmoved(kept, alert) /\ Unmoved(kept, kept)
    <3> HIDE DEF kept
    <3>1. Unmoved(kept, kept)
      BY <1>7 DEF Unmoved
    <3> QED
      BY <1>7, <3>1, BufferedUnmoved
  <2> HIDE DEF kept, alert
  <2>3. Unmoved(kept, new)
    BY <2>2
  <2> HIDE DEF new
  <2> QED
    BY <1>8, <2>1, <2>3
<1> QED
  BY <1>5, <1>6, <1>9, <1>10

-------------------------------------------------------------------------------
(* The reader's steps.                                                       *)

\* Connection c is read, and no other.
ReadsOne(c) ==
  /\ DOMAIN got' = Conns /\ DOMAIN ends' = Conns
  /\ \A d \in Conns \ {c} : /\ tls'[d] = tls[d] /\ lane'[d] = lane[d]
                            /\ got'[d] = got[d] /\ ends'[d] = ends[d]

LEMMA ReadHeard ==
  ASSUME Written, Reading, NEW c \in Conns, Reads(c), ReadKeeps, ReadsOne(c),
         Reader("stream", ends'[c], tls'[c], got'[c], Rest(peer[c].sent, taken[c]), peer[c].eof, lane'[c])
  PROVE  Reading'
<1>1. stage[c] = "stream" /\ Running(c) /\ UNCHANGED <<stage, peer, taken, task>>
  BY DEF Reads, ReadKeeps, serving
<1>2. ~(Idle(c)')
  BY <1>1 DEF Running, Idle
<1>3. peer[c].eof \in BOOLEAN /\ Begins(taken[c], peer[c].sent)
  BY DEF Reading, Hears, Listens
<1>4. Hears(c)'
  BY <1>1, <1>2, <1>3 DEF Hears, Listens
<1>5. ASSUME NEW d \in Conns \ {c} PROVE ReaderKept(d)
  BY <1>1, StillKept DEF ReadsOne, Still
<1> QED
  BY <1>4, <1>5, OneHeard DEF ReadsOne, ReadersShape

LEMMA ErrorReads ==
  ASSUME NEW st, NEW e, NEW s, NEW g, NEW recs, NEW eof, NEW lan, Reader(st, e, s, g, recs, eof, lan)
  PROVE  Reader(st, "error", s, g, recs, eof, lan)
  BY DEF Reader

LEMMA PollReadReaders ==
  ASSUME Shaking, Written, Reading, NEW c \in Conns,
         \/ \E n \in 1 .. 2 : PollReadPlain(c, n)
         \/ PollReadHeader(c) \/ PollReadRecord(c) \/ PollReadEof(c)
         \/ \E k \in 1 .. Len(lane[c]) : PollReadFill(c, k)
  PROVE  Reading'
<1> DEFINE s == tls[c]
           g == got[c]
           recs == Rest(peer[c].sent, taken[c])
           eof == peer[c].eof
           lan == lane[c]
<1>1. Reads(c) /\ ReadKeeps
  BY DEF PollReadPlain, PollReadHeader, PollReadRecord, PollReadEof, PollReadFill
<1>2. /\ DOMAIN tls = Conns /\ DOMAIN lane = Conns /\ DOMAIN got = Conns /\ DOMAIN ends = Conns
      /\ IsSeq(lan)
  BY DEF Written, WritersShaped, Shaking, Shaped, Shakes, Typed, Reading
<1>3. Reader("stream", "open", s, g, recs, eof, lan)
  BY <1>1 DEF Reading, Hears, Listens, Reads
<1>4. Streamed(s, g) /\ Heard(recs) /\ Open(s, g, recs, eof, lan)
  BY <1>3 DEF Reader
<1>5. IsSeq(s.plaintext) /\ Len(s.plaintext) \in Nat
  BY <1>4, SeqEmpty DEF Streamed
<1>6. ASSUME ReadsOne(c), NEW e, NEW t, NEW h, NEW l, ends'[c] = e, tls'[c] = t, got'[c] = h,
             lane'[c] = l, Reader("stream", e, t, h, recs, eof, l)
      PROVE  Reading'
  BY <1>1, <1>6, ReadHeard
<1>7. ends[c] = "open"
  BY <1>1 DEF Reads
<1>8. Reader("stream", "error", s, g, recs, eof, lan)
  BY <1>3, ErrorReads
<1>9. ASSUME NEW n \in 1 .. 2, PollReadPlain(c, n) PROVE Reading'
  <2> DEFINE p == s.plaintext
             k == IF Len(p) < n THEN Len(p) ELSE n
             left == PlainLeft(p, k)
             t == [s EXCEPT !.plaintext = left]
             h == g \o SubSeq(p, 1, k)
  <2>1. /\ tls' = [tls EXCEPT ![c].plaintext = left] /\ got' = [got EXCEPT ![c] = h]
        /\ lane' = lane /\ ends' = ends
    BY <1>9 DEF PollReadPlain
  <2>2. k \in 0 .. Len(p)
    BY <1>5
  <2>3. Streamed(t, h) /\ Open(t, h, recs, eof, lan)
    <3> HIDE DEF k
    <3> QED
      BY <1>4, <2>2, ReaderPlain
  <2> HIDE DEF left, h
  <2>4. tls' = [tls EXCEPT ![c] = t]
    BY <2>1
  <2> HIDE DEF t
  <2>5. ReadsOne(c) /\ tls'[c] = t /\ got'[c] = h /\ ends'[c] = "open" /\ lane'[c] = lan
    BY <1>2, <1>7, <2>1, <2>4 DEF ReadsOne
  <2>6. Reader("stream", "open", t, h, recs, eof, lan)
    BY <1>4, <2>3, OpenReads
  <2> QED
    BY <1>6, <2>5, <2>6
<1>10. CASE PollReadHeader(c)
  <2>1. got' = got /\ lane' = lane
    BY <1>10 DEF PollReadHeader
  <2>2. CASE HeaderFits(s) /\ tls' = [tls EXCEPT ![c] = HeaderRead(s)] /\ ends' = ends
    <3> DEFINE t == HeaderRead(s)
    <3>1. HeaderReady(s)
      BY <1>10 DEF PollReadHeader
    <3>2. Streamed(t, g) /\ Open(t, g, recs, eof, lan)
      BY <1>4, <2>2, <3>1, ReaderHeader
    <3> HIDE DEF t
    <3>3. Reader("stream", "open", t, g, recs, eof, lan)
      BY <1>4, <3>2, OpenReads
    <3>4. ReadsOne(c) /\ tls'[c] = t /\ got'[c] = g /\ ends'[c] = "open" /\ lane'[c] = lan
      BY <1>2, <1>7, <2>1, <2>2 DEF ReadsOne, t
    <3> QED
      BY <1>6, <3>3, <3>4
  <2>3. CASE EndsWith(c, "error") /\ tls' = tls
    <3>1. ReadsOne(c) /\ tls'[c] = s /\ got'[c] = g /\ ends'[c] = "error" /\ lane'[c] = lan
      BY <1>2, <2>1, <2>3 DEF ReadsOne, EndsWith
    <3> QED
      BY <1>6, <1>8, <3>1
  <2> QED
    BY <1>10, <2>2, <2>3 DEF PollReadHeader
<1>11. CASE PollReadRecord(c)
  <2> DEFINE rec == NextRecord(s)
             t == RecordOpened(s)
  <2>1. got' = got /\ lane' = lane /\ s.plaintext = <<>> /\ RecordReady(s)
    BY <1>11 DEF PollReadRecord
  <2>2. CASE Opens(s.read_keys, rec) /\ ReadsOn(rec) /\ tls' = [tls EXCEPT ![c] = t] /\ ends' = ends
    <3>1. Streamed(t, g) /\ Open(t, g, recs, eof, lan)
      BY <1>2, <1>4, <2>1, <2>2, ReaderData DEF ReadsOn
    <3> HIDE DEF t
    <3>2. Reader("stream", "open", t, g, recs, eof, lan)
      BY <1>4, <3>1, OpenReads
    <3>3. ReadsOne(c) /\ tls'[c] = t /\ got'[c] = g /\ ends'[c] = "open" /\ lane'[c] = lan
      BY <1>2, <1>7, <2>1, <2>2 DEF ReadsOne
    <3> QED
      BY <1>6, <3>2, <3>3
  <2>3. CASE Opens(s.read_keys, rec) /\ rec.type = "alert" /\ tls' = [tls EXCEPT ![c] = t]
             /\ EndsWith(c, "eof")
    <3>1. Reader("stream", "eof", t, g, recs, eof, lan)
      BY <1>2, <1>4, <2>1, <2>3, ReaderAlert
    <3> HIDE DEF t
    <3>2. ReadsOne(c) /\ tls'[c] = t /\ got'[c] = g /\ ends'[c] = "eof" /\ lane'[c] = lan
      BY <1>2, <2>1, <2>3 DEF ReadsOne, EndsWith
    <3> QED
      BY <1>6, <3>1, <3>2
  <2>4. CASE EndsWith(c, "error") /\ tls' = tls
    <3>1. ReadsOne(c) /\ tls'[c] = s /\ got'[c] = g /\ ends'[c] = "error" /\ lane'[c] = lan
      BY <1>2, <2>1, <2>4 DEF ReadsOne, EndsWith
    <3> QED
      BY <1>6, <1>8, <3>1
  <2> QED
    BY <1>11, <2>2, <2>3, <2>4 DEF PollReadRecord
<1>12. CASE PollReadEof(c)
  <2>1. got' = got /\ lane' = lane /\ tls' = tls /\ lan = <<>> /\ eof
        /\ EndsWith(c, IF CleanEof(s) THEN "eof" ELSE "error")
    BY <1>12 DEF PollReadEof
  <2>2. CASE CleanEof(s)
    <3>1. ReadsOne(c) /\ tls'[c] = s /\ got'[c] = g /\ ends'[c] = "eof" /\ lane'[c] = lan
      BY <1>2, <2>1, <2>2 DEF ReadsOne, EndsWith
    <3>2. Over(s, g, recs, eof, lan)
      BY <2>1, <2>2 DEF Over, CleanEof
    <3>3. Reader("stream", "eof", s, g, recs, eof, lan)
      BY <1>3, <3>2 DEF Reader
    <3> QED
      BY <1>6, <3>1, <3>3
  <2>3. CASE ~CleanEof(s)
    <3>1. ReadsOne(c) /\ tls'[c] = s /\ got'[c] = g /\ ends'[c] = "error" /\ lane'[c] = lan
      BY <1>2, <2>1, <2>3 DEF ReadsOne, EndsWith
    <3> QED
      BY <1>6, <1>8, <3>1
  <2> QED
    BY <2>2, <2>3
<1>13. ASSUME NEW k \in 1 .. Len(lan), PollReadFill(c, k) PROVE Reading'
  <2> DEFINE x == s.encrypted \o SubSeq(lan, 1, k)
             t == [s EXCEPT !.encrypted = x]
             l == SubSeq(lan, k + 1, Len(lan))
  <2>1. /\ tls' = [tls EXCEPT ![c].encrypted = x] /\ lane' = [lane EXCEPT ![c] = l]
        /\ got' = got /\ ends' = ends
    BY <1>13 DEF PollReadFill
  <2>2. Streamed(t, g) /\ Open(t, g, recs, eof, l)
    <3> HIDE DEF recs, eof, lan, s, g
    <3> QED
      BY <1>2, <1>4, ReaderFill
  <2> HIDE DEF x, l
  <2>3. tls' = [tls EXCEPT ![c] = t]
    BY <2>1
  <2> HIDE DEF t
  <2>4. ReadsOne(c) /\ tls'[c] = t /\ got'[c] = g /\ ends'[c] = "open" /\ lane'[c] = l
    BY <1>2, <1>7, <2>1, <2>3 DEF ReadsOne
  <2>5. Reader("stream", "open", t, g, recs, eof, l)
    BY <1>4, <2>2, OpenReads
  <2> QED
    BY <1>6, <2>4, <2>5
<1> QED
  BY <1>9, <1>10, <1>11, <1>12, <1>13

-------------------------------------------------------------------------------
(* The handshake's reads.                                                    *)

\* The bytes v are those of u behind the first k.
Shorter(u, k, v) ==
  IsSeq(v) /\ Len(v) = Len(u) - k /\ \A p \in 1 .. Len(v) : v[p] = u[p + k]

LEMMA FlowNext ==
  ASSUME NEW a, Heard(a), NEW u, NEW whole, Flow(a, 0, u, whole), 1 \in 1 .. Len(a),
         NEW k, k = HeaderLen + a[1].len, k <= Len(u),
         NEW v, Shorter(u, k, v)
  PROVE  Flow(a, 1, v, whole)
<1> DEFINE n == 0
<1>1. n + 1 = 1
  OBVIOUS
<1>2. Flow(a, n, u, whole)
  OBVIOUS
<1> HIDE DEF n
<1>3. n + 1 \in 1 .. Len(a) /\ k = HeaderLen + a[n + 1].len
  BY <1>1
<1>4. Flow(a, n + 1, v, whole)
  BY <1>2, <1>3, FlowTaken DEF Shorter
<1> QED
  BY <1>1, <1>4

\* The first record on its way is the first that the handshake has left, and the
\* others follow it.
LEMMA FirstTaken ==
  ASSUME NEW sent, NEW tak, Begins(tak, sent), Heard(Rest(sent, tak)), NEW whole,
         NEW lan, IsSeq(lan), Flow(Rest(sent, tak), 0, lan, whole), Len(lan) > 0,
         NEW rec, rec = lan[1].rec, NEW k, k = HeaderLen + rec.len, k <= Len(lan),
         NEW v, Shorter(lan, k, v), NEW new, new = Append(tak, rec)
  PROVE  Begins(new, sent) /\ Heard(Rest(sent, new)) /\ Flow(Rest(sent, new), 0, v, whole)
<1> DEFINE a == Rest(sent, tak)
           b == Rest(sent, new)
<1>1. Heard(a) /\ Flow(a, 0, lan, whole)
  OBVIOUS
<1> HIDE DEF a, b
<1>2. 0 + 1 \in 1 .. Len(a) /\ lan[1] = [rec |-> a[0 + 1], at |-> 1]
  BY <1>1, FlowFirst
<1>3. rec = a[0 + 1] /\ rec = a[1] /\ 1 \in 1 .. Len(a)
  BY <1>2
<1>7. Flow(a, 1, v, whole)
  <2>1. k = HeaderLen + a[1].len
    BY <1>3
  <2> QED
    BY <1>1, <1>3, <2>1, FlowNext
<1>8. Begins(new, sent) /\ FirstOff(a, b)
  BY <1>3, RestTaken DEF a, b
<1>9. Heard(b) /\ Flow(b, 0, v, whole)
  BY <1>1, <1>7, <1>8, FlowTail
<1> QED
  BY <1>8, <1>9 DEF b

LEMMA TakesReaders ==
  ASSUME Shaking, Written, Reading, NEW c \in Conns, ReadHello(c) \/ ReadFinished(c)
  PROVE  Reading'
<1> DEFINE lan == lane[c]
           sent == peer[c].sent
           tak == taken[c]
           rec == FirstRecord(c)
           k == HeaderLen + rec.len
           v == SubSeq(lan, k + 1, Len(lan))
           new == Append(tak, rec)
           whole == ~peer[c].eof
<1>1. PICK at \in {"hello", "finished"} : Takes(c, at)
  BY DEF ReadHello, ReadFinished
<1>2. Shaped /\ Typed(c) /\ Counted(c) /\ Traced(c)
  BY DEF Shaking, Shakes
<1>3. Idle(c) /\ Running(c)
  BY <1>1 DEF Takes, Idle
<1>4. /\ ends[c] = "open" /\ tls[c] = NewStream /\ got[c] = <<>>
      /\ Flow(Rest(sent, tak), 0, lan, whole)
      /\ peer[c].eof \in BOOLEAN /\ Begins(tak, sent) /\ Heard(Rest(sent, tak))
  BY <1>3 DEF Reading, Hears, Listens, Reader, Unread
<1>5. /\ lan # <<>> /\ rec = lan[1].rec /\ rec.len \in Nat /\ k <= Len(lan)
      /\ lane'[c] = SubSeq(lan, HeaderLen + rec.len + 1, Len(lan))
      /\ taken'[c] = new /\ peer'[c] = peer[c]
      /\ \A d \in Conns \ {c} : lane'[d] = lane[d] /\ peer'[d] = peer[d] /\ taken'[d] = taken[d]
  BY <1>1, <1>2, TakesView
<1>6. lane'[c] = v
  BY <1>5
<1>7. /\ UNCHANGED <<got, ends, peer>> /\ tls'[c] = NewStream
      /\ \A d \in Conns \ {c} : tls'[d] = tls[d] /\ stage'[d] = stage[d] /\ task'[d] = task[d]
  <2>1. DOMAIN tls = Conns /\ DOMAIN stage = Conns /\ DOMAIN task = Conns
    BY DEF Written, WritersShaped
  <2>2. UNCHANGED <<got, ends, peer>>
    BY <1>1 DEF Takes
  <2>3. \/ TaskEnds(c)
        \/ \E st : GoesOn(c, st) /\ (tls' = tls \/ tls' = [tls EXCEPT ![c] = NewStream])
    BY DEF ReadHello, ReadFinished
  <2>4. tls' = tls \/ tls' = [tls EXCEPT ![c] = NewStream]
    BY <2>3 DEF TaskEnds
  <2>5. \A d \in Conns \ {c} : stage'[d] = stage[d] /\ task'[d] = task[d]
    BY <2>1, <2>3 DEF TaskEnds, GoesOn, serving
  <2> QED
    BY <1>4, <2>1, <2>2, <2>4, <2>5
<1>8. IsSeq(lan) /\ Len(lan) > 0 /\ k \in Nat
  <2>1. IsSeq(lan) /\ HeaderLen \in Nat
    BY <1>2, OriginAssumption DEF Typed
  <2>2. Len(lan) \in Nat /\ Len(lan) # 0
    BY <1>5, <2>1, SeqEmpty
  <2>3. k \in Nat
    <3> HIDE DEF rec, lan
    <3>1. rec.len \in Nat
      BY <1>5
    <3> QED
      BY <2>1, <3>1
  <2> QED
    BY <2>1, <2>2, <2>3
<1>9. Begins(new, sent) /\ Heard(Rest(sent, new)) /\ Flow(Rest(sent, new), 0, v, whole)
  <2> HIDE DEF lan, sent, tak, rec, whole
  <2>1. k = HeaderLen + rec.len /\ v = SubSeq(lan, k + 1, Len(lan)) /\ new = Append(tak, rec)
    OBVIOUS
  <2>2. /\ Flow(Rest(sent, tak), 0, lan, whole) /\ Begins(tak, sent) /\ Heard(Rest(sent, tak))
        /\ rec = lan[1].rec /\ k <= Len(lan) /\ IsSeq(lan) /\ Len(lan) > 0 /\ k \in Nat
    BY <1>4, <1>5, <1>8
  <2> HIDE DEF k, v, new
  <2>3. Len(lan) \in Nat /\ k \in 0 .. Len(lan)
    BY <2>2, SeqEmpty
  <2>4. IsSeq(v) /\ Len(v) = Len(lan) - k /\ \A i \in 1 .. Len(lan) - k : v[i] = lan[k + i]
    BY <2>1, <2>2, <2>3, SeqHalves
  <2>5. ASSUME NEW i \in 1 .. Len(v) PROVE v[i] = lan[i + k]
    <3>1. i \in 1 .. Len(lan) - k /\ k + i = i + k
      BY <2>3, <2>4
    <3> QED
      BY <2>4, <3>1
  <2>6. k = HeaderLen + rec.len /\ new = Append(tak, rec)
    BY <2>1
  <2>7. Shorter(lan, k, v)
    BY <2>4, <2>5 DEF Shorter
  <2> QED
    BY <2>2, <2>6, <2>7, FirstTaken
<1>10. \A idle : Listens(idle, stage'[c], "open", NewStream, <<>>, sent, new, peer[c].eof, v)
  <2> HIDE DEF new, v, sent
  <2> QED
    BY <1>4, <1>9, ListensNew
<1> HIDE DEF v, new
<1>11. Hears(c)'
  BY <1>4, <1>5, <1>6, <1>7, <1>10 DEF Hears
<1>12. ASSUME NEW d \in Conns \ {c} PROVE ReaderKept(d)
  BY <1>5, <1>7, StillKept DEF Still
<1>13. ReadersShape
  BY <1>7 DEF Reading, ReadersShape
<1> QED
  BY <1>11, <1>12, <1>13, OneHeard

-------------------------------------------------------------------------------
(* The client's steps.                                                       *)

\* What the constants give about the records of the scenario that is played.
Marked(p) ==
  /\ \A r \in p.pieces \cup p.replies : r.body = <<>> /\ r.len \in Nat
  /\ \A r \in p.traffic : /\ DOMAIN r = {"key", "seq", "type", "body", "len", "msg", "app"}
                          /\ r.len \in Nat /\ Len(r.body) \in Nat

LEMMA PlanMarked ==
  ASSUME Shaped
  PROVE  Marked(Plan)
<1> DEFINE p == Scenarios[scen]
<1>1. scen \in DOMAIN Scenarios
  BY DEF Shaped
<1>2. /\ \A r \in p.pieces \cup p.replies \cup p.traffic :
           /\ DOMAIN r = {"key", "seq", "type", "body", "len", "msg", "app"}
           /\ r.len \in Nat
      /\ \A r \in p.pieces \cup p.replies : r.body = <<>>
      /\ \A r \in p.traffic : Len(r.body) \in Nat
  BY <1>1, OriginAssumption
<1> HIDE DEF p
<1>3. Marked(p)
  BY <1>2 DEF Marked
<1> QED
  BY <1>3 DEF p, Plan

\* A client's step leaves the tasks and the other connections alone.
SendsOnly(c) ==
  /\ UNCHANGED <<task, stage, tls, taken, got, ends>>
  /\ \A d \in Conns \ {c} : lane'[d] = lane[d] /\ peer'[d] = peer[d]

LEMMA SentHeard ==
  ASSUME Written, Reading, NEW c \in Conns, SendsOnly(c), Hears(c)'
  PROVE  Reading'
<1>1. ASSUME NEW d \in Conns \ {c} PROVE ReaderKept(d)
  BY StillKept DEF SendsOnly, Still
<1>2. ReadersShape
  BY DEF Reading, ReadersShape, SendsOnly
<1> QED
  BY <1>1, <1>2, OneHeard

LEMMA SendsOne ==
  ASSUME Shaking, NEW c \in Conns, NEW rec, Sends(c, rec)
  PROVE  /\ SendsOnly(c) /\ lane'[c] = lane[c] \o UnitsOf(rec)
         /\ peer'[c].sent = Append(peer[c].sent, rec) /\ peer'[c].eof = peer[c].eof
<1>1. Shaped /\ DOMAIN peer[c] = {"sent", "eof"}
  BY DEF Shaking, Shakes, Typed
<1>2. SendsOnly(c)
  BY <1>1 DEF SendsOnly, Sends, Shaped, serving
<1> QED
  BY <1>1, <1>2, SendsView

\* One more record for a reader, whether it has begun, goes on or has ended.
LEMMA ReaderMore ==
  ASSUME NEW st, NEW e, NEW s, NEW g, NEW recs, NEW eof, eof = FALSE, NEW lan, IsSeq(lan),
         Reader(st, e, s, g, recs, eof, lan),
         NEW rec, rec.len \in Nat, IsSeq(rec.body), NEW more, OneMore(recs, more, rec)
  PROVE  Heard(more) /\ Reader(st, e, s, g, more, eof, lan \o UnitsOf(rec))
<1>1. /\ Streamed(s, g) /\ Heard(recs)
      /\ IsSeq(more) /\ Len(recs) \in Nat /\ Len(more) = Len(recs) + 1
      /\ \A i \in 1 .. Len(recs) : more[i] = recs[i]
      /\ more[Len(recs) + 1] = rec
  BY DEF Reader, OneMore
<1>2. Heard(more)
  <2>1. ASSUME NEW i \in 1 .. Len(more) PROVE more[i].len \in Nat /\ IsSeq(more[i].body)
    <3>1. CASE i \in 1 .. Len(recs)
      BY <1>1, <3>1 DEF Heard
    <3>2. CASE i = Len(recs) + 1
      BY <1>1, <3>2
    <3> QED
      BY <1>1, <3>1, <3>2
  <2> QED
    BY <1>1, <2>1 DEF Heard
<1>3. ASSUME NEW k \in 0 .. Len(recs), NEW data, IsSeq(data), DataOf(recs, k, data)
      PROVE  k \in 0 .. Len(more) /\ DataOf(more, k, data)
  <2>1. Len(more) >= Len(recs) /\ k \in 0 .. Len(more)
    BY <1>1
  <2> QED
    BY <1>1, <1>2, <1>3, <2>1, DataKept
<1>4. \E k \in 0 .. Len(more) : DataOf(more, k, g \o s.plaintext)
  <2> DEFINE data == g \o s.plaintext
  <2>1. IsSeq(data)
    BY <1>1, SeqConcat DEF Streamed
  <2>2. \E k \in 0 .. Len(recs) : DataOf(recs, k, data)
    BY DEF Reader
  <2> HIDE DEF data
  <2>3. \E k \in 0 .. Len(more) : DataOf(more, k, data)
    BY <1>3, <2>1, <2>2
  <2> QED
    BY <2>3 DEF data
<1>5. ASSUME e = "eof" PROVE Over(s, g, more, eof, lan \o UnitsOf(rec))
  <2>1. PICK k \in 0 .. Len(recs) - 1 :
          DataOf(recs, k, g) /\ recs[k + 1].type = "alert" /\ recs[k + 1].key = "client"
    BY <1>5 DEF Reader, Over
  <2>2. k \in 0 .. Len(recs) /\ k + 1 \in 1 .. Len(recs) /\ k \in 0 .. Len(more) - 1
    BY <1>1, <2>1
  <2>3. DataOf(more, k, g) /\ more[k + 1] = recs[k + 1]
    BY <1>1, <1>3, <2>1, <2>2 DEF Streamed
  <2> QED
    BY <2>1, <2>2, <2>3 DEF Over
<1>6. ASSUME st = "stream" /\ e = "open" PROVE Open(s, g, more, eof, lan \o UnitsOf(rec))
  <2>1. Open(s, g, recs, eof, lan)
    BY <1>6 DEF Reader
  <2>2. Open(s, g, more, eof, lan \o UnitsOf(more[Len(recs) + 1]))
    BY <1>1, <1>2, <2>1, ReaderSent
  <2> QED
    BY <1>1, <2>2
<1> QED
  BY <1>1, <1>2, <1>4, <1>5, <1>6 DEF Reader

LEMMA SentReaders ==
  ASSUME Shaking, Written, Reading, NEW c \in Conns, ~peer[c].eof,
         NEW rec, rec.len \in Nat, IsSeq(rec.body), Sends(c, rec)
  PROVE  Reading'
<1> DEFINE st == stage[c]
           e == ends[c]
           s == tls[c]
           g == got[c]
           sent == peer[c].sent
           tak == taken[c]
           lan == lane[c]
           new == Append(sent, rec)
           way == lan \o UnitsOf(rec)
           recs == Rest(sent, tak)
           more == Rest(new, tak)
<1>1. SendsOnly(c) /\ lane'[c] = way /\ peer'[c].sent = new /\ peer'[c].eof = peer[c].eof
  BY SendsOne
<1>2. /\ Reader(st, e, s, g, recs, peer[c].eof, lan) /\ peer[c].eof \in BOOLEAN
      /\ Begins(tak, sent) /\ (Idle(c) => Unread(e, s, g, recs, peer[c].eof, lan))
  BY DEF Reading, Hears, Listens
<1>3. peer[c].eof = FALSE
  BY <1>2
<1>4. IsSeq(lan)
  BY DEF Shaking, Shakes, Typed
<1>5. Begins(tak, new) /\ OneMore(recs, more, rec)
  <2> HIDE DEF sent, tak
  <2> QED
    BY <1>2, RestSent
<1> HIDE DEF recs, more, new, sent, tak
<1>6. ASSUME NEW f, f = FALSE, Reader(st, e, s, g, recs, f, lan)
      PROVE  Heard(more) /\ Reader(st, e, s, g, more, f, lan \o UnitsOf(rec))
  <2> HIDE DEF st, e, s, g, lan
  <2> QED
    BY <1>4, <1>5, <1>6, ReaderMore
<1>7. Heard(more) /\ Reader(st, e, s, g, more, peer[c].eof, way)
  BY <1>2, <1>3, <1>6
<1>8. ASSUME Unread(e, s, g, recs, peer[c].eof, lan) PROVE Unread(e, s, g, more, peer[c].eof, way)
  <2>1. Flow(recs, 0, lan, TRUE) /\ Heard(recs)
    BY <1>2, <1>3, <1>8 DEF Unread, Reader
  <2>2. /\ Len(more) = Len(recs) + 1 /\ more[Len(recs) + 1] = rec
        /\ \A i \in 1 .. Len(recs) : more[i] = recs[i]
    BY <1>5 DEF OneMore
  <2>3. Flow(more, 0, way, TRUE)
    <3> HIDE DEF lan
    <3>1. Flow(more, 0, lan \o UnitsOf(more[Len(recs) + 1]), TRUE)
      BY <1>7, <2>1, <2>2, FlowSent
    <3> QED
      BY <2>2, <3>1
  <2> QED
    BY <1>3, <1>8, <2>3 DEF Unread, Flow
<1>9. Idle(c)' => Idle(c)
  BY <1>1 DEF SendsOnly, Idle
<1>10. Listens(Idle(c)', st, e, s, g, new, tak, peer[c].eof, way)
  BY <1>2, <1>5, <1>7, <1>8, <1>9 DEF Listens, more
<1>11. Hears(c)'
  <2> HIDE DEF way
  <2> QED
    BY <1>1, <1>10 DEF Hears, SendsOnly, tak
<1> QED
  BY <1>1, <1>11, SentHeard

LEMMA ClientReaders ==
  ASSUME Shaking, Written, Reading, NEW c \in Conns, ClientHandshake(c) \/ ClientRecord(c)
  PROVE  Reading'
<1>1. Marked(Plan)
  BY PlanMarked DEF Shaking
<1>2. ~peer[c].eof
  BY DEF ClientHandshake, ClientRecord, Writable
<1>3. CASE ClientHandshake(c)
  <2>1. PICK r \in Plan.pieces \cup Plan.replies : Sends(c, r)
    BY <1>3 DEF ClientHandshake
  <2>2. r.len \in Nat /\ IsSeq(r.body)
    <3>1. <<>> \in Seq({})
      OBVIOUS
    <3>2. IsSeq(<<>>)
      BY <3>1, SeqAny
    <3> QED
      BY <1>1, <3>2 DEF Marked
  <2> QED
    BY <1>2, <2>1, <2>2, SentReaders
<1>4. CASE ClientRecord(c)
  <2> DEFINE n == Len(Sealed(c))
             body(r) == [i \in 1 .. Len(r.body) |-> <<n, i>>]
             of(r) == [r EXCEPT !.seq = n, !.body = body(r)]
  <2>1. PICK r \in Plan.traffic : Sends(c, of(r))
    BY <1>4 DEF ClientRecord
  <2> DEFINE rec == of(r)
             b == body(r)
  <2>2. /\ DOMAIN r = {"key", "seq", "type", "body", "len", "msg", "app"}
        /\ r.len \in Nat /\ Len(r.body) \in Nat
    BY <1>1 DEF Marked
  <2>3. IsSeq(b)
    <3> DEFINE m == Len(r.body)
               S == {<<n, i>> : i \in 1 .. m}
    <3>1. m \in Nat /\ b \in [1 .. m -> S]
      BY <2>2
    <3> HIDE DEF m, S, b
    <3>2. b \in Seq(S)
      BY <3>1
    <3> QED
      BY <3>2, SeqAny
  <2>4. rec = [r EXCEPT !.seq = n, !.body = b] /\ Sends(c, rec)
    BY <2>1
  <2> HIDE DEF rec, b, n
  <2>5. rec.len = r.len /\ rec.body = b
    BY <2>2, <2>4
  <2> QED
    BY <1>2, <2>2, <2>3, <2>4, <2>5, SentReaders
<1> QED
  BY <1>3, <1>4

LEMMA EofReaders ==
  ASSUME Shaking, Written, Reading, NEW c \in Conns, NEW k \in 0 .. Len(lane[c]), ClientEof(c, k)
  PROVE  Reading'
<1> DEFINE sent == peer[c].sent
           tak == taken[c]
           recs == Rest(sent, tak)
           eof == peer[c].eof
           lan == lane[c]
           cut == SubSeq(lan, 1, k)
           s == tls[c]
           g == got[c]
           e == ends[c]
           st == stage[c]
<1>1. Shaped /\ DOMAIN peer[c] = {"sent", "eof"} /\ IsSeq(lan)
  BY DEF Shaking, Shakes, Typed
<1>2. /\ SendsOnly(c) /\ lane'[c] = cut
      /\ peer'[c].sent = sent /\ peer'[c].eof = TRUE
  BY <1>1 DEF ClientEof, Shaped, SendsOnly, serving
<1>3. /\ Reader(st, e, s, g, recs, eof, lan) /\ Begins(tak, sent)
      /\ Idle(c) => Unread(e, s, g, recs, eof, lan)
  BY DEF Reading, Hears, Listens
<1>4. Idle(c)' => Idle(c)
  BY <1>2 DEF SendsOnly, Idle
<1>5. /\ Open(s, g, recs, eof, lan) => Open(s, g, recs, TRUE, cut)
      /\ Over(s, g, recs, eof, lan) => Over(s, g, recs, TRUE, cut)
  <2> HIDE DEF recs, eof, lan, s, g
  <2>1. Streamed(s, g) /\ Heard(recs)
    BY <1>3 DEF Reader
  <2>2. k \in 0 .. Len(lan)
    BY DEF lan
  <2> QED
    BY <1>1, <2>1, <2>2, ReaderCut
<1>6. /\ IsSeq(cut) /\ Len(cut) = k /\ \A i \in 1 .. k : cut[i] = lan[i]
  <2> HIDE DEF lan
  <2>1. k \in 0 .. Len(lan)
    BY DEF lan
  <2> QED
    BY <1>1, <2>1, SeqHalves
<1>7. k \in 0 .. Len(lan) /\ Len(lan) \in Nat
  BY <1>1, SeqEmpty
<1> HIDE DEF recs, eof, lan, s, g, e, st, sent, tak, cut
<1>8. Reader(st, e, s, g, recs, TRUE, cut)
  BY <1>3, <1>5 DEF Reader
<1>9. ASSUME Unread(e, s, g, recs, eof, lan) PROVE Unread(e, s, g, recs, TRUE, cut)
  <2>1. Flow(recs, 0, lan, ~eof) /\ Heard(recs)
    BY <1>3, <1>9 DEF Unread, Reader
  <2>2. Len(cut) <= Len(lan) /\ \A p \in 1 .. Len(cut) : cut[p] = lan[p]
    BY <1>6, <1>7
  <2>3. Flow(recs, 0, cut, FALSE)
    BY <1>6, <2>1, <2>2, FlowCut
  <2> QED
    BY <1>9, <2>3 DEF Unread, Flow
<1>10. Hears(c)'
  <2>1. Listens(Idle(c)', st, e, s, g, sent, tak, TRUE, cut)
    BY <1>3, <1>4, <1>8, <1>9 DEF Listens, recs
  <2> QED
    BY <1>2, <2>1 DEF Hears, SendsOnly, st, e, s, g, sent, tak
<1> QED
  BY <1>2, <1>10, SentHeard

LEMMA ReadingStep ==
  ASSUME Shaking, Written, Reading, [Next]_vars
  PROVE  Reading'
<1>1. CASE UNCHANGED vars
  BY <1>1, IdleReaders DEF vars
<1>2. ASSUME NEW c \in Conns, ConnStep(c) PROVE Reading'
  <2>1. CASE \/ Cancelled(c) \/ HandshakeTimeout(c) \/ ConnectionOver(c) \/ HandshakeEof(c)
    <3>1. TaskEnds(c) /\ UNCHANGED reading
      BY <2>1 DEF Cancelled, HandshakeTimeout, ConnectionOver, HandshakeEof
    <3> QED
      BY <3>1, EndReaders
  <2>2. CASE HandlerReset(c) \/ SocketDown(c)
    <3>1. UNCHANGED <<task, stage, tls, lane, peer, taken, got, ends>>
      BY <2>2 DEF HandlerReset, SocketDown, serving, reading
    <3> QED
      BY <3>1, IdleReaders
  <2>3. CASE \/ Handle(c) \/ BodyEnd(c) \/ BodyError(c) \/ DownloadOver(c)
             \/ \E n \in 0 .. MaxPost + 1 : BodyFrame(c, n)
             \/ \E result \in DOMAIN PushStatus : Push(c, result)
    <3>1. HandlerKeeps
      BY <2>3 DEF Handle, BodyEnd, BodyError, DownloadOver, BodyFrame, Push, HandlerStep
    <3>2. UNCHANGED <<task, stage, tls, lane, peer, taken, got, ends>>
      BY <3>1 DEF HandlerKeeps, serving, reading
    <3> QED
      BY <3>2, IdleReaders
  <2> QED
    BY <1>2, <2>1, <2>2, <2>3, AcceptReaders, FlightReaders, TakesReaders, PollReadReaders,
       PollReaders, ClientReaders, EofReaders DEF ConnStep
<1> QED
  BY <1>1, <1>2, LoopReaders DEF Next

-------------------------------------------------------------------------------
(* What the handshake and the reader of a connection keep together.          *)

Connected == Shaking /\ Written /\ Reading

LEMMA ConnectedInit ==
  ASSUME Init
  PROVE  Connected
<1>1. WritersShaped /\ DOMAIN got = Conns /\ DOMAIN ends = Conns
  BY DEF Init, WritersShaped
<1>2. ASSUME NEW c \in Conns
      PROVE  /\ wire[c] = <<>> /\ tls[c] = NewStream /\ caller[c] = NewCaller
             /\ got[c] = <<>> /\ ends[c] = "open" /\ stage[c] = "closed" /\ lane[c] = <<>>
             /\ peer[c].sent = <<>> /\ peer[c].eof = FALSE /\ taken[c] = <<>>
  BY DEF Init, NewCaller
<1>3. ASSUME NEW c \in Conns PROVE WriterOf(c) /\ Unwritten(c)
  BY <1>2, WriterBegins DEF WriterOf, Unwritten
<1>4. <<>> \in Seq({}) /\ Len(<<>>) = 0
  OBVIOUS
<1>5. IsSeq(<<>>) /\ Begins(<<>>, <<>>)
  <2> DEFINE e == <<>>
  <2>1. e \in Seq({}) /\ Len(e) = 0
    BY <1>4
  <2> HIDE DEF e
  <2>2. IsSeq(e)
    BY <2>1, SeqAny
  <2>3. Begins(e, e)
    BY <2>1, <2>2 DEF Begins
  <2> QED
    BY <2>2, <2>3 DEF e
<1>6. Rest(<<>>, <<>>) = <<>>
  <2> DEFINE e == <<>>
             r == Rest(e, e)
  <2>1. IsSeq(r) /\ Len(r) = Len(e) - Len(e)
    BY <1>5, RestView DEF RestAt
  <2>2. Len(r) = 0
    BY <1>4, <2>1
  <2> HIDE DEF r
  <2>3. r = <<>>
    BY <2>1, <2>2, SeqEmpty
  <2> QED
    BY <2>3 DEF r
<1>7. Heard(<<>>) /\ Flow(<<>>, 0, <<>>, ~FALSE)
  <2>1. Heard(<<>>)
    <3> DEFINE e == <<>>
    <3>1. IsSeq(e) /\ Len(e) = 0
      BY <1>4, <1>5
    <3> HIDE DEF e
    <3>2. Heard(e)
      BY <3>1 DEF Heard
    <3> QED
      BY <3>2 DEF e
  <2>2. TRUE = ~FALSE
    OBVIOUS
  <2> QED
    BY <2>1, <2>2, FlowBegins
<1>8. ASSUME NEW c \in Conns PROVE Hears(c)
  <2>1. \A idle : Listens(idle, "closed", "open", NewStream, <<>>, <<>>, <<>>, FALSE, <<>>)
    BY <1>5, <1>6, <1>7, ListensNew
  <2> QED
    BY <1>2, <2>1 DEF Hears
<1> QED
  BY <1>1, <1>3, <1>8, ShakingInit DEF Connected, Written, Reading

LEMMA ConnectedStep ==
  ASSUME Connected, [Next]_vars
  PROVE  Connected'
  BY ShakingStep, WrittenStep, ReadingStep DEF Connected

\* For any clients, records and identities, also when a client sends records ahead:
\* what a handshake reads are its client's first records, none of them passed over;
\* past the ClientHello it has read all of it, in whatever pieces, and no plaintext
\* handshake message besides; its flight is made from one identity; and a connection
\* that TLS hands to HTTP had its client's Finished, under the handshake keys, as
\* the last record the handshake read.
THEOREM ServerHandshakeSound == Spec => []HandshakeSound
<1>1. Connected => HandshakeSound
  <2> SUFFICES ASSUME Connected PROVE HandshakeSound
    OBVIOUS
  <2>1. TakenInOrder
    <3> SUFFICES ASSUME NEW c \in Conns PROVE IsPrefix(taken[c], peer[c].sent)
      BY DEF TakenInOrder
    <3> DEFINE tak == taken[c]
               sent == peer[c].sent
               n == Len(tak)
               a == SubSeq(tak, 1, n)
               b == SubSeq(sent, 1, n)
    <3>1. IsSeq(tak) /\ IsSeq(sent) /\ n <= Len(sent) /\ \A i \in 1 .. n : tak[i] = sent[i]
      BY DEF Connected, Reading, Hears, Listens, Begins
    <3> HIDE DEF tak, sent
    <3>2. n \in Nat /\ Len(sent) \in Nat
      BY <3>1, SeqEmpty
    <3>3. n \in 0 .. Len(tak) /\ n \in 0 .. Len(sent)
      BY <3>1, <3>2
    <3>4. IsSeq(a) /\ Len(a) = n /\ \A i \in 1 .. n : a[i] = tak[i]
      BY <3>1, <3>3, SeqHalves
    <3>5. IsSeq(b) /\ Len(b) = n /\ \A i \in 1 .. n : b[i] = sent[i]
      BY <3>1, <3>3, SeqHalves
    <3> HIDE DEF a, b, n
    <3>6. a = b
      BY <3>1, <3>4, <3>5, SeqSame
    <3> QED
      BY <3>1, <3>6 DEF IsPrefix, tak, sent, n, a, b
  <2>2. HelloWhole
    BY DEF Connected, Shaking, Shakes, Whole, Past, HelloWhole
  <2>3. FlightSound
    BY DEF Connected, Shaking, Shakes, Flown, Verifiable, FlightSound
  <2>4. ClientVerified
    BY DEF Connected, Shaking, Shakes, Proved, ClientVerified
  <2> QED
    BY <2>1, <2>2, <2>3, <2>4 DEF HandshakeSound
<1> QED
  BY <1>1, ConnectedInit, ConnectedStep, PTL DEF Spec

\* However the client's bytes are cut on their way, sent ahead of the handshake, lost
\* at its end or damaged, for any number of connections and any sizes: hyper reads
\* the data of the client's first records after the handshake, in full and in order,
\* and is told of an end only where the client has made one.
THEOREM ServerReadsHonest == Spec => []ReadsHonest
<1>1. Connected => ReadsHonest
  <2> SUFFICES ASSUME Reading PROVE ReadsHonest
    BY DEF Connected
  <2>1. \A c \in Conns : Remaining(c) = Rest(peer[c].sent, taken[c])
    BY DEF Remaining, Rest
  <2>2. ReadExact
    BY <2>1 DEF ReadExact, Reading, Hears, Listens, Reader
  <2>3. EofHonest
    BY <2>1 DEF EofHonest, Reading, Hears, Listens, Reader, Over
  <2> QED
    BY <2>2, <2>3 DEF ReadsHonest
<1> QED
  BY <1>1, ConnectedInit, ConnectedStep, PTL DEF Spec

===============================================================================
