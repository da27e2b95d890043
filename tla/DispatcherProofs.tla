---------------------------- MODULE DispatcherProofs ----------------------------
(***************************************************************************)
(* The safety properties of Dispatcher for any number of sessions and      *)
(* associations, any capacities and any load.                              *)
(***************************************************************************)
EXTENDS Dispatcher, FiniteSetTheorems, WellFoundedInduction, TLAPS

USE DEF TcpSteps

-------------------------------------------------------------------------------
(* The inductive invariant, in parts.                                        *)

Pcs == {"idle", "lookup", "spin"} \cup Reading \cup Replying \cup Serving
Senders == Assocs \cup {NoOne, Closed}
Message == [left : 0 .. 2, rec : 0 .. NoRecord]
Association == [owner : Sessions \cup {NoOne}, id : Ids \cup {0}, inbox : 0 .. InboxCap]

Tasks ==
  /\ DOMAIN sess = Sessions
  /\ \A s \in Sessions :
       /\ DOMAIN sess[s] = {"pc", "req", "hs", "part", "place", "torn", "mux", "cur", "gone"}
       /\ sess[s].pc \in Pcs
       /\ sess[s].req \in conf.requests \cup {NoRequest}
       /\ sess[s].part \in {0, 1} /\ sess[s].place \in {0, 1}
       /\ sess[s].mux \in [Ids -> Senders]
       /\ DOMAIN sess[s].cur = {"id", "data", "a"}
       /\ sess[s].cur.id \in Ids \cup {0} /\ sess[s].cur.a \in Senders
Channels ==
  /\ DOMAIN chan = Sessions
  /\ \A s \in Sessions :
       /\ DOMAIN chan[s] = {"sink", "lock", "cipher", "n", "open", "broken", "cut"}
       /\ chan[s].sink \in 0 .. SinkCap
       /\ chan[s].lock \in Agents \cup {NoOne}
       /\ chan[s].cipher \in {0, 1} /\ chan[s].n \in {0, 1}
Cache == now \in Nat /\ DOMAIN tickets \subseteq issued /\ issued \subseteq Tickets
Semaphore == waiting \in Seq(Sessions) /\ permits \in Nat /\ gauge \in Int
Typed ==
  /\ conf \in Scenarios /\ Tasks /\ Channels
  /\ send \in [Agents -> Message] /\ assoc \in [Assocs -> Association]
  /\ Semaphore /\ Cache

\* What a session's place says about its locals.
Muxing == {"mux", "muxPermit", "muxBind", "muxSend"}
Places ==
  \A s \in Sessions :
    /\ sess[s].pc \in {"permit", "connect"} => Command(sess[s].req.command) \in {"tcp", "udp"}
    /\ sess[s].pc \in {"muxPermit", "muxBind"} => sess[s].cur.id \in Ids
    /\ sess[s].pc = "muxSend" => sess[s].cur.a # NoOne
    /\ Sending(s) => sess[s].pc \in {"response", "tcp", "write", "half", "udp"}
    /\ sess[s].pc = "response" => send[s].left = 1

\* An association's slot is blank when nobody owns it, its owner is a Mux session
\* or a session that has ended, and only its owner has senders of its channel.
Owned ==
  /\ \A a \in Assocs :
       /\ assoc[a].owner = NoOne => assoc[a] = Unused /\ send[a] = NoSend
       /\ assoc[a].owner # NoOne => sess[assoc[a].owner].pc \in Muxing \cup {"idle"}
  /\ \A s \in Sessions :
       /\ \A i \in Ids : sess[s].mux[i] \in Assocs => assoc[sess[s].mux[i]].owner = s
       /\ sess[s].cur.a \in Assocs => assoc[sess[s].cur.a].owner = s

\* The semaphore's queue holds sessions that wait, each once.
Queued ==
  /\ \A i \in 1 .. Len(waiting) : sess[waiting[i]].pc \in {"permit", "muxPermit"}
  /\ \A i, j \in 1 .. Len(waiting) : waiting[i] = waiting[j] => i = j

\* A sealed record belongs to the holder of its session's lock, which is sending.
Locked ==
  /\ \A x \in Agents : /\ send[x].left = 0 => send[x].rec = NoRecord
                       /\ send[x].rec # NoRecord => Encrypted /\ chan[Owner(x)].lock = x
                       /\ ~Encrypted => send[x].left <= 1
  /\ \A s \in Sessions : chan[s].lock # NoOne =>
       Owner(chan[s].lock) = s /\ send[chan[s].lock].rec # NoRecord

\* As long as somebody may write to a session, and until a message was cut, the
\* cipher is at most the sealed record ahead of what the client got.
InStep(s) ==
  IF chan[s].lock = NoOne
  THEN chan[s].open = NoOne /\ (Encrypted => chan[s].cipher = chan[s].n)
  ELSE /\ chan[s].open \in {NoOne, chan[s].lock}
       /\ send[chan[s].lock].rec = chan[s].n
       /\ chan[s].cipher = (chan[s].n + 1) % 2
Numbered ==
  \A s \in Sessions :
    /\ ~chan[s].broken
    /\ (sess[s].pc # "idle" \/ Of(s) # {}) /\ ~chan[s].cut => InStep(s)

\* A datagram is read at its boundary, or the read of one was interrupted.
Aligned == \A s \in Sessions : sess[s].part = sess[s].place \/ sess[s].torn

\* What was accepted cannot be accepted again, and what is about to be looked up
\* was issued and had time left when the cache was swept.
Remembered ==
  /\ \A t \in DOMAIN tickets : DOMAIN tickets[t] = {"expires", "replay"}
  /\ \A t \in Tickets, k \in NfsKeys : <<t, k>> \in accepted =>
       t \in issued /\ (t \in DOMAIN tickets => k \in tickets[t].replay)
  /\ \A s \in Sessions : sess[s].pc = "lookup" =>
       /\ sess[s].hs \in [t : issued, key : NfsKeys, at : Nat]
       /\ sess[s].hs.t \in DOMAIN tickets => tickets[sess[s].hs.t].expires > sess[s].hs.at

\* A session that is served made a request, which was accepted, and whose command
\* went on after the response.
Handled(r) ==
  \/ Command(r.command) = "tcp"
  \/ Command(r.command) \in {"udp", "mux"} /\ Flow(r.addons) # Vision
Admitted ==
  \A s \in Sessions :
    /\ sess[s].pc \in Serving => sess[s].req \in conf.requests /\ Accepts(sess[s].req)
    /\ sess[s].pc \in Serving \ {"response"} => Handled(sess[s].req)

-------------------------------------------------------------------------------
(* The steps, by what they do to the tasks.                                  *)

\* The steps of a process that goes on, and the one that starts it anew.
Restarts == \E s \in Sessions, r \in conf.requests : HeaderPanics(s, r)
Running == [Next]_vars /\ ~Restarts

\* Tickets, time, and the bounds of the load.
tasks == <<conf, sess, chan, send, assoc, permits, waiting, gauge>>

\* The task of s returns; it is neither in the semaphore's queue nor in the cache.
Ends(s) == End(s) /\ sess[s].pc \notin {"idle", "permit", "muxPermit", "lookup"}

\* A session goes on to another place, or stays.
Route == {<<"hello", "pfs">>, <<"hello", "ticket">>, <<"pfs", "serverHello">>, <<"padding", "header">>,
          <<"header", "spin">>, <<"tcp", "write">>, <<"write", "tcp">>, <<"tcp", "half">>}
Moves(s) ==
  /\ \E r \in Route : sess[s].pc = r[1] /\ Goto(s, r[2])
  /\ UNCHANGED <<conf, chan, send, assoc, permits, waiting, gauge>>

\* The Mux task has read a frame.
FrameRead(s) ==
  /\ sess[s].pc = "mux" /\ UNCHANGED <<conf, chan, send, assoc, permits, gauge>>
  /\ \/ \E id \in Ids, data \in BOOLEAN :
          /\ sess' = [sess EXCEPT ![s].pc = "muxPermit", ![s].cur = [id |-> id, data |-> data, a |-> NoOne]]
          /\ waiting' = Append(waiting, s)
     \/ \E id \in Ids :
          /\ sess[s].mux[id] # NoOne
          /\ sess' = [sess EXCEPT ![s].pc = "muxSend",
                                  ![s].cur = [id |-> id, data |-> TRUE, a |-> sess[s].mux[id]]]
          /\ UNCHANGED waiting
     \/ \E id \in Ids :
          /\ sess' = [sess EXCEPT ![s].mux[id] = NoOne]
          /\ UNCHANGED waiting

\* The header of a request arrives and is accepted.
Admits(s) ==
  \E r \in conf.requests :
    /\ sess[s].pc = "header" /\ Accepts(r)
    /\ sess' = [sess EXCEPT ![s].pc = "response", ![s].req = r]
    /\ send' = [send EXCEPT ![s].left = 1]
    /\ UNCHANGED <<conf, chan, assoc, permits, waiting, gauge>>

\* A message is queued to an association that has not ended.
Delivers(s) ==
  LET a == sess[s].cur.a IN
  /\ sess[s].pc = "muxSend" /\ a \in Assocs /\ assoc[a].inbox < InboxCap
  /\ assoc' = [assoc EXCEPT ![a].inbox = @ + 1]
  /\ sess' = [sess EXCEPT ![s].pc = "mux", ![s].cur = NoCur]
  /\ UNCHANGED <<conf, chan, send, permits, waiting, gauge>>

\* A packet of the target becomes a message.
Gets(x) ==
  /\ \/ x \in Sessions /\ sess[x].pc \in TcpSteps
     \/ x \in Assocs /\ assoc[x] # Unused
  /\ ~Sending(x)
  /\ \E k \in Chunks : send' = [send EXCEPT ![x].left = k]
  /\ UNCHANGED <<conf, sess, chan, assoc, permits, waiting, gauge>>

LEMMA Kinds ==
  ASSUME Typed, Places, Owned, Running
  PROVE  \/ UNCHANGED tasks
         \/ \E s \in Sessions :
              \/ Start(s) \/ Ends(s) \/ Moves(s) \/ HsReply(s) \/ (\E t \in issued, k \in NfsKeys : HsTicket(s, t, k))
              \/ HsLookup(s) \/ Admits(s) \/ Acquire(s) \/ Connect(s) \/ UdpRead(s)
              \/ (\E k \in Chunks : UdpRecv(s, k)) \/ FrameRead(s) \/ MuxBind(s) \/ Delivers(s)
              \/ ClientGone(s) \/ Drain(s)
         \/ \E a \in Assocs : AssocMessage(a) \/ (EndAssoc(a) /\ assoc[a] # Unused)
         \/ \E x \in Agents : LockAndSeal(x) \/ Push(x) \/ Gets(x)
<1> USE DEF tasks, targets, cache, bounds
<1> DEFINE Known(s) ==
     \/ UNCHANGED tasks
     \/ Start(s) \/ Ends(s) \/ Moves(s) \/ HsReply(s) \/ (\E t \in issued, k \in NfsKeys : HsTicket(s, t, k))
     \/ HsLookup(s) \/ Admits(s) \/ Acquire(s) \/ Connect(s) \/ UdpRead(s)
     \/ (\E k \in Chunks : UdpRecv(s, k)) \/ FrameRead(s) \/ MuxBind(s) \/ Delivers(s)
     \/ ClientGone(s) \/ Drain(s) \/ LockAndSeal(s) \/ Push(s) \/ Gets(s)
<1>1. ASSUME NEW s \in Sessions, Handshaking(s) PROVE Known(s)
  <2>1. ASSUME NEW h \in Hellos, HsHello(s, h) PROVE Ends(s) \/ Moves(s)
    BY <2>1 DEF HsHello, Ends, Moves, Route
  <2>2. ASSUME NEW t \in Tickets, HsPfs(s, t) PROVE Moves(s)
    BY <2>2 DEF HsPfs, Moves, Route
  <2>3. CASE HsPadding(s)
    BY <2>3 DEF HsPadding, Moves, Route
  <2>4. CASE HandshakeFails(s)
    BY <2>4 DEF HandshakeFails, Ends, Reading, Replying
  <2>5. ASSUME NEW r \in conf.requests, Header(s, r) PROVE Ends(s) \/ Admits(s)
    BY <2>5 DEF Header, Arrives, Ends, Admits
  <2>6. CASE ConnectFails(s)
    BY <2>6 DEF ConnectFails, Ends
  <2>7. ASSUME NEW r \in conf.requests, HeaderSpins(s, r) PROVE Moves(s)
    BY <2>7 DEF HeaderSpins, Arrives, Moves, Route
  <2>8. \A r \in conf.requests : ~HeaderPanics(s, r)
    BY DEF Running, Restarts
  <2> HIDE DEF tasks, targets, cache, bounds
  <2> QED
    BY <1>1, <2>1, <2>2, <2>3, <2>4, <2>5, <2>6, <2>7, <2>8 DEF Handshaking
<1>2. ASSUME NEW s \in Sessions, Serve(s) PROVE Known(s)
  <2>1. CASE UdpEnds(s) \/ MuxBindFails(s) \/ MuxEnds(s)
    BY <2>1 DEF UdpEnds, MuxBindFails, MuxEnds, Ends
  <2>2. ASSUME NEW f \in conf.frames, MuxFrame(s, f) PROVE Ends(s) \/ FrameRead(s) \/ UNCHANGED tasks
    <3>1. f.id \in Ids /\ f.data \in BOOLEAN
      BY DispatcherAssumption DEF Typed
    <3>2. CASE ReadFrame(f) # "ok"
      BY <2>2, <3>2 DEF MuxFrame, Ends
    <3>3. CASE ReadFrame(f) = "ok" /\ Status(f.status) = "new"
      BY <2>2, <3>1, <3>3 DEF MuxFrame, FrameRead
    <3>4. CASE ReadFrame(f) = "ok" /\ Status(f.status) = "keep" /\ f.data
      BY <2>2, <3>1, <3>4 DEF MuxFrame, FrameRead, Ends
    <3>5. CASE ReadFrame(f) = "ok" /\ Status(f.status) = "end"
      BY <2>2, <3>1, <3>5 DEF MuxFrame, FrameRead
    <3>6. CASE ReadFrame(f) = "ok" /\ Status(f.status) \notin {"new", "end"} /\ ~(Status(f.status) = "keep" /\ f.data)
      BY <2>2, <3>6 DEF MuxFrame
    <3> QED
      BY <3>2, <3>3, <3>4, <3>5, <3>6
  <2>3. CASE MuxSend(s)
    <3>1. sess[s].cur.a \in Assocs \cup {Closed}
      BY <2>3 DEF MuxSend, Typed, Tasks, Senders, Places
    <3> QED
      BY <2>3, <3>1 DEF MuxSend, Ends, Delivers
  <2> HIDE DEF tasks, targets, cache, bounds
  <2> QED
    BY <1>2, <2>1, <2>2, <2>3 DEF Serve
<1>3. ASSUME NEW s \in Sessions, SendFails(s) PROVE Ends(s)
  BY <1>3 DEF SendFails, Ready, Ends, Places
<1>4. ASSUME NEW s \in Sessions, TcpEof(s) \/ TcpUpload(s) \/ TcpTaken(s) PROVE Moves(s)
  BY <1>4 DEF TcpEof, TcpUpload, TcpTaken, Moves, Route
<1>5. ASSUME NEW s \in Sessions, Environment(s) PROVE Known(s)
  <2>1. ASSUME NEW k \in Chunks, TcpTarget(s, k) PROVE Gets(s)
    BY <2>1 DEF TcpTarget, Gets
  <2>2. CASE TcpTargetEnds(s) \/ TcpUploadFails(s)
    BY <2>2 DEF TcpTargetEnds, TcpUploadFails, Ends
  <2> HIDE DEF tasks, targets, cache, bounds
  <2> QED
    BY <1>4, <1>5, <2>1, <2>2 DEF Environment
<1>6. ASSUME NEW s \in Sessions, SessionStep(s) PROVE Known(s)
  <2> HIDE DEF tasks, targets, cache, bounds
  <2> QED
    BY <1>1, <1>2, <1>3, <1>4, <1>6 DEF SessionStep, Writing
<1>7. ASSUME NEW a \in Assocs, AssocStep(a)
      PROVE  AssocMessage(a) \/ (EndAssoc(a) /\ assoc[a] # Unused) \/ LockAndSeal(a) \/ Push(a) \/ Gets(a)
  <2>1. ASSUME SendFails(a) PROVE EndAssoc(a) /\ assoc[a] # Unused
    <3>1. a \notin Sessions /\ send[a].left > 0
      BY <2>1, DispatcherAssumption DEF SendFails, Ready, Sending
    <3>2. send[a] # NoSend
      BY <3>1 DEF NoSend
    <3>3. assoc[a] # Unused
      BY <3>2 DEF Owned, Unused
    <3> QED
      BY <2>1, <3>1, <3>3 DEF SendFails
  <2>2. ASSUME NEW k \in Chunks, AssocPacket(a, k) PROVE Gets(a)
    BY <2>2 DEF AssocPacket, Gets
  <2> HIDE DEF tasks, targets, cache, bounds
  <2> QED
    BY <1>7, <2>1, <2>2 DEF AssocStep, AssocClosed, AssocEnds, Writing
<1>8. CASE Silence \/ Tick \/ UNCHANGED vars
  BY <1>8 DEF Silence, Tick, vars
<1> HIDE DEF tasks, targets, cache, bounds
<1> QED
  BY <1>5, <1>6, <1>7, <1>8 DEF Running, Restarts, Next, Agents

-------------------------------------------------------------------------------
(* Every variable keeps its type.                                            *)

\* There is a slot for the association of a session that got its permit.
SlotLeft == \A s \in Sessions : sess[s].pc = "muxBind" => \E a \in Assocs : assoc[a] = Unused

LEMMA Constants ==
  /\ NoOne # Closed /\ NoOne \notin Agents /\ Closed \notin Agents /\ Sessions \cap Assocs = {}
  /\ SinkCap \in Nat \ {0} /\ InboxCap \in Nat \ {0}
  /\ IsFiniteSet(Sessions) /\ IsFiniteSet(Assocs)
  BY DispatcherAssumption DEF Agents

LEMMA ConfKept == ASSUME [Next]_vars PROVE UNCHANGED conf
<1> USE DEF End, EndAssoc, Goto
<1>1. ASSUME NEW s \in Sessions, Handshaking(s) PROVE UNCHANGED conf
  BY <1>1 DEF Handshaking, HsHello, HsPfs, HsReply, HsPadding, HsTicket, HsLookup, HandshakeFails,
     Header, HeaderSpins, HeaderPanics, Acquire, Connect, ConnectFails
<1>2. ASSUME NEW s \in Sessions, Serve(s) PROVE UNCHANGED conf
  BY <1>2 DEF Serve, UdpRead, UdpRecv, UdpEnds, MuxFrame, MuxBind, MuxBindFails, MuxSend, MuxEnds
<1>3. ASSUME NEW x \in Agents, Writing(x) PROVE UNCHANGED conf
  BY <1>3 DEF Writing, LockAndSeal, Push, SendFails
<1>4. ASSUME NEW s \in Sessions, Environment(s) \/ TcpEof(s) PROVE UNCHANGED conf
  BY <1>4 DEF Environment, Start, ClientGone, Drain, TcpTarget, TcpTargetEnds, TcpUpload, TcpTaken, TcpEof, TcpUploadFails
<1>5. ASSUME NEW a \in Assocs, AssocStep(a) PROVE UNCHANGED conf
  BY <1>3, <1>5 DEF AssocStep, AssocMessage, AssocClosed, AssocEnds, AssocPacket, Agents
<1>6. CASE Silence \/ Tick \/ UNCHANGED vars
  BY <1>6 DEF Silence, Tick, vars
<1> QED
  BY <1>1, <1>2, <1>3, <1>4, <1>5, <1>6 DEF Next, SessionStep, Agents

LEMMA AfterResponseType ==
  ASSUME NEW s
  PROVE  /\ AfterResponse(s) \in {"permit", "mux", "idle"}
         /\ AfterResponse(s) # "idle" <=> Handled(sess[s].req)
  BY DEF AfterResponse, Handled

\* The task of s has returned.
Idled(s) == sess' = [sess EXCEPT ![s] = [Idle EXCEPT !.gone = sess[s].gone]]

LEMMA TasksStep ==
  ASSUME Typed, Places, Owned, SlotLeft, Running
  PROVE  Tasks'
<1>0. Tasks /\ assoc \in [Assocs -> Association]
  BY DEF Typed
<1>c. UNCHANGED conf
  BY ConfKept DEF Running
<1> USE <1>0, <1>c DEF Tasks
<1>1. CASE UNCHANGED tasks
  BY <1>1 DEF tasks
<1>2. ASSUME NEW s \in Sessions, Start(s) PROVE Tasks'
  BY <1>2 DEF Start, Pcs, Reading, Idle, NoMux, NoCur, Senders
<1>3. ASSUME NEW s \in Sessions, Idled(s) PROVE Tasks'
  BY <1>3 DEF Idled, Pcs, Idle, NoMux, NoCur, Senders
<1>4. ASSUME NEW s \in Sessions, NEW p \in Pcs, Goto(s, p) PROVE Tasks'
  BY <1>4 DEF Goto
<1>5. ASSUME NEW s \in Sessions, Ends(s) PROVE Tasks'
  BY <1>3, <1>5 DEF Ends, End, Idled
<1>6. ASSUME NEW s \in Sessions, Moves(s) PROVE Tasks'
  <2>1. PICK r \in Route : Goto(s, r[2])
    BY <1>6 DEF Moves
  <2>2. r[2] \in Pcs
    BY DEF Route, Pcs, Reading, Replying, Serving
  <2> QED
    BY <1>4, <2>1, <2>2
<1>7. ASSUME NEW s \in Sessions, HsReply(s) PROVE Tasks'
  BY <1>7 DEF HsReply, Pcs, Reading
<1>8. ASSUME NEW s \in Sessions, NEW t, NEW k, HsTicket(s, t, k) PROVE Tasks'
  BY <1>8 DEF HsTicket, Pcs
<1>9. ASSUME NEW s \in Sessions, HsLookup(s) PROVE Tasks'
  <2>1. Idled(s) \/ Goto(s, "random") \/ Goto(s, "decoy")
    BY <1>9 DEF HsLookup, Idled, Goto
  <2> QED
    BY <1>3, <1>4, <2>1 DEF Pcs, Replying
<1>10. ASSUME NEW s \in Sessions, Admits(s) PROVE Tasks'
  BY <1>10 DEF Admits, Pcs, Serving
<1>11. ASSUME NEW s \in Sessions, Acquire(s) PROVE Tasks'
  <2> DEFINE m == IF sess[s].pc = "permit" THEN sess[s].mux ELSE [sess[s].mux EXCEPT ![sess[s].cur.id] = NoOne]
             p == IF sess[s].pc = "permit" THEN "connect" ELSE "muxBind"
  <2>1. sess' = [sess EXCEPT ![s].pc = p, ![s].mux = m]
    BY <1>11 DEF Acquire
  <2>2. m \in [Ids -> Senders] /\ p \in Pcs
    BY DEF Pcs, Serving, Senders
  <2> HIDE DEF m, p
  <2> QED
    BY <2>1, <2>2
<1>12. ASSUME NEW s \in Sessions, Connect(s) PROVE Tasks'
  BY <1>4, <1>12 DEF Connect, Places, Pcs, Serving
<1>13. ASSUME NEW s \in Sessions, NEW k, UdpRead(s) \/ UdpRecv(s, k) PROVE Tasks'
  BY <1>13 DEF UdpRead, UdpRecv
<1>14. ASSUME NEW s \in Sessions, FrameRead(s) PROVE Tasks'
  BY <1>14, SMTT(30) DEF FrameRead, Pcs, Serving, Senders
<1>15. ASSUME NEW s \in Sessions, MuxBind(s) PROVE Tasks'
  <2>1. PICK a \in Assocs : sess' = [sess EXCEPT ![s].mux[sess[s].cur.id] = a,
                               ![s].pc = IF sess[s].cur.data THEN "muxSend" ELSE "mux",
                               ![s].cur = IF sess[s].cur.data THEN [@ EXCEPT !.a = a] ELSE NoCur]
    BY <1>15 DEF MuxBind, SlotLeft
  <2> DEFINE m == [sess[s].mux EXCEPT ![sess[s].cur.id] = a]
             p == IF sess[s].cur.data THEN "muxSend" ELSE "mux"
             c == IF sess[s].cur.data THEN [sess[s].cur EXCEPT !.a = a] ELSE NoCur
  <2>2. sess' = [sess EXCEPT ![s].mux = m, ![s].pc = p, ![s].cur = c]
    BY <2>1
  <2>3. m \in [Ids -> Senders] /\ p \in Pcs
    BY DEF Pcs, Serving, Senders
  <2>4. DOMAIN c = {"id", "data", "a"} /\ c.id \in Ids \cup {0} /\ c.a \in Senders
    BY DEF NoCur, Senders
  <2> HIDE DEF m, p, c
  <2> QED
    BY <2>2, <2>3, <2>4
<1>16. ASSUME NEW s \in Sessions, Delivers(s) PROVE Tasks'
  BY <1>16 DEF Delivers, Pcs, Serving, Senders, NoCur
<1>17. ASSUME NEW s \in Sessions, ClientGone(s) \/ Drain(s) PROVE Tasks'
  BY <1>17 DEF ClientGone, Drain
<1>18. ASSUME NEW a \in Assocs, AssocMessage(a) PROVE Tasks'
  BY <1>18 DEF AssocMessage
<1>19. ASSUME NEW a \in Assocs, EndAssoc(a), assoc[a] # Unused PROVE Tasks'
  <2>1. assoc[a].owner \in Sessions
    BY <1>19 DEF Owned, Association
  <2> DEFINE s == assoc[a].owner
             m == [i \in Ids |-> IF sess[s].mux[i] = a THEN Closed ELSE sess[s].mux[i]]
             c == IF sess[s].cur.a = a THEN [sess[s].cur EXCEPT !.a = Closed] ELSE sess[s].cur
  <2>2. sess' = [sess EXCEPT ![s].mux = m, ![s].cur = c]
    BY <1>19 DEF EndAssoc
  <2>3. m \in [Ids -> Senders]
    BY <2>1 DEF Senders
  <2>4. DOMAIN c = {"id", "data", "a"} /\ c.id \in Ids \cup {0} /\ c.a \in Senders
    BY <2>1 DEF Senders
  <2> HIDE DEF s, m, c
  <2>5. s \in Sessions
    BY <2>1 DEF s
  <2> QED
    BY <2>2, <2>3, <2>4, <2>5
<1>20. ASSUME NEW x \in Agents, LockAndSeal(x) \/ Gets(x) PROVE Tasks'
  BY <1>20 DEF LockAndSeal, Gets
<1>21. ASSUME NEW x \in Agents, Push(x) PROVE Tasks'
  <2>1. UNCHANGED sess \/ (x \in Sessions /\ (Idled(x) \/ Goto(x, "permit") \/ Goto(x, "mux")))
    BY <1>21, AfterResponseType DEF Push, Idled
  <2> QED
    BY <1>3, <1>4, <2>1 DEF Pcs, Serving
<1> HIDE <1>0, <1>c DEF Tasks
<1> QED
  BY <1>1, <1>2, <1>5, <1>6, <1>7, <1>8, <1>9, <1>10, <1>11, <1>12, <1>13, <1>14, <1>15, <1>16,
     <1>17, <1>18, <1>19, <1>20, <1>21, Kinds

\* An agent that is sending has a session to send to.
LEMMA OwnerType ==
  ASSUME Typed, Owned, NEW x \in Agents, send[x].left > 0 \/ (x \in Assocs /\ assoc[x] # Unused) \/ x \in Sessions
  PROVE  Owner(x) \in Sessions /\ (x \in Assocs => assoc[x].owner \in Sessions /\ Owner(x) = assoc[x].owner)
  BY Constants DEF Owner, Owned, Typed, Association, Unused, NoSend, Agents

\* What sending a chunk does to the session's channel.
LEMMA PushChannel ==
  ASSUME Typed, NEW x \in Agents, Push(x), Owner(x) \in Sessions
  PROVE  /\ DOMAIN chan' = Sessions
         /\ \A t \in Sessions : DOMAIN chan'[t] = DOMAIN chan[t]
         /\ \A t \in Sessions \ {Owner(x)} : chan'[t] = chan[t]
         /\ chan'[Owner(x)].sink = chan[Owner(x)].sink + 1 /\ chan[Owner(x)].sink < SinkCap
         /\ chan'[Owner(x)].lock = IF ~Encrypted THEN chan[Owner(x)].lock
                                   ELSE IF send[x].left > 1 THEN x ELSE NoOne
         /\ chan'[Owner(x)].cipher = IF send[x].left > 1 THEN (chan[Owner(x)].cipher + 1) % 2 ELSE chan[Owner(x)].cipher
         /\ chan'[Owner(x)].n = IF Encrypted /\ ~chan[Owner(x)].cut THEN (send[x].rec + 1) % 2 ELSE chan[Owner(x)].n
         /\ chan'[Owner(x)].open = IF chan[Owner(x)].cut THEN chan[Owner(x)].open
                                   ELSE IF send[x].left > 1 THEN x ELSE NoOne
         /\ chan'[Owner(x)].broken =
              (chan[Owner(x)].broken \/ (~chan[Owner(x)].cut /\ OutOfPlace(x, chan[Owner(x)])))
         /\ chan'[Owner(x)].cut = chan[Owner(x)].cut
<1> DEFINE s == Owner(x)
           c == chan[s]
           after == IF send[x].left > 1 THEN x ELSE NoOne
           sealed == IF send[x].left > 1 THEN (c.cipher + 1) % 2 ELSE c.cipher
           next == IF Encrypted /\ ~c.cut THEN (send[x].rec + 1) % 2 ELSE c.n
           bad == ~c.cut /\ OutOfPlace(x, c)
<1>1. /\ DOMAIN chan = Sessions /\ s \in Sessions /\ c.sink < SinkCap
      /\ DOMAIN c = {"sink", "lock", "cipher", "n", "open", "broken", "cut"}
  BY DEF Push, HasRoom, Typed, Channels
<1>2. chan' = [chan EXCEPT ![s].sink = @ + 1,
                           ![s].lock = IF Encrypted THEN after ELSE @,
                           ![s].cipher = sealed,
                           ![s].n = next,
                           ![s].open = IF c.cut THEN @ ELSE after,
                           ![s].broken = @ \/ bad]
  BY <1>1 DEF Push
<1> HIDE DEF s, after, sealed, next, bad
<1>3. /\ DOMAIN chan' = Sessions
      /\ \A t \in Sessions : DOMAIN chan'[t] = DOMAIN chan[t]
      /\ \A t \in Sessions \ {s} : chan'[t] = chan[t]
  BY <1>1, <1>2
<1>4. /\ chan'[s].sink = c.sink + 1 /\ chan'[s].cipher = sealed /\ chan'[s].n = next
      /\ chan'[s].lock = IF Encrypted THEN after ELSE c.lock
      /\ chan'[s].open = IF c.cut THEN c.open ELSE after
      /\ chan'[s].broken = (c.broken \/ bad) /\ chan'[s].cut = c.cut
  BY <1>1, <1>2
<1> QED
  BY <1>1, <1>3, <1>4, Zenon DEF s, after, sealed, next, bad

LEMMA ChannelsStep ==
  ASSUME Typed, Places, Owned, Running
  PROVE  Channels'
<1>0. Channels /\ SinkCap \in Nat \ {0}
  BY Constants DEF Typed
<1> USE <1>0 DEF Channels
<1>1. CASE UNCHANGED chan
  BY <1>1
<1>2. ASSUME NEW s \in Sessions, Start(s) PROVE Channels'
  BY <1>2 DEF Start, Open
<1>3. ASSUME NEW s \in Sessions, Ends(s) PROVE Channels'
  BY <1>3 DEF Ends, End
<1>4. ASSUME NEW s \in Sessions, HsReply(s) \/ ClientGone(s) \/ Drain(s) PROVE Channels'
  BY <1>4 DEF HsReply, ClientGone, Drain
<1>5. ASSUME NEW a \in Assocs, EndAssoc(a), assoc[a] # Unused PROVE Channels'
  <2>1. assoc[a].owner \in Sessions
    BY <1>5, OwnerType DEF Agents
  <2> DEFINE s == assoc[a].owner
             c == IF chan[s].lock # a THEN chan[s]
                  ELSE [Open EXCEPT !.sink = chan[s].sink, !.cipher = chan[s].cipher, !.cut = TRUE]
  <2>2. chan' = [chan EXCEPT ![s] = c]
    BY <1>5 DEF EndAssoc
  <2>3. /\ DOMAIN c = {"sink", "lock", "cipher", "n", "open", "broken", "cut"}
        /\ c.sink \in 0 .. SinkCap /\ c.lock \in Agents \cup {NoOne} /\ c.cipher \in {0, 1} /\ c.n \in {0, 1}
    BY <2>1 DEF Open
  <2> HIDE DEF s, c
  <2> QED
    BY <2>2, <2>3
<1>6. ASSUME NEW x \in Agents, LockAndSeal(x) PROVE Channels'
  <2>1. Owner(x) \in Sessions
    BY <1>6, OwnerType DEF LockAndSeal, Sending
  <2> QED
    BY <1>6, <2>1 DEF LockAndSeal
<1>7. ASSUME NEW x \in Agents, Push(x) PROVE Channels'
  <2>1. Owner(x) \in Sessions /\ send[x].rec \in 0 .. 2
    BY <1>7, OwnerType DEF Push, Ready, Sending, Typed, Message, NoRecord
  <2> QED
    BY <1>7, <2>1, PushChannel
<1>8. ASSUME NEW s \in Sessions,
             \/ Moves(s) \/ (\E t \in issued, k \in NfsKeys : HsTicket(s, t, k)) \/ HsLookup(s) \/ Admits(s)
             \/ Acquire(s) \/ Connect(s) \/ UdpRead(s) \/ (\E k \in Chunks : UdpRecv(s, k)) \/ FrameRead(s)
             \/ MuxBind(s) \/ Delivers(s)
      PROVE  UNCHANGED chan
  BY <1>8 DEF Moves, HsTicket, HsLookup, Admits, Acquire, Connect, UdpRead, UdpRecv, FrameRead, MuxBind, Delivers
<1>9. ASSUME NEW x \in Agents, Gets(x) PROVE UNCHANGED chan
  BY <1>9 DEF Gets
<1>10. ASSUME NEW a \in Assocs, AssocMessage(a) PROVE UNCHANGED chan
  BY <1>10 DEF AssocMessage
<1>11. CASE UNCHANGED tasks
  BY <1>1, <1>11 DEF tasks
<1> HIDE <1>0 DEF Channels
<1> QED
  BY <1>1, <1>2, <1>3, <1>4, <1>5, <1>6, <1>7, <1>8, <1>9, <1>10, <1>11, Kinds

LEMMA MessagesStep ==
  ASSUME Typed, Places, Owned, Running
  PROVE  send' \in [Agents -> Message]
<1>0. send \in [Agents -> Message] /\ \A s \in Sessions : chan[s].cipher \in {0, 1}
  BY DEF Typed, Channels
<1>1. NoSend \in Message /\ \A s \in Sessions : s \in Agents
  BY DEF NoSend, Message, NoRecord, Agents
<1>2. ASSUME NEW s \in Sessions, Ends(s) PROVE send' \in [Agents -> Message]
  BY <1>0, <1>1, <1>2 DEF Ends, End
<1>3. ASSUME NEW s \in Sessions, Admits(s) PROVE send' \in [Agents -> Message]
  BY <1>0, <1>1, <1>3 DEF Admits, Message
<1>4. ASSUME NEW s \in Sessions, NEW k \in Chunks, UdpRecv(s, k) PROVE send' \in [Agents -> Message]
  BY <1>0, <1>1, <1>4 DEF UdpRecv, Message, Chunks
<1>5. ASSUME NEW a \in Assocs, EndAssoc(a) PROVE send' \in [Agents -> Message]
  BY <1>0, <1>1, <1>5 DEF EndAssoc, Agents
<1>6. ASSUME NEW x \in Agents, LockAndSeal(x) PROVE send' \in [Agents -> Message]
  <2>1. Owner(x) \in Sessions
    BY <1>6, OwnerType DEF LockAndSeal, Sending
  <2> QED
    BY <1>0, <1>6, <2>1 DEF LockAndSeal, Message, NoRecord
<1>7. ASSUME NEW x \in Agents, Push(x) PROVE send' \in [Agents -> Message]
  <2>1. Owner(x) \in Sessions
    BY <1>7, OwnerType DEF Push, Ready, Sending
  <2>2. send[x].left > 1 => [left |-> send[x].left - 1, rec |-> chan[Owner(x)].cipher] \in Message
    BY <1>0, <2>1 DEF Message, NoRecord
  <2> QED
    BY <1>0, <1>1, <1>7, <2>2 DEF Push
<1>8. ASSUME NEW x \in Agents, Gets(x) PROVE send' \in [Agents -> Message]
  BY <1>0, <1>8 DEF Gets, Message, Chunks
<1>9. ASSUME NEW s \in Sessions,
             \/ Start(s) \/ Moves(s) \/ HsReply(s) \/ (\E t \in issued, k \in NfsKeys : HsTicket(s, t, k)) \/ HsLookup(s)
             \/ Acquire(s) \/ Connect(s) \/ UdpRead(s) \/ FrameRead(s)
             \/ MuxBind(s) \/ Delivers(s) \/ ClientGone(s) \/ Drain(s)
      PROVE  UNCHANGED send
  BY <1>9 DEF Start, Moves, HsReply, HsTicket, HsLookup, Acquire, Connect, UdpRead, FrameRead, MuxBind, Delivers,
     ClientGone, Drain
<1>10. ASSUME NEW a \in Assocs, AssocMessage(a) PROVE UNCHANGED send
  BY <1>10 DEF AssocMessage
<1>11. CASE UNCHANGED tasks
  BY <1>0, <1>11 DEF tasks
<1> QED
  BY <1>0, <1>2, <1>3, <1>4, <1>5, <1>6, <1>7, <1>8, <1>9, <1>10, <1>11, Kinds

\* The association MuxBind makes takes a slot that was blank.
LEMMA BindSlot ==
  ASSUME Typed, SlotLeft, NEW s \in Sessions, MuxBind(s)
  PROVE  \E a \in Assocs :
           /\ assoc[a] = Unused
           /\ assoc' = [assoc EXCEPT ![a] = [owner |-> s, id |-> sess[s].cur.id, inbox |-> 0]]
           /\ sess' = [sess EXCEPT ![s].mux = [sess[s].mux EXCEPT ![sess[s].cur.id] = a],
                                   ![s].pc = IF sess[s].cur.data THEN "muxSend" ELSE "mux",
                                   ![s].cur = IF sess[s].cur.data THEN [sess[s].cur EXCEPT !.a = a] ELSE NoCur]
<1> DEFINE a == CHOOSE x \in Assocs : assoc[x] = Unused
<1>1. a \in Assocs /\ assoc[a] = Unused
  BY DEF MuxBind, SlotLeft
<1>2. /\ assoc' = [assoc EXCEPT ![a] = [owner |-> s, id |-> sess[s].cur.id, inbox |-> 0]]
      /\ sess' = [sess EXCEPT ![s].mux[sess[s].cur.id] = a,
                              ![s].pc = IF sess[s].cur.data THEN "muxSend" ELSE "mux",
                              ![s].cur = IF sess[s].cur.data THEN [@ EXCEPT !.a = a] ELSE NoCur]
  BY DEF MuxBind
<1> HIDE DEF a
<1>3. sess' = [sess EXCEPT ![s].mux = [sess[s].mux EXCEPT ![sess[s].cur.id] = a],
                           ![s].pc = IF sess[s].cur.data THEN "muxSend" ELSE "mux",
                           ![s].cur = IF sess[s].cur.data THEN [sess[s].cur EXCEPT !.a = a] ELSE NoCur]
  BY <1>2 DEF Typed, Tasks
<1> QED
  BY <1>1, <1>2, <1>3

LEMMA AssociationsStep ==
  ASSUME Typed, Places, Owned, SlotLeft, Running
  PROVE  assoc' \in [Assocs -> Association]
<1>0. assoc \in [Assocs -> Association] /\ InboxCap \in Nat \ {0} /\ \A s \in Sessions : sess[s].cur.id \in Ids \cup {0}
  BY Constants DEF Typed, Tasks
<1>1. ASSUME NEW s \in Sessions, MuxBind(s) PROVE assoc' \in [Assocs -> Association]
  <2>1. [owner |-> s, id |-> sess[s].cur.id, inbox |-> 0] \in Association
    BY <1>0 DEF Association
  <2> QED
    BY <1>0, <1>1, <2>1, BindSlot
<1>2. ASSUME NEW s \in Sessions, Delivers(s) PROVE assoc' \in [Assocs -> Association]
  BY <1>0, <1>2 DEF Delivers, Association
<1>3. ASSUME NEW a \in Assocs, AssocMessage(a) PROVE assoc' \in [Assocs -> Association]
  BY <1>0, <1>3 DEF AssocMessage, Association
<1>4. ASSUME NEW a \in Assocs, EndAssoc(a) PROVE assoc' \in [Assocs -> Association]
  <2>1. Unused \in Association
    BY <1>0 DEF Unused, Association
  <2> QED
    BY <1>0, <1>4, <2>1 DEF EndAssoc
<1>5. ASSUME NEW s \in Sessions,
             \/ Start(s) \/ Ends(s) \/ Moves(s) \/ HsReply(s) \/ (\E t \in issued, k \in NfsKeys : HsTicket(s, t, k))
             \/ HsLookup(s) \/ Admits(s) \/ Acquire(s) \/ Connect(s) \/ UdpRead(s)
             \/ (\E k \in Chunks : UdpRecv(s, k)) \/ FrameRead(s) \/ ClientGone(s) \/ Drain(s)
      PROVE  UNCHANGED assoc
  BY <1>5 DEF Start, Ends, End, Moves, HsReply, HsTicket, HsLookup, Admits, Acquire, Connect, UdpRead, UdpRecv,
     FrameRead, ClientGone, Drain
<1>6. ASSUME NEW x \in Agents, LockAndSeal(x) \/ Push(x) \/ Gets(x) PROVE UNCHANGED assoc
  BY <1>6 DEF LockAndSeal, Push, Gets
<1>7. CASE UNCHANGED tasks
  BY <1>0, <1>7 DEF tasks
<1> QED
  BY <1>0, <1>1, <1>2, <1>3, <1>4, <1>5, <1>6, <1>7, Kinds

LEMMA SemaphoreStep ==
  ASSUME Typed, Places, Owned, Running
  PROVE  Semaphore'
<1>0. waiting \in Seq(Sessions) /\ permits \in Nat /\ gauge \in Int
  BY DEF Typed, Semaphore
<1> USE <1>0 DEF Semaphore
<1>1. CASE UNCHANGED <<waiting, permits, gauge>>
  BY <1>1
<1>2. ASSUME NEW s \in Sessions, Ends(s) PROVE Semaphore'
  BY <1>2 DEF Ends, End
<1>3. ASSUME NEW s \in Sessions, Acquire(s) PROVE Semaphore'
  BY <1>3 DEF Acquire
<1>4. ASSUME NEW s \in Sessions, Connect(s) \/ MuxBind(s) PROVE Semaphore'
  <2>1. UNCHANGED <<waiting, permits>> /\ gauge' = gauge + 1
    BY <1>4 DEF Connect, MuxBind
  <2> QED
    BY <2>1
<1>5. ASSUME NEW s \in Sessions, FrameRead(s) PROVE Semaphore'
  BY <1>5 DEF FrameRead
<1>6. ASSUME NEW a \in Assocs, EndAssoc(a) PROVE Semaphore'
  BY <1>6 DEF EndAssoc
<1>7. ASSUME NEW x \in Agents, Push(x) PROVE Semaphore'
  <2>1. UNCHANGED <<permits, gauge>> /\ (UNCHANGED waiting \/ (x \in Sessions /\ waiting' = Append(waiting, x)))
    BY <1>7 DEF Push
  <2> QED
    BY <2>1
<1>8. ASSUME NEW s \in Sessions,
             \/ Start(s) \/ Moves(s) \/ HsReply(s) \/ (\E t \in issued, k \in NfsKeys : HsTicket(s, t, k)) \/ HsLookup(s)
             \/ Admits(s) \/ UdpRead(s) \/ (\E k \in Chunks : UdpRecv(s, k)) \/ Delivers(s) \/ ClientGone(s) \/ Drain(s)
      PROVE  UNCHANGED <<waiting, permits, gauge>>
  BY <1>8 DEF Start, Moves, HsReply, HsTicket, HsLookup, Admits, UdpRead, UdpRecv, Delivers, ClientGone, Drain, targets
<1>9. ASSUME NEW x \in Agents, LockAndSeal(x) \/ Gets(x) PROVE UNCHANGED <<waiting, permits, gauge>>
  BY <1>9 DEF LockAndSeal, Gets, targets
<1>10. ASSUME NEW a \in Assocs, AssocMessage(a) PROVE UNCHANGED <<waiting, permits, gauge>>
  BY <1>10 DEF AssocMessage, targets
<1>11. CASE UNCHANGED tasks
  BY <1>11 DEF tasks
<1> HIDE <1>0 DEF Semaphore
<1> QED
  BY <1>1, <1>2, <1>3, <1>4, <1>5, <1>6, <1>7, <1>8, <1>9, <1>10, <1>11, Kinds

\* The steps that touch the ticket cache.
LEMMA CacheKinds ==
  ASSUME Running
  PROVE  \/ UNCHANGED cache
         \/ Tick
         \/ \E s \in Sessions : \/ \E t \in Tickets : HsPfs(s, t)
                                \/ \E t \in issued, key \in NfsKeys : HsTicket(s, t, key)
                                \/ HsLookup(s)
<1> DEFINE Touches(s) == \/ UNCHANGED cache
                         \/ \E t \in Tickets : HsPfs(s, t)
                         \/ \E t \in issued, key \in NfsKeys : HsTicket(s, t, key)
                         \/ HsLookup(s)
<1> USE DEF End, EndAssoc, Goto
<1>1. ASSUME NEW s \in Sessions, Handshaking(s) PROVE Touches(s)
  <2>1. \A r \in conf.requests : ~HeaderPanics(s, r)
    BY DEF Running, Restarts
  <2> QED
    BY <1>1, <2>1 DEF Handshaking, HsHello, HsReply, HsPadding, HandshakeFails, Header, HeaderSpins, Acquire, Connect,
       ConnectFails
<1>2. ASSUME NEW s \in Sessions, Serve(s) PROVE UNCHANGED cache
  BY <1>2 DEF Serve, UdpRead, UdpRecv, UdpEnds, MuxFrame, MuxBind, MuxBindFails, MuxSend, MuxEnds
<1>3. ASSUME NEW x \in Agents, Writing(x) PROVE UNCHANGED cache
  BY <1>3 DEF Writing, LockAndSeal, Push, SendFails
<1>4. ASSUME NEW s \in Sessions, Environment(s) \/ TcpEof(s) PROVE UNCHANGED cache
  BY <1>4 DEF Environment, Start, ClientGone, Drain, TcpTarget, TcpTargetEnds, TcpUpload, TcpTaken, TcpEof, TcpUploadFails
<1>5. ASSUME NEW a \in Assocs, AssocStep(a) PROVE UNCHANGED cache
  BY <1>3, <1>5 DEF AssocStep, AssocMessage, AssocClosed, AssocEnds, AssocPacket, Agents
<1>6. CASE Silence \/ UNCHANGED vars
  BY <1>6 DEF Silence, vars, cache
<1> QED
  BY <1>1, <1>2, <1>3, <1>4, <1>5, <1>6 DEF Running, Restarts, Next, SessionStep, Agents

LEMMA CacheStep ==
  ASSUME Cache, Running
  PROVE  Cache'
<1> USE DEF Cache
<1>1. CASE UNCHANGED cache
  BY <1>1 DEF cache
<1>2. CASE Tick
  BY <1>2 DEF Tick
<1>3. ASSUME NEW s \in Sessions, NEW t \in Tickets, HsPfs(s, t) PROVE Cache'
  BY <1>3 DEF HsPfs, CreateTicket
<1>4. ASSUME NEW s \in Sessions, NEW t, NEW key, HsTicket(s, t, key) PROVE Cache'
  BY <1>4 DEF HsTicket, CleanupTickets
<1>5. ASSUME NEW s \in Sessions, HsLookup(s) PROVE Cache'
  BY <1>5 DEF HsLookup, UseTicket
<1> QED
  BY <1>1, <1>2, <1>3, <1>4, <1>5, CacheKinds

LEMMA TypedStep ==
  ASSUME Typed, Places, Owned, SlotLeft, Running
  PROVE  Typed'
<1>1. conf' \in Scenarios /\ Cache'
  BY ConfKept, CacheStep DEF Typed, Running
<1> QED
  BY <1>1, TasksStep, ChannelsStep, MessagesStep, AssociationsStep, SemaphoreStep DEF Typed

-------------------------------------------------------------------------------
(* Places, owners and the queue.                                             *)

\* A session that gets a permit was waiting for it, and its place tells for what.
LEMMA AcquireSession ==
  ASSUME Typed, Queued, NEW s \in Sessions, Acquire(s)
  PROVE  /\ sess[s].pc \in {"permit", "muxPermit"}
         /\ DOMAIN sess' = Sessions
         /\ \A t \in Sessions \ {s} : sess'[t] = sess[t]
         /\ sess'[s].pc = IF sess[s].pc = "permit" THEN "connect" ELSE "muxBind"
         /\ sess'[s].req = sess[s].req /\ sess'[s].cur = sess[s].cur /\ sess'[s].gone = sess[s].gone
         /\ sess'[s].part = sess[s].part /\ sess'[s].place = sess[s].place /\ sess'[s].torn = sess[s].torn
         /\ \A i \in Ids : sess'[s].mux[i] \in {NoOne, sess[s].mux[i]}
<1>0. Tasks /\ waiting \in Seq(Sessions)
  BY DEF Typed, Semaphore
<1>1. waiting # <<>> /\ Head(waiting) = s
  BY DEF Acquire
<1>2. 1 \in 1 .. Len(waiting) /\ waiting[1] = s
  BY <1>0, <1>1
<1>3. sess[s].pc \in {"permit", "muxPermit"}
  BY <1>2 DEF Queued
<1> DEFINE m == IF sess[s].pc = "permit" THEN sess[s].mux ELSE [sess[s].mux EXCEPT ![sess[s].cur.id] = NoOne]
           p == IF sess[s].pc = "permit" THEN "connect" ELSE "muxBind"
<1>4. sess' = [sess EXCEPT ![s].pc = p, ![s].mux = m]
  BY DEF Acquire
<1>5. \A i \in Ids : m[i] \in {NoOne, sess[s].mux[i]}
  BY <1>0 DEF Tasks
<1>6. p = IF sess[s].pc = "permit" THEN "connect" ELSE "muxBind"
  OBVIOUS
<1> HIDE DEF m, p
<1> QED
  BY <1>0, <1>3, <1>4, <1>5, <1>6 DEF Tasks

\* What a new association does to its session.
LEMMA BindSession ==
  ASSUME Typed, Places, SlotLeft, NEW s \in Sessions, MuxBind(s)
  PROVE  \E a \in Assocs :
           /\ assoc[a] = Unused
           /\ assoc' = [assoc EXCEPT ![a] = [owner |-> s, id |-> sess[s].cur.id, inbox |-> 0]]
           /\ DOMAIN sess' = Sessions
           /\ \A t \in Sessions \ {s} : sess'[t] = sess[t]
           /\ sess'[s].pc \in {"muxSend", "mux"}
           /\ sess'[s].req = sess[s].req /\ sess'[s].gone = sess[s].gone
           /\ sess'[s].part = sess[s].part /\ sess'[s].place = sess[s].place /\ sess'[s].torn = sess[s].torn
           /\ \A i \in Ids : sess'[s].mux[i] \in {a, sess[s].mux[i]}
           /\ sess'[s].cur.a = IF sess'[s].pc = "muxSend" THEN a ELSE NoOne
<1>0. Tasks
  BY DEF Typed
<1>1. PICK a \in Assocs :
           /\ assoc[a] = Unused
           /\ assoc' = [assoc EXCEPT ![a] = [owner |-> s, id |-> sess[s].cur.id, inbox |-> 0]]
           /\ sess' = [sess EXCEPT ![s].mux = [sess[s].mux EXCEPT ![sess[s].cur.id] = a],
                                   ![s].pc = IF sess[s].cur.data THEN "muxSend" ELSE "mux",
                                   ![s].cur = IF sess[s].cur.data THEN [sess[s].cur EXCEPT !.a = a] ELSE NoCur]
  BY BindSlot
<1> DEFINE m == [sess[s].mux EXCEPT ![sess[s].cur.id] = a]
           p == IF sess[s].cur.data THEN "muxSend" ELSE "mux"
           c == IF sess[s].cur.data THEN [sess[s].cur EXCEPT !.a = a] ELSE NoCur
<1>2. sess' = [sess EXCEPT ![s].mux = m, ![s].pc = p, ![s].cur = c]
  BY <1>1
<1>3. \A i \in Ids : m[i] \in {a, sess[s].mux[i]}
  BY <1>0 DEF Tasks
<1>4. p \in {"muxSend", "mux"} /\ c.a = IF p = "muxSend" THEN a ELSE NoOne
  BY <1>0 DEF Tasks, NoCur
<1> HIDE DEF m, p, c
<1>5. /\ DOMAIN sess' = Sessions
      /\ \A t \in Sessions \ {s} : sess'[t] = sess[t]
      /\ sess'[s].pc = p /\ sess'[s].mux = m /\ sess'[s].cur = c
      /\ sess'[s].req = sess[s].req /\ sess'[s].gone = sess[s].gone
      /\ sess'[s].part = sess[s].part /\ sess'[s].place = sess[s].place /\ sess'[s].torn = sess[s].torn
  BY <1>0, <1>2 DEF Tasks
<1> QED
  BY <1>1, <1>3, <1>4, <1>5, ZenonT(60)

\* What the end of an association does to its session.
LEMMA EndAssocSession ==
  ASSUME Typed, Owned, NEW a \in Assocs, EndAssoc(a), assoc[a] # Unused
  PROVE  /\ assoc[a].owner \in Sessions
         /\ DOMAIN sess' = Sessions
         /\ \A t \in Sessions \ {assoc[a].owner} : sess'[t] = sess[t]
         /\ \A t \in Sessions :
              /\ sess'[t].pc = sess[t].pc /\ sess'[t].req = sess[t].req /\ sess'[t].gone = sess[t].gone
              /\ sess'[t].part = sess[t].part /\ sess'[t].place = sess[t].place /\ sess'[t].torn = sess[t].torn
              /\ sess'[t].hs = sess[t].hs /\ sess'[t].cur.id = sess[t].cur.id
         /\ \A i \in Ids : sess'[assoc[a].owner].mux[i] =
              IF sess[assoc[a].owner].mux[i] = a THEN Closed ELSE sess[assoc[a].owner].mux[i]
         /\ sess'[assoc[a].owner].cur.a =
              IF sess[assoc[a].owner].cur.a = a THEN Closed ELSE sess[assoc[a].owner].cur.a
<1>0. Tasks
  BY DEF Typed
<1>1. assoc[a].owner \in Sessions
  BY OwnerType DEF Agents
<1> DEFINE s == assoc[a].owner
           m == [i \in Ids |-> IF sess[s].mux[i] = a THEN Closed ELSE sess[s].mux[i]]
           c == IF sess[s].cur.a = a THEN [sess[s].cur EXCEPT !.a = Closed] ELSE sess[s].cur
<1>2. sess' = [sess EXCEPT ![s].mux = m, ![s].cur = c]
  BY DEF EndAssoc
<1>3. \A i \in Ids : m[i] = IF sess[s].mux[i] = a THEN Closed ELSE sess[s].mux[i]
  OBVIOUS
<1>4. c.a = (IF sess[s].cur.a = a THEN Closed ELSE sess[s].cur.a) /\ c.id = sess[s].cur.id
  BY <1>0, <1>1 DEF Tasks
<1>5. s = assoc[a].owner
  OBVIOUS
<1> HIDE DEF s, m, c
<1>6. /\ DOMAIN sess' = Sessions
      /\ \A t \in Sessions \ {s} : sess'[t] = sess[t]
      /\ sess'[s].mux = m /\ sess'[s].cur = c
      /\ sess'[s].pc = sess[s].pc /\ sess'[s].req = sess[s].req /\ sess'[s].gone = sess[s].gone
      /\ sess'[s].part = sess[s].part /\ sess'[s].place = sess[s].place /\ sess'[s].torn = sess[s].torn
      /\ sess'[s].hs = sess[s].hs
  BY <1>0, <1>1, <1>2, <1>5 DEF Tasks
<1> QED
  BY <1>1, <1>3, <1>4, <1>5, <1>6, ZenonT(60)


\* What sending a chunk does to the sender.
LEMMA PushSender ==
  ASSUME Typed, Places, NEW x \in Agents, Push(x)
  PROVE  /\ DOMAIN send' = Agents /\ \A y \in Agents \ {x} : send'[y] = send[y]
         /\ send[x].left > 1 => send'[x] = [left |-> send[x].left - 1, rec |-> chan[Owner(x)].cipher]
         /\ send[x].left <= 1 => send'[x] = NoSend
         /\ \/ UNCHANGED <<sess, waiting>> /\ ~(x \in Sessions /\ sess[x].pc = "response")
            \/ /\ x \in Sessions /\ sess[x].pc = "response" /\ send[x].left = 1
               /\ \/ Idled(x) /\ UNCHANGED waiting
                  \/ Goto(x, "mux") /\ UNCHANGED waiting
                  \/ /\ Goto(x, "permit") /\ waiting' = Append(waiting, x)
                     /\ Command(sess[x].req.command) \in {"tcp", "udp"}
<1>1. send \in [Agents -> Message]
  BY DEF Typed
<1>2. send' = [send EXCEPT ![x] = IF ~(send[x].left > 1) THEN NoSend
                                  ELSE [left |-> send[x].left - 1, rec |-> chan[Owner(x)].cipher]]
  BY DEF Push
<1>3. send[x].left \in 0 .. 2
  BY <1>1 DEF Message
<1>4. /\ DOMAIN send' = Agents /\ \A y \in Agents \ {x} : send'[y] = send[y]
      /\ send[x].left > 1 => send'[x] = [left |-> send[x].left - 1, rec |-> chan[Owner(x)].cipher]
      /\ send[x].left <= 1 => send'[x] = NoSend
  BY <1>1, <1>2, <1>3
<1>5. CASE ~(x \in Sessions /\ sess[x].pc = "response")
  BY <1>4, <1>5 DEF Push
<1>6. CASE x \in Sessions /\ sess[x].pc = "response"
  <2>1. AfterResponse(x) = "permit" => Command(sess[x].req.command) \in {"tcp", "udp"}
    BY DEF AfterResponse
  <2>2. send[x].left = 1
    BY <1>6 DEF Places
  <2>3. CASE AfterResponse(x) = "idle"
    BY <1>4, <1>6, <2>2, <2>3 DEF Push, Idled
  <2>4. CASE AfterResponse(x) \in {"mux", "permit"}
    BY <1>4, <1>6, <2>1, <2>2, <2>4 DEF Push
  <2> QED
    BY <2>3, <2>4, AfterResponseType
<1> QED
  BY <1>5, <1>6

LEMMA PlacesStep ==
  ASSUME Typed, Places, Owned, Queued, SlotLeft, Running
  PROVE  Places'
<1>0. Tasks /\ send \in [Agents -> Message] /\ \A s \in Sessions : s \in Agents
  BY DEF Typed, Agents
<1>t. \A x \in Agents : send[x].left \in 0 .. 2
  BY <1>0 DEF Message
<1> USE DEF Places, Sending
<1>1. CASE UNCHANGED <<sess, send>>
  BY <1>1
<1>2. ASSUME NEW s \in Sessions, Start(s) PROVE Places'
  BY <1>0, <1>2 DEF Tasks, Start, Idle
<1>3. ASSUME NEW s \in Sessions, Ends(s) PROVE Places'
  BY <1>0, <1>3 DEF Tasks, Ends, End, Idle, NoSend
<1>4. ASSUME NEW s \in Sessions, Moves(s) PROVE Places'
  BY <1>0, <1>4 DEF Tasks, Moves, Goto, Route
<1>5. ASSUME NEW s \in Sessions, HsReply(s) PROVE Places'
  BY <1>0, <1>5 DEF Tasks, HsReply, Replying
<1>6. ASSUME NEW s \in Sessions, NEW t, NEW k, HsTicket(s, t, k) PROVE Places'
  BY <1>0, <1>6 DEF Tasks, HsTicket
<1>7. ASSUME NEW s \in Sessions, HsLookup(s) PROVE Places'
  <2>1. UNCHANGED send /\ (Idled(s) \/ Goto(s, "random") \/ Goto(s, "decoy")) /\ sess[s].pc = "lookup"
    BY <1>7 DEF HsLookup, Idled, Goto
  <2> QED
    BY <1>0, <2>1 DEF Tasks, Idled, Goto, Idle
<1>8. ASSUME NEW s \in Sessions, Admits(s) PROVE Places'
  BY <1>0, <1>t, <1>8 DEF Tasks, Admits, Message
<1>9. ASSUME NEW s \in Sessions, Acquire(s) PROVE Places'
  <2> HIDE DEF Places, Sending
  <2>1. /\ sess[s].pc \in {"permit", "muxPermit"}
        /\ \A t \in Sessions \ {s} : sess'[t] = sess[t]
        /\ sess'[s].pc = IF sess[s].pc = "permit" THEN "connect" ELSE "muxBind"
        /\ sess'[s].req = sess[s].req /\ sess'[s].cur = sess[s].cur
        /\ UNCHANGED send
    BY <1>9, AcquireSession DEF Acquire
  <2> QED
    BY <2>1 DEF Places, Sending
<1>10. ASSUME NEW s \in Sessions, Connect(s) PROVE Places'
  <2>1. /\ sess' = [sess EXCEPT ![s].pc = Command(sess[s].req.command)] /\ UNCHANGED send
        /\ Command(sess[s].req.command) \in {"tcp", "udp"} /\ sess[s].pc = "connect"
    BY <1>10 DEF Connect, Goto
  <2> QED
    BY <1>0, <2>1 DEF Tasks
<1>11. ASSUME NEW s \in Sessions, UdpRead(s) PROVE Places'
  BY <1>0, <1>11 DEF Tasks, UdpRead
<1>12. ASSUME NEW s \in Sessions, NEW k \in Chunks, UdpRecv(s, k) PROVE Places'
  BY <1>0, <1>t, <1>12 DEF Tasks, UdpRecv
<1>13. ASSUME NEW s \in Sessions, FrameRead(s) PROVE Places'
  BY <1>0, <1>13 DEF Tasks, FrameRead
<1>14. ASSUME NEW s \in Sessions, MuxBind(s) PROVE Places'
  <2>1. NoOne \notin Assocs /\ UNCHANGED send /\ sess[s].pc = "muxBind"
    BY <1>14, Constants DEF Agents, MuxBind
  <2> QED
    BY <1>0, <1>14, <2>1, BindSession
<1>15. ASSUME NEW s \in Sessions, Delivers(s) PROVE Places'
  BY <1>0, <1>15 DEF Tasks, Delivers
<1>16. ASSUME NEW s \in Sessions, ClientGone(s) \/ Drain(s) PROVE Places'
  BY <1>0, <1>16 DEF Tasks, ClientGone, Drain
<1>17. ASSUME NEW a \in Assocs, EndAssoc(a), assoc[a] # Unused PROVE Places'
  <2>1. \A s \in Sessions : send'[s] = send[s]
    BY <1>0, <1>17, Constants DEF EndAssoc
  <2>2. NoOne # Closed
    BY Constants
  <2> QED
    BY <1>17, <2>1, <2>2, EndAssocSession
<1>18. ASSUME NEW x \in Agents, LockAndSeal(x) PROVE Places'
  BY <1>0, <1>18 DEF LockAndSeal, Message
<1>19. ASSUME NEW x \in Agents, Push(x) PROVE Places'
  <2> HIDE DEF Places, Sending
  <2>1. /\ \A s \in Sessions \ {x} : send'[s] = send[s]
        /\ send'[x].left >= 0 /\ (send'[x].left > 0 => send[x].left > 0 /\ send[x].left # 1)
    <3>1. /\ \A y \in Agents \ {x} : send'[y] = send[y]
          /\ send[x].left > 1 => send'[x] = [left |-> send[x].left - 1, rec |-> chan[Owner(x)].cipher]
          /\ send[x].left <= 1 => send'[x] = NoSend
      BY <1>19, PushSender
    <3> QED
      BY <1>0, <1>t, <3>1 DEF NoSend
  <2>2. \/ UNCHANGED sess /\ ~(x \in Sessions /\ sess[x].pc = "response")
        \/ /\ x \in Sessions /\ sess[x].pc = "response" /\ send[x].left = 1
           /\ Idled(x) \/ Goto(x, "mux") \/ (Goto(x, "permit") /\ Command(sess[x].req.command) \in {"tcp", "udp"})
    BY <1>19, PushSender
  <2>3. CASE UNCHANGED sess /\ ~(x \in Sessions /\ sess[x].pc = "response")
    BY <2>1, <2>3 DEF Places, Sending
  <2>4. CASE x \in Sessions /\ send[x].left = 1 /\ Idled(x)
    BY <1>0, <2>1, <2>4 DEF Places, Sending, Tasks, Idled, Idle
  <2>5. CASE x \in Sessions /\ send[x].left = 1 /\ Goto(x, "mux")
    BY <1>0, <2>1, <2>5 DEF Places, Sending, Tasks, Goto
  <2>6. CASE x \in Sessions /\ send[x].left = 1 /\ Goto(x, "permit") /\ Command(sess[x].req.command) \in {"tcp", "udp"}
    BY <1>0, <2>1, <2>6 DEF Places, Sending, Tasks, Goto
  <2> QED
    BY <2>2, <2>3, <2>4, <2>5, <2>6
<1>20. ASSUME NEW x \in Agents, Gets(x) PROVE Places'
  BY <1>0, <1>t, <1>20, Constants DEF Gets, Message, Chunks
<1>21. ASSUME NEW a \in Assocs, AssocMessage(a) PROVE UNCHANGED <<sess, send>>
  BY <1>21 DEF AssocMessage
<1>22. CASE UNCHANGED tasks
  BY <1>1, <1>22 DEF tasks
<1> HIDE DEF Places, Sending
<1> QED
  BY <1>1, <1>2, <1>3, <1>4, <1>5, <1>6, <1>7, <1>8, <1>9, <1>10, <1>11, <1>12, <1>13, <1>14, <1>15, <1>16,
     <1>17, <1>18, <1>19, <1>20, <1>21, <1>22, Kinds


LEMMA OwnedStep ==
  ASSUME Typed, Places, Owned, Queued, SlotLeft, Running
  PROVE  Owned'
<1>0. /\ Tasks /\ send \in [Agents -> Message] /\ assoc \in [Assocs -> Association]
      /\ \A s \in Sessions : s \in Agents /\ s \notin Assocs
      /\ \A a \in Assocs : a \in Agents /\ a \notin {NoOne, Closed} /\ a \notin Sessions
  BY Constants DEF Typed, Agents
<1>u. \A a \in Assocs : assoc[a] # Unused => assoc[a].owner # NoOne
  BY DEF Owned
<1>o. \A a \in Assocs : assoc[a].owner \in Sessions \cup {NoOne}
  BY <1>0 DEF Association
<1>1. CASE UNCHANGED <<sess, send, assoc>>
  BY <1>1 DEF Owned
<1>2. ASSUME NEW s \in Sessions, Start(s) PROVE Owned'
  BY <1>0, <1>2 DEF Owned, Tasks, Start, Of, Idle, NoMux, NoCur
<1>3. ASSUME NEW s \in Sessions, Idled(s), UNCHANGED assoc, \A a \in Assocs : send'[a] = send[a] PROVE Owned'
  BY <1>0, <1>3 DEF Owned, Tasks, Idled, Idle, NoMux, NoCur
<1>4. ASSUME NEW s \in Sessions, NEW p, sess[s].pc \notin Muxing \cup {"idle"},
             \A t \in Sessions \ {s} : sess'[t] = sess[t], sess'[s].mux = sess[s].mux, sess'[s].cur = sess[s].cur,
             UNCHANGED assoc, \A a \in Assocs : send'[a] = send[a]
      PROVE  Owned'
  BY <1>0, <1>o, <1>4 DEF Owned
<1>5. ASSUME NEW s \in Sessions, Ends(s) PROVE Owned'
  BY <1>0, <1>3, <1>5 DEF Ends, End, Idled
<1>6. ASSUME NEW s \in Sessions, Moves(s) \/ HsReply(s) \/ (\E t \in issued, k \in NfsKeys : HsTicket(s, t, k)) \/ Admits(s)
      PROVE  Owned'
  BY <1>0, <1>4, <1>6 DEF Tasks, Moves, Route, Goto, HsReply, Replying, HsTicket, Admits, Muxing
<1>7. ASSUME NEW s \in Sessions, Connect(s) \/ UdpRead(s) \/ (\E k \in Chunks : UdpRecv(s, k)) PROVE Owned'
  BY <1>0, <1>4, <1>7 DEF Tasks, Connect, Goto, UdpRead, UdpRecv, Muxing
<1>8. ASSUME NEW s \in Sessions, HsLookup(s) PROVE Owned'
  <2>1. UNCHANGED <<send, assoc>> /\ (Idled(s) \/ Goto(s, "random") \/ Goto(s, "decoy")) /\ sess[s].pc = "lookup"
    BY <1>8 DEF HsLookup, Idled, Goto
  <2>2. CASE Goto(s, "random") \/ Goto(s, "decoy")
    BY <1>0, <1>4, <2>1, <2>2 DEF Tasks, Goto, Muxing
  <2> QED
    BY <1>3, <2>1, <2>2
<1>9. ASSUME NEW s \in Sessions, Acquire(s) PROVE Owned'
  <2>1. /\ sess[s].pc \in {"permit", "muxPermit"}
        /\ \A t \in Sessions \ {s} : sess'[t] = sess[t]
        /\ sess'[s].pc = IF sess[s].pc = "permit" THEN "connect" ELSE "muxBind"
        /\ sess'[s].cur = sess[s].cur
        /\ \A i \in Ids : sess'[s].mux[i] \in {NoOne, sess[s].mux[i]}
        /\ UNCHANGED <<send, assoc>>
    BY <1>9, AcquireSession DEF Acquire
  <2> QED
    BY <1>0, <1>o, <2>1 DEF Owned, Muxing
<1>10. ASSUME NEW s \in Sessions, FrameRead(s) PROVE Owned'
  <2>1. /\ UNCHANGED <<send, assoc>> /\ \A t \in Sessions \ {s} : sess'[t] = sess[t]
        /\ sess[s].pc = "mux" /\ sess'[s].pc \in Muxing
        /\ \A i \in Ids : sess'[s].mux[i] \in {NoOne, sess[s].mux[i]}
        /\ \/ sess'[s].cur.a \in {NoOne, sess[s].cur.a}
           \/ \E i \in Ids : sess'[s].cur.a = sess[s].mux[i]
    BY <1>0, <1>10 DEF Tasks, FrameRead, Muxing
  <2> QED
    BY <1>0, <1>o, <2>1 DEF Owned
<1>11. ASSUME NEW s \in Sessions, MuxBind(s) PROVE Owned'
  <2>1. PICK a \in Assocs :
           /\ assoc[a] = Unused
           /\ assoc' = [assoc EXCEPT ![a] = [owner |-> s, id |-> sess[s].cur.id, inbox |-> 0]]
           /\ \A t \in Sessions \ {s} : sess'[t] = sess[t]
           /\ sess'[s].pc \in {"muxSend", "mux"}
           /\ \A i \in Ids : sess'[s].mux[i] \in {a, sess[s].mux[i]}
           /\ sess'[s].cur.a = IF sess'[s].pc = "muxSend" THEN a ELSE NoOne
    BY <1>11, BindSession
  <2>2. assoc'[a].owner = s /\ assoc[a].owner = NoOne /\ s # NoOne /\ \A b \in Assocs \ {a} : assoc'[b] = assoc[b]
    BY <1>0, <2>1, Constants DEF Unused, Agents
  <2>3. UNCHANGED send
    BY <1>11 DEF MuxBind
  <2>4. \A t \in Sessions : sess[t].cur.a # a /\ \A i \in Ids : sess[t].mux[i] # a
    BY <2>2, Constants DEF Owned, Agents
  <2> QED
    <3>1. \A b \in Assocs :
            /\ assoc'[b].owner = NoOne => assoc'[b] = Unused /\ send'[b] = NoSend
            /\ assoc'[b].owner # NoOne => sess'[assoc'[b].owner].pc \in Muxing \cup {"idle"}
      BY <1>o, <2>1, <2>2, <2>3 DEF Owned, Muxing
    <3>2. \A t \in Sessions : \A i \in Ids : sess'[t].mux[i] \in Assocs => assoc'[sess'[t].mux[i]].owner = t
      BY <2>1, <2>2, <2>4 DEF Owned
    <3>3. \A t \in Sessions : sess'[t].cur.a \in Assocs => assoc'[sess'[t].cur.a].owner = t
      <4>1. \A t \in Sessions \ {s} : sess'[t].cur.a \in Assocs => assoc'[sess'[t].cur.a].owner = t
        BY <2>1, <2>2, <2>4 DEF Owned
      <4>2. sess'[s].cur.a \in {a, NoOne}
        BY <2>1
      <4> QED
        BY <1>0, <2>2, <4>1, <4>2
    <3> QED
      BY <3>1, <3>2, <3>3 DEF Owned, Muxing, Unused, NoSend, NoRecord
<1>12. ASSUME NEW s \in Sessions, Delivers(s) PROVE Owned'
  <2>1. /\ sess' = [sess EXCEPT ![s].pc = "mux", ![s].cur = NoCur] /\ UNCHANGED send
        /\ \A b \in Assocs : assoc'[b].owner = assoc[b].owner
        /\ \A b \in Assocs \ {sess[s].cur.a} : assoc'[b] = assoc[b]
        /\ sess[s].cur.a \in Assocs
    BY <1>0, <1>12 DEF Delivers, Association
  <2>2. assoc[sess[s].cur.a].owner = s /\ s # NoOne
    BY <2>1, Constants DEF Owned, Agents
  <2> QED
    BY <1>0, <2>1, <2>2 DEF Owned, Tasks, NoCur, Muxing
<1>13. ASSUME NEW s \in Sessions, ClientGone(s) \/ Drain(s) PROVE Owned'
  <2>1. /\ UNCHANGED <<send, assoc>>
        /\ \A t \in Sessions : sess'[t].pc = sess[t].pc /\ sess'[t].mux = sess[t].mux /\ sess'[t].cur = sess[t].cur
    BY <1>0, <1>13 DEF Tasks, ClientGone, Drain
  <2> QED
    BY <1>o, <2>1 DEF Owned
<1>14. ASSUME NEW a \in Assocs, AssocMessage(a) PROVE Owned'
  <2>1. /\ \A b \in Assocs : assoc'[b].owner = assoc[b].owner
        /\ \A b \in Assocs \ {a} : assoc'[b] = assoc[b]
        /\ assoc[a] # Unused /\ UNCHANGED <<sess, send>>
    BY <1>0, <1>14 DEF AssocMessage, Association, Unused
  <2> QED
    BY <1>u, <2>1 DEF Owned
<1>15. ASSUME NEW a \in Assocs, EndAssoc(a), assoc[a] # Unused PROVE Owned'
  <2>1. /\ assoc'[a] = Unused /\ send'[a] = NoSend
        /\ \A b \in Assocs \ {a} : assoc'[b] = assoc[b] /\ send'[b] = send[b]
    BY <1>0, <1>15 DEF EndAssoc
  <2>2. /\ assoc[a].owner \in Sessions
        /\ \A t \in Sessions \ {assoc[a].owner} : sess'[t] = sess[t]
        /\ \A t \in Sessions : sess'[t].pc = sess[t].pc
        /\ \A i \in Ids : sess'[assoc[a].owner].mux[i] =
             IF sess[assoc[a].owner].mux[i] = a THEN Closed ELSE sess[assoc[a].owner].mux[i]
        /\ sess'[assoc[a].owner].cur.a =
             IF sess[assoc[a].owner].cur.a = a THEN Closed ELSE sess[assoc[a].owner].cur.a
    BY <1>15, EndAssocSession
  <2>3. Closed \notin Assocs /\ Unused.owner = NoOne
    BY Constants DEF Agents, Unused
  <2> QED
    BY <1>0, <1>o, <2>1, <2>2, <2>3 DEF Owned
<1>16. ASSUME NEW x \in Agents, \A y \in Agents \ {x} : send'[y] = send[y], UNCHANGED <<sess, assoc>>,
              x \in Assocs => assoc[x].owner # NoOne
       PROVE  Owned'
  BY <1>0, <1>16 DEF Owned
<1>17. ASSUME NEW x \in Agents, Sending(x), x \in Assocs PROVE assoc[x].owner # NoOne
  BY <1>17 DEF Sending, Owned, NoSend
<1>18. ASSUME NEW x \in Agents, LockAndSeal(x) PROVE Owned'
  BY <1>0, <1>16, <1>17, <1>18 DEF LockAndSeal
<1>19. ASSUME NEW x \in Agents, Gets(x) PROVE Owned'
  BY <1>0, <1>u, <1>16, <1>19 DEF Gets
<1>20. ASSUME NEW x \in Agents, Push(x) PROVE Owned'
  <2>1. /\ \A y \in Agents \ {x} : send'[y] = send[y]
        /\ \/ UNCHANGED sess
           \/ /\ x \in Sessions /\ sess[x].pc = "response"
              /\ Idled(x) \/ Goto(x, "mux") \/ Goto(x, "permit")
    BY <1>20, PushSender
  <2>2. UNCHANGED assoc /\ Sending(x)
    BY <1>20 DEF Push, Ready
  <2>3. CASE UNCHANGED sess
    BY <1>16, <1>17, <2>1, <2>2, <2>3
  <2>4. CASE x \in Sessions /\ Idled(x)
    BY <1>0, <1>3, <2>1, <2>2, <2>4
  <2>5. CASE x \in Sessions /\ sess[x].pc = "response" /\ (Goto(x, "mux") \/ Goto(x, "permit"))
    BY <1>0, <1>4, <2>1, <2>2, <2>5 DEF Tasks, Goto, Muxing
  <2> QED
    BY <2>1, <2>3, <2>4, <2>5
<1>21. CASE UNCHANGED tasks
  BY <1>1, <1>21 DEF tasks
<1> QED
  BY <1>2, <1>5, <1>6, <1>7, <1>8, <1>9, <1>10, <1>11, <1>12, <1>13, <1>14, <1>15, <1>18, <1>19, <1>20, <1>21, Kinds

LEMMA QueuedStep ==
  ASSUME Typed, Places, Owned, Queued, SlotLeft, Running
  PROVE  Queued'
<1> DEFINE Waits == {"permit", "muxPermit"}
<1>0. Tasks /\ waiting \in Seq(Sessions)
  BY DEF Typed, Semaphore
<1>1. ASSUME UNCHANGED waiting, \A t \in Sessions : sess[t].pc \in Waits => sess'[t].pc = sess[t].pc PROVE Queued'
  BY <1>0, <1>1 DEF Queued
<1>2. ASSUME NEW s \in Sessions, sess[s].pc \notin Waits, waiting' = Append(waiting, s),
             \A t \in Sessions \ {s} : sess'[t].pc = sess[t].pc, sess'[s].pc \in Waits
      PROVE  Queued'
  <2>1. \A i \in 1 .. Len(waiting) : waiting[i] \in Sessions /\ sess[waiting[i]].pc \in Waits /\ waiting[i] # s
    BY <1>0, <1>2 DEF Queued
  <2>2. Len(waiting') = Len(waiting) + 1 /\ \A i \in 1 .. Len(waiting) + 1 : waiting'[i] = IF i <= Len(waiting) THEN waiting[i] ELSE s
    BY <1>0, <1>2
  <2>3. Len(waiting) \in Nat
    BY <1>0
  <2> QED
    BY <1>2, <2>1, <2>2, <2>3 DEF Queued
<1>3. ASSUME NEW s \in Sessions, Acquire(s) PROVE Queued'
  <2>1. \A t \in Sessions \ {s} : sess'[t] = sess[t]
    BY <1>3, AcquireSession
  <2>2. waiting # <<>> /\ Head(waiting) = s /\ waiting' = Tail(waiting)
    BY <1>3 DEF Acquire
  <2>3. /\ Len(waiting) \in Nat /\ Len(waiting) > 0 /\ Len(waiting') = Len(waiting) - 1
        /\ waiting[1] = s /\ \A i \in 1 .. Len(waiting) - 1 : waiting'[i] = waiting[i + 1]
    BY <1>0, <2>2
  <2>4. \A i \in 1 .. Len(waiting) : waiting[i] \in Sessions
    BY <1>0
  <2>5. \A i \in 1 .. Len(waiting) : i # 1 => waiting[i] # s
    BY <2>3 DEF Queued
  <2>6. \A i \in 1 .. Len(waiting') : i + 1 \in 1 .. Len(waiting) /\ i + 1 # 1 /\ waiting'[i] = waiting[i + 1]
    BY <2>3
  <2>7. \A i \in 1 .. Len(waiting') : sess'[waiting'[i]].pc \in {"permit", "muxPermit"}
    BY <2>1, <2>4, <2>5, <2>6 DEF Queued
  <2>8. \A i, j \in 1 .. Len(waiting') : waiting'[i] = waiting'[j] => i = j
    BY <2>6 DEF Queued
  <2> QED
    BY <2>7, <2>8 DEF Queued
<1>4. ASSUME NEW s \in Sessions, Idled(s), sess[s].pc \notin Waits, UNCHANGED waiting PROVE Queued'
  BY <1>0, <1>1, <1>4 DEF Idled, Tasks
<1>5. ASSUME NEW s \in Sessions, Start(s) \/ Ends(s) \/ Moves(s) \/ HsReply(s) PROVE Queued'
  BY <1>0, <1>1, <1>5 DEF Tasks, Start, Ends, End, Moves, Route, Goto, HsReply, Replying, targets
<1>6. ASSUME NEW s \in Sessions,
             (\E t \in issued, k \in NfsKeys : HsTicket(s, t, k)) \/ Admits(s) \/ Connect(s) \/ UdpRead(s)
             \/ (\E k \in Chunks : UdpRecv(s, k)) \/ Delivers(s) \/ ClientGone(s) \/ Drain(s)
      PROVE  Queued'
  BY <1>0, <1>1, <1>6 DEF Tasks, HsTicket, Admits, Connect, Goto, UdpRead, UdpRecv, Delivers, ClientGone, Drain, targets
<1>7. ASSUME NEW s \in Sessions, HsLookup(s) PROVE Queued'
  <2>1. UNCHANGED waiting /\ (Idled(s) \/ Goto(s, "random") \/ Goto(s, "decoy")) /\ sess[s].pc = "lookup"
    BY <1>7 DEF HsLookup, Idled, Goto, targets
  <2> QED
    BY <1>0, <1>1, <1>4, <2>1 DEF Tasks, Goto
<1>8. ASSUME NEW s \in Sessions, FrameRead(s) PROVE Queued'
  BY <1>0, <1>1, <1>2, <1>8 DEF Tasks, FrameRead
<1>9. ASSUME NEW s \in Sessions, MuxBind(s) PROVE Queued'
  <2>1. \A t \in Sessions \ {s} : sess'[t] = sess[t]
    BY <1>9, BindSession
  <2> QED
    BY <1>1, <1>9, <2>1 DEF MuxBind
<1>10. ASSUME NEW a \in Assocs, EndAssoc(a), assoc[a] # Unused PROVE Queued'
  <2>1. \A t \in Sessions : sess'[t].pc = sess[t].pc
    BY <1>10, EndAssocSession
  <2> QED
    BY <1>1, <1>10, <2>1 DEF EndAssoc
<1>11. ASSUME NEW x \in Agents, Push(x) PROVE Queued'
  <2>1. \/ UNCHANGED <<sess, waiting>>
        \/ /\ x \in Sessions /\ sess[x].pc = "response"
           /\ \/ Idled(x) /\ UNCHANGED waiting
              \/ Goto(x, "mux") /\ UNCHANGED waiting
              \/ Goto(x, "permit") /\ waiting' = Append(waiting, x)
    BY <1>11, PushSender
  <2>2. CASE x \in Sessions /\ sess[x].pc = "response" /\ Goto(x, "mux") /\ UNCHANGED waiting
    BY <1>0, <1>1, <2>2 DEF Tasks, Goto
  <2>3. CASE x \in Sessions /\ sess[x].pc = "response" /\ Goto(x, "permit") /\ waiting' = Append(waiting, x)
    BY <1>0, <1>2, <2>3 DEF Tasks, Goto
  <2> QED
    BY <1>1, <1>4, <2>1, <2>2, <2>3
<1>12. ASSUME NEW x \in Agents, LockAndSeal(x) \/ Gets(x) PROVE Queued'
  BY <1>1, <1>12 DEF LockAndSeal, Gets, targets
<1>13. ASSUME NEW a \in Assocs, AssocMessage(a) PROVE Queued'
  BY <1>1, <1>13 DEF AssocMessage, targets
<1>14. CASE UNCHANGED tasks
  BY <1>1, <1>14 DEF tasks
<1> QED
  BY <1>3, <1>5, <1>6, <1>7, <1>8, <1>9, <1>10, <1>11, <1>12, <1>13, <1>14, Kinds


-------------------------------------------------------------------------------
(* Permits.                                                                  *)

\* The sessions that hold a permit, those that have a target, the associations.
Holders == {s \in Sessions : Holds(s)}
Connected == {s \in Sessions : Active(s)}
Live == {a \in Assocs : assoc[a] # Unused}

One(p) == IF p THEN 1 ELSE 0

\* Two subsets of a finite set that differ in one element at most.
LEMMA DifferInOne ==
  ASSUME NEW S, IsFiniteSet(S), NEW A \in SUBSET S, NEW B \in SUBSET S, NEW x, A \ {x} = B \ {x}
  PROVE  /\ Cardinality(A) \in Nat /\ Cardinality(B) \in Nat
         /\ Cardinality(B) = Cardinality(A) + One(x \in B) - One(x \in A)
<1>1. IsFiniteSet(A) /\ IsFiniteSet(B)
  BY FS_Subset
<1>2. Cardinality(A) \in Nat /\ Cardinality(B) \in Nat
  BY <1>1, FS_CardinalityType
<1>3. /\ Cardinality(A \ {x}) = IF x \in A THEN Cardinality(A) - 1 ELSE Cardinality(A)
      /\ Cardinality(B \ {x}) = IF x \in B THEN Cardinality(B) - 1 ELSE Cardinality(B)
  BY <1>1, FS_RemoveElement
<1>4. Cardinality(A \ {x}) = Cardinality(B \ {x})
  BY Zenon
<1>5. (IF x \in A THEN Cardinality(A) - 1 ELSE Cardinality(A)) = (IF x \in B THEN Cardinality(B) - 1 ELSE Cardinality(B))
  BY <1>3, <1>4, Zenon
<1> QED
  BY <1>2, <1>5 DEF One

LEMMA Counts ==
  ASSUME Typed
  PROVE  /\ Cardinality(Holders) \in Nat /\ Cardinality(Connected) \in Nat /\ Cardinality(Live) \in Nat
         /\ PermitsExact <=> /\ permits + Cardinality(Holders) + Cardinality(Live) = conf.targets
                             /\ gauge = Cardinality(Connected) + Cardinality(Live)
<1>1. Holders \in SUBSET Sessions /\ Connected \in SUBSET Sessions /\ Live \in SUBSET Assocs
  BY DEF Holders, Connected, Live
<1>2. IsFiniteSet(Holders) /\ IsFiniteSet(Connected) /\ IsFiniteSet(Live)
  BY <1>1, Constants, FS_Subset
<1> QED
  BY <1>2, FS_CardinalityType DEF PermitsExact, Holders, Connected, Live, MaxTargets

\* A session that has a permit and no association yet finds a slot for it.
LEMMA SlotFound ==
  ASSUME Typed, PermitsExact
  PROVE  SlotLeft
<1>1. SUFFICES ASSUME NEW s \in Sessions, sess[s].pc = "muxBind", Live = Assocs PROVE FALSE
  BY DEF SlotLeft, Live
<1>2. IsFiniteSet(Holders) /\ s \in Holders
  BY <1>1, Constants, FS_Subset DEF Holders, Holds
<1>3. Cardinality(Holders) # 0
  BY <1>2, FS_EmptySet
<1>4. permits + Cardinality(Holders) + Cardinality(Live) = conf.targets /\ Cardinality(Holders) \in Nat
  BY Counts
<1>5. permits \in Nat /\ conf.targets \in 1 .. Cardinality(Assocs) /\ Cardinality(Assocs) \in Nat
  BY Constants, FS_CardinalityType, DispatcherAssumption DEF Typed, Semaphore
<1> QED
  BY <1>1, <1>3, <1>4, <1>5

\* One session's place and one association change, and the counters with them.
LEMMA Recount ==
  ASSUME Typed, Typed', PermitsExact, UNCHANGED conf,
         NEW s, NEW a,
         \A t \in Sessions \ {s} : sess'[t].pc = sess[t].pc,
         \A b \in Assocs \ {a} : assoc'[b] = Unused <=> assoc[b] = Unused,
         permits' = permits + One(s \in Holders) - One(s \in Holders') + One(a \in Live) - One(a \in Live'),
         gauge' = gauge - One(s \in Connected) + One(s \in Connected') - One(a \in Live) + One(a \in Live')
  PROVE  PermitsExact'
<1>1. Holders \ {s} = Holders' \ {s} /\ Connected \ {s} = Connected' \ {s}
  BY DEF Holders, Connected, Holds, Active
<1>2. Live \ {a} = Live' \ {a}
  BY DEF Live, Unused
<1>3. /\ Holders \in SUBSET Sessions /\ Connected \in SUBSET Sessions /\ Live \in SUBSET Assocs
      /\ Holders' \in SUBSET Sessions /\ Connected' \in SUBSET Sessions /\ Live' \in SUBSET Assocs
  BY DEF Holders, Connected, Live
<1> DEFINE h == Cardinality(Holders)  hp == Cardinality(Holders')
           c == Cardinality(Connected)  cp == Cardinality(Connected')
           l == Cardinality(Live)  lp == Cardinality(Live')
           hs == One(s \in Holders)  hsp == One(s \in Holders')
           cs == One(s \in Connected)  csp == One(s \in Connected')
           la == One(a \in Live)  lap == One(a \in Live')
<1>4. h \in Nat /\ hp \in Nat /\ hp = h + hsp - hs
  BY <1>1, <1>3, Constants, DifferInOne
<1>5. c \in Nat /\ cp \in Nat /\ cp = c + csp - cs
  BY <1>1, <1>3, Constants, DifferInOne
<1>6. l \in Nat /\ lp \in Nat /\ lp = l + lap - la
  BY <1>2, <1>3, Constants, DifferInOne
<1>7. hs \in Nat /\ hsp \in Nat /\ cs \in Nat /\ csp \in Nat /\ la \in Nat /\ lap \in Nat
  BY DEF One
<1>8. permits \in Nat /\ gauge \in Int /\ permits + h + l = conf.targets /\ gauge = c + l
  BY Counts DEF Typed, Semaphore
<1>9. permits' = permits + hs - hsp + la - lap /\ gauge' = gauge - cs + csp - la + lap
  OBVIOUS
<1> HIDE DEF h, hp, c, cp, l, lp, hs, hsp, cs, csp, la, lap
<1>10. permits' + hp + lp = conf.targets /\ gauge' = cp + lp
  BY <1>4, <1>5, <1>6, <1>7, <1>8, <1>9
<1>11. permits' + Cardinality(Holders') + Cardinality(Live') = conf'.targets
       /\ gauge' = Cardinality(Connected') + Cardinality(Live')
  BY <1>10 DEF hp, cp, lp
<1> QED
  BY <1>11 DEF PermitsExact, Holders, Connected, Live, MaxTargets


\* The places where a session holds a permit, and those where it has a target.
Holding == {"connect", "muxBind", "tcp", "write", "half", "udp"}
Counted == {"tcp", "write", "half", "udp"}

\* One session's place changes, and no association.
LEMMA RecountSession ==
  ASSUME Typed, Typed', PermitsExact, UNCHANGED conf, NEW s \in Sessions,
         \A t \in Sessions \ {s} : sess'[t].pc = sess[t].pc,
         \A b \in Assocs : assoc'[b] = Unused <=> assoc[b] = Unused,
         permits' = permits + One(sess[s].pc \in Holding) - One(sess'[s].pc \in Holding),
         gauge' = gauge - One(sess[s].pc \in Counted) + One(sess'[s].pc \in Counted)
  PROVE  PermitsExact'
<1>1. NoOne \notin Live /\ NoOne \notin Live'
  BY Constants DEF Live, Agents
<1>2. /\ s \in Holders <=> sess[s].pc \in Holding
      /\ s \in Holders' <=> sess'[s].pc \in Holding
      /\ s \in Connected <=> sess[s].pc \in Counted
      /\ s \in Connected' <=> sess'[s].pc \in Counted
  BY DEF Holders, Connected, Holds, Active, Holding, Counted
<1>3. permits \in Nat /\ gauge \in Int
  BY DEF Typed, Semaphore
<1>4. permits' = permits + One(s \in Holders) - One(s \in Holders') + One(NoOne \in Live) - One(NoOne \in Live')
  BY <1>1, <1>2, <1>3 DEF One
<1>5. gauge' = gauge - One(s \in Connected) + One(s \in Connected') - One(NoOne \in Live) + One(NoOne \in Live')
  BY <1>1, <1>2, <1>3 DEF One
<1> QED
  BY <1>4, <1>5, Recount

LEMMA PermitsStep ==
  ASSUME Typed, Typed', Places, Owned, Queued, PermitsExact, Running
  PROVE  PermitsExact'
<1>0. /\ Tasks /\ assoc \in [Assocs -> Association] /\ permits \in Nat /\ gauge \in Int
      /\ \A s \in Sessions : sess[s].pc \in Pcs
  BY DEF Typed, Semaphore, Tasks
<1>c. UNCHANGED conf
  BY ConfKept DEF Running
<1>s. SlotLeft
  BY SlotFound
<1>1. ASSUME UNCHANGED <<permits, gauge>>, \A t \in Sessions : sess'[t].pc = sess[t].pc,
             \A b \in Assocs : assoc'[b] = Unused <=> assoc[b] = Unused
      PROVE  PermitsExact'
  BY <1>1, <1>c DEF PermitsExact, Holds, Active, MaxTargets, Unused
<1>2. ASSUME NEW s \in Sessions, UNCHANGED <<permits, gauge>>, \A t \in Sessions \ {s} : sess'[t].pc = sess[t].pc,
             \A b \in Assocs : assoc'[b] = Unused <=> assoc[b] = Unused,
             sess[s].pc \in Holding <=> sess'[s].pc \in Holding, sess[s].pc \in Counted <=> sess'[s].pc \in Counted
      PROVE  PermitsExact'
  BY <1>0, <1>2, <1>c, RecountSession DEF One
<1>3. ASSUME NEW s \in Sessions, Start(s) \/ Moves(s) \/ HsReply(s) PROVE PermitsExact'
  BY <1>0, <1>2, <1>3 DEF Tasks, Start, Moves, Route, Goto, HsReply, Replying, Idle, targets, Holding, Counted
<1>4. ASSUME NEW s \in Sessions, Ends(s) PROVE PermitsExact'
  <2>1. /\ \A t \in Sessions \ {s} : sess'[t].pc = sess[t].pc
        /\ sess'[s].pc = "idle" /\ UNCHANGED assoc
    BY <1>0, <1>4 DEF Tasks, Ends, End, Idle
  <2>2. /\ permits' = permits + One(sess[s].pc \in Holding) - One(sess'[s].pc \in Holding)
        /\ gauge' = gauge - One(sess[s].pc \in Counted) + One(sess'[s].pc \in Counted)
    BY <1>0, <1>4, <2>1 DEF Ends, End, Holds, Active, One, Holding, Counted
  <2> QED
    BY <1>c, <2>1, <2>2, RecountSession
<1>5. ASSUME NEW s \in Sessions, (\E t \in issued, k \in NfsKeys : HsTicket(s, t, k)) \/ Admits(s) PROVE PermitsExact'
  BY <1>0, <1>2, <1>5 DEF Tasks, HsTicket, Admits, targets, Holding, Counted
<1>6. ASSUME NEW s \in Sessions, UdpRead(s) \/ (\E k \in Chunks : UdpRecv(s, k)) \/ ClientGone(s) \/ Drain(s)
      PROVE  PermitsExact'
  BY <1>0, <1>1, <1>6 DEF Tasks, UdpRead, UdpRecv, ClientGone, Drain, targets
<1>7. ASSUME NEW s \in Sessions, HsLookup(s) PROVE PermitsExact'
  <2>1. /\ UNCHANGED <<permits, gauge, assoc>> /\ (Idled(s) \/ Goto(s, "random") \/ Goto(s, "decoy"))
        /\ sess[s].pc = "lookup"
    BY <1>7 DEF HsLookup, Idled, Goto, targets
  <2> QED
    BY <1>0, <1>2, <2>1 DEF Tasks, Idled, Goto, Idle, Holding, Counted
<1>8. ASSUME NEW s \in Sessions, Acquire(s) PROVE PermitsExact'
  <2>1. /\ sess[s].pc \in {"permit", "muxPermit"} /\ sess'[s].pc \in {"connect", "muxBind"}
        /\ \A t \in Sessions \ {s} : sess'[t] = sess[t]
    BY <1>8, AcquireSession
  <2>2. permits' = permits - 1 /\ UNCHANGED <<gauge, assoc>>
    BY <1>8 DEF Acquire
  <2>3. /\ permits' = permits + One(sess[s].pc \in Holding) - One(sess'[s].pc \in Holding)
        /\ gauge' = gauge - One(sess[s].pc \in Counted) + One(sess'[s].pc \in Counted)
    BY <1>0, <2>1, <2>2 DEF One, Holding, Counted
  <2> QED
    BY <1>c, <2>1, <2>2, <2>3, RecountSession
<1>9. ASSUME NEW s \in Sessions, Connect(s) PROVE PermitsExact'
  <2>1. /\ sess[s].pc = "connect" /\ sess'[s].pc \in {"tcp", "udp"}
        /\ \A t \in Sessions \ {s} : sess'[t].pc = sess[t].pc
    BY <1>0, <1>9 DEF Tasks, Connect, Goto, Places
  <2>2. gauge' = gauge + 1 /\ UNCHANGED <<permits, assoc>>
    BY <1>9 DEF Connect
  <2>3. /\ permits' = permits + One(sess[s].pc \in Holding) - One(sess'[s].pc \in Holding)
        /\ gauge' = gauge - One(sess[s].pc \in Counted) + One(sess'[s].pc \in Counted)
    BY <1>0, <2>1, <2>2 DEF One, Holding, Counted
  <2> QED
    BY <1>c, <2>1, <2>2, <2>3, RecountSession
<1>10. ASSUME NEW s \in Sessions, FrameRead(s) PROVE PermitsExact'
  BY <1>0, <1>2, <1>10 DEF Tasks, FrameRead, Holding, Counted
<1>11. ASSUME NEW s \in Sessions, MuxBind(s) PROVE PermitsExact'
  <2>1. PICK a \in Assocs :
           /\ assoc[a] = Unused
           /\ assoc' = [assoc EXCEPT ![a] = [owner |-> s, id |-> sess[s].cur.id, inbox |-> 0]]
           /\ \A t \in Sessions \ {s} : sess'[t] = sess[t]
           /\ sess'[s].pc \in {"muxSend", "mux"}
    BY <1>11, <1>s, BindSession
  <2>2. assoc'[a] # Unused /\ \A b \in Assocs \ {a} : assoc'[b] = assoc[b]
    BY <1>0, <2>1, Constants DEF Unused, Agents
  <2>3. sess[s].pc = "muxBind" /\ UNCHANGED permits /\ gauge' = gauge + 1
    BY <1>11 DEF MuxBind
  <2>4. /\ s \in Holders /\ s \notin Holders' /\ s \notin Connected /\ s \notin Connected'
        /\ a \notin Live /\ a \in Live'
    BY <2>1, <2>2, <2>3 DEF Holders, Connected, Live, Holds, Active, Unused
  <2>5. /\ permits' = permits + One(s \in Holders) - One(s \in Holders') + One(a \in Live) - One(a \in Live')
        /\ gauge' = gauge - One(s \in Connected) + One(s \in Connected') - One(a \in Live) + One(a \in Live')
    BY <1>0, <2>3, <2>4 DEF One
  <2> QED
    BY <1>c, <2>1, <2>2, <2>5, Recount
<1>12. ASSUME NEW s \in Sessions, Delivers(s) PROVE PermitsExact'
  <2>1. /\ UNCHANGED <<permits, gauge>> /\ \A t \in Sessions \ {s} : sess'[t].pc = sess[t].pc
        /\ sess[s].pc = "muxSend" /\ sess'[s].pc = "mux"
        /\ \A b \in Assocs : assoc'[b].owner = assoc[b].owner
        /\ \A b \in Assocs \ {sess[s].cur.a} : assoc'[b] = assoc[b]
        /\ sess[s].cur.a \in Assocs
    BY <1>0, <1>12 DEF Tasks, Delivers, Association
  <2>2. assoc[sess[s].cur.a].owner = s /\ s # NoOne /\ Unused.owner = NoOne
    BY <2>1, Constants DEF Owned, Agents, Unused
  <2>3. \A b \in Assocs : assoc'[b] = Unused <=> assoc[b] = Unused
    BY <2>1, <2>2
  <2> QED
    BY <1>2, <2>1, <2>3 DEF Holding, Counted
<1>13. ASSUME NEW a \in Assocs, AssocMessage(a) PROVE PermitsExact'
  <2>1. /\ assoc'[a].owner = assoc[a].owner /\ \A b \in Assocs \ {a} : assoc'[b] = assoc[b]
        /\ assoc[a] # Unused /\ UNCHANGED <<sess, permits, gauge>>
    BY <1>0, <1>13 DEF AssocMessage, Association, Unused, targets
  <2>2. assoc[a].owner # NoOne /\ Unused.owner = NoOne
    BY <2>1 DEF Owned, Unused
  <2> QED
    BY <1>1, <2>1, <2>2
<1>14. ASSUME NEW a \in Assocs, EndAssoc(a), assoc[a] # Unused PROVE PermitsExact'
  <2>1. \A t \in Sessions : sess'[t].pc = sess[t].pc
    BY <1>14, EndAssocSession
  <2>2. /\ assoc'[a] = Unused /\ \A b \in Assocs \ {a} : assoc'[b] = assoc[b]
        /\ permits' = permits + 1 /\ gauge' = gauge - 1
    BY <1>0, <1>14 DEF EndAssoc
  <2>3. /\ NoOne \notin Holders /\ NoOne \notin Holders' /\ NoOne \notin Connected /\ NoOne \notin Connected'
        /\ a \in Live /\ a \notin Live'
    BY <1>14, <2>2, Constants DEF Holders, Connected, Live, Unused, Agents
  <2>4. /\ permits' = permits + One(NoOne \in Holders) - One(NoOne \in Holders') + One(a \in Live) - One(a \in Live')
        /\ gauge' = gauge - One(NoOne \in Connected) + One(NoOne \in Connected') - One(a \in Live) + One(a \in Live')
    BY <1>0, <2>2, <2>3 DEF One
  <2> QED
    BY <1>c, <2>1, <2>2, <2>4, Recount
<1>15. ASSUME NEW x \in Agents, LockAndSeal(x) \/ Gets(x) PROVE PermitsExact'
  BY <1>1, <1>15 DEF LockAndSeal, Gets, targets
<1>16. ASSUME NEW x \in Agents, Push(x) PROVE PermitsExact'
  <2>1. \/ UNCHANGED sess
        \/ /\ x \in Sessions /\ sess[x].pc = "response"
           /\ Idled(x) \/ Goto(x, "mux") \/ Goto(x, "permit")
    BY <1>16, PushSender
  <2>2. UNCHANGED <<assoc, permits, gauge>>
    BY <1>16 DEF Push
  <2>3. CASE x \in Sessions /\ sess[x].pc = "response" /\ (Idled(x) \/ Goto(x, "mux") \/ Goto(x, "permit"))
    BY <1>0, <1>2, <2>2, <2>3 DEF Tasks, Idled, Goto, Idle, Holding, Counted
  <2> QED
    BY <1>1, <2>1, <2>2, <2>3
<1>17. CASE UNCHANGED tasks
  BY <1>1, <1>17 DEF tasks
<1> QED
  BY <1>3, <1>4, <1>5, <1>6, <1>7, <1>8, <1>9, <1>10, <1>11, <1>12, <1>13, <1>14, <1>15, <1>16, <1>17, Kinds


-------------------------------------------------------------------------------
(* Records.                                                                  *)

\* Locked, with what types and owners add to it.
LEMMA LockFacts ==
  ASSUME Typed, Places, Owned, Locked
  PROVE  /\ \A x \in Agents : send[x].rec # NoRecord =>
              send[x].left > 0 /\ Encrypted /\ Owner(x) \in Sessions /\ chan[Owner(x)].lock = x
         /\ \A x \in Agents : send[x].left = 0 => send[x].rec = NoRecord
         /\ \A s \in Sessions : chan[s].lock # NoOne =>
              chan[s].lock \in Agents /\ Owner(chan[s].lock) = s /\ send[chan[s].lock].rec # NoRecord /\ Encrypted
         /\ \A s \in Sessions : sess[s].pc \notin {"response", "tcp", "write", "half", "udp"} =>
              send[s].left = 0 /\ send[s].rec = NoRecord /\ chan[s].lock # s
<1>1. \A x \in Agents : send[x].left \in 0 .. 2
  BY DEF Typed, Message
<1>2. \A x \in Agents : send[x].rec # NoRecord =>
        send[x].left > 0 /\ Encrypted /\ Owner(x) \in Sessions /\ chan[Owner(x)].lock = x
  BY <1>1, OwnerType DEF Locked
<1>3. \A s \in Sessions : chan[s].lock # NoOne => chan[s].lock \in Agents
  BY DEF Typed, Channels
<1>4. \A s \in Sessions : s \in Agents
  BY DEF Agents
<1>5. \A s \in Sessions : sess[s].pc \notin {"response", "tcp", "write", "half", "udp"} => send[s].left = 0
  BY <1>1, <1>4 DEF Places, Sending
<1>6. NoOne \notin Agents
  BY Constants
<1> QED
  BY <1>2, <1>3, <1>4, <1>5, <1>6 DEF Locked

\* Nothing that a lock or a sealed record depends on changes.
LEMMA LockedKept ==
  ASSUME Typed, Places, Owned, Locked, UNCHANGED conf,
         \A s \in Sessions : chan'[s].lock = chan[s].lock,
         \A x \in Agents : send[x].rec # NoRecord => Owner(x)' = Owner(x),
         \A x \in Agents : send'[x].rec = send[x].rec,
         \A x \in Agents : send'[x].left = send[x].left \/ (send'[x].left > 0 /\ (~Encrypted => send'[x].left <= 1))
  PROVE  Locked'
<1>1. Encrypted' = Encrypted
  BY DEF Encrypted, NoEncryption
<1>2. \A x \in Agents : /\ send'[x].left = 0 => send'[x].rec = NoRecord
                        /\ send'[x].rec # NoRecord => Encrypted /\ chan'[Owner(x)'].lock = x
                        /\ ~Encrypted => send'[x].left <= 1
  BY LockFacts DEF Locked
<1>3. ASSUME NEW s \in Sessions, chan[s].lock # NoOne
      PROVE  /\ (IF chan[s].lock \in Sessions THEN chan[s].lock ELSE assoc'[chan[s].lock].owner) = s
             /\ send'[chan[s].lock].rec # NoRecord
  <2>1. chan[s].lock \in Agents /\ Owner(chan[s].lock) = s /\ send[chan[s].lock].rec # NoRecord
    BY <1>3, LockFacts
  <2>2. \A x \in Agents : send[x].rec # NoRecord =>
          (IF x \in Sessions THEN x ELSE assoc'[x].owner) = Owner(x)
    BY DEF Owner
  <2> QED
    BY <2>1, <2>2
<1>4. (\A s \in Sessions : chan[s].lock # NoOne =>
         Owner(chan[s].lock) = s /\ send[chan[s].lock].rec # NoRecord)'
  BY <1>3 DEF Owner, NoRecord
<1>5. (\A x \in Agents :
         /\ send[x].left = 0 => send[x].rec = NoRecord
         /\ send[x].rec # NoRecord => Encrypted /\ chan[Owner(x)].lock = x
         /\ ~Encrypted => send[x].left <= 1)'
  BY <1>1, <1>2 DEF NoRecord, Agents
<1> QED
  BY <1>4, <1>5 DEF Locked


\* x, which may have held the lock of its session, sends nothing any more.
LEMMA Unlocks ==
  ASSUME Typed, Places, Owned, Locked, UNCHANGED conf, NEW x \in Agents, NEW s \in Sessions, Owner(x) = s,
         \A t \in Sessions \ {s} : chan'[t].lock = chan[t].lock,
         chan'[s].lock = IF chan[s].lock = x THEN NoOne ELSE chan[s].lock,
         \A y \in Agents \ {x} : send'[y] = send[y],
         \A a \in Assocs \ {x} : assoc'[a].owner = assoc[a].owner,
         send'[x] = NoSend
  PROVE  Locked'
<1>1. Encrypted' = Encrypted
  BY DEF Encrypted, NoEncryption
<1>2. \A y \in Agents \ {x} : (IF y \in Sessions THEN y ELSE assoc'[y].owner) = Owner(y)
  BY DEF Owner, Agents
<1>3. send'[x].left = 0 /\ send'[x].rec = NoRecord
  BY DEF NoSend
<1>4. \A t \in Sessions : chan'[t].lock # x
  BY LockFacts, Constants
<1>5. \A y \in Agents :
        /\ send'[y].left = 0 => send'[y].rec = NoRecord
        /\ send'[y].rec # NoRecord => Encrypted /\ chan'[IF y \in Sessions THEN y ELSE assoc'[y].owner].lock = y
        /\ ~Encrypted => send'[y].left <= 1
  BY <1>2, <1>3, LockFacts DEF Locked
<1>6. ASSUME NEW t \in Sessions, chan'[t].lock # NoOne
      PROVE  /\ (IF chan'[t].lock \in Sessions THEN chan'[t].lock ELSE assoc'[chan'[t].lock].owner) = t
             /\ send'[chan'[t].lock].rec # NoRecord
  <2>1. chan'[t].lock = chan[t].lock
    BY <1>6
  <2>2. chan[t].lock \in Agents \ {x} /\ Owner(chan[t].lock) = t /\ send[chan[t].lock].rec # NoRecord
    BY <1>4, <1>6, <2>1, LockFacts
  <2>3. \A y \in Agents \ {x} : send'[y].rec = send[y].rec
    OBVIOUS
  <2> QED
    BY <1>2, <2>1, <2>2, <2>3
<1>7. (\A t \in Sessions : chan[t].lock # NoOne =>
         Owner(chan[t].lock) = t /\ send[chan[t].lock].rec # NoRecord)'
  BY <1>6 DEF Owner, NoRecord
<1>8. (\A y \in Agents :
         /\ send[y].left = 0 => send[y].rec = NoRecord
         /\ send[y].rec # NoRecord => Encrypted /\ chan[Owner(y)].lock = y
         /\ ~Encrypted => send[y].left <= 1)'
  BY <1>1, <1>5 DEF NoRecord, Agents, Owner
<1> QED
  BY <1>7, <1>8 DEF Locked

\* x seals a record: it holds the lock of its session.
LEMMA Locks ==
  ASSUME Typed, Places, Owned, Locked, UNCHANGED <<conf, assoc>>, NEW x \in Agents, NEW s \in Sessions, Owner(x) = s,
         Encrypted, chan[s].lock \in {NoOne, x}, chan'[s].lock = x,
         \A t \in Sessions \ {s} : chan'[t].lock = chan[t].lock,
         \A y \in Agents \ {x} : send'[y] = send[y],
         send'[x].rec # NoRecord, send'[x].left > 0
  PROVE  Locked'
<1>1. Encrypted'
  BY DEF Encrypted, NoEncryption
<1>2. \A y \in Agents : (IF y \in Sessions THEN y ELSE assoc'[y].owner) = Owner(y)
  BY DEF Owner
<1>3. \A y \in Agents \ {x} : send[y].rec # NoRecord => Owner(y) \in Sessions \ {s}
  BY LockFacts, Constants
<1>4. \A y \in Agents :
        /\ send'[y].left = 0 => send'[y].rec = NoRecord
        /\ send'[y].rec # NoRecord => chan'[Owner(y)].lock = y
  BY <1>3, LockFacts DEF Locked
<1>5. ASSUME NEW t \in Sessions, chan'[t].lock # NoOne
      PROVE  \/ Owner(chan[t].lock) = t /\ send'[chan'[t].lock].rec # NoRecord /\ chan'[t].lock \in Agents
             \/ t = s /\ send'[chan'[t].lock].rec # NoRecord /\ chan'[t].lock = x
  <2>1. CASE t # s
    <3>1. chan'[t].lock = chan[t].lock
      BY <2>1
    <3>2. chan[t].lock \in Agents /\ Owner(chan[t].lock) = t /\ send[chan[t].lock].rec # NoRecord
      BY <1>5, <3>1, LockFacts
    <3>3. chan[t].lock # x
      BY <2>1, <3>2
    <3> QED
      BY <3>1, <3>2, <3>3
  <2> QED
    BY <2>1
<1>6. (\A t \in Sessions : chan[t].lock # NoOne =>
         Owner(chan[t].lock) = t /\ send[chan[t].lock].rec # NoRecord)'
  <2>1. \A t \in Sessions \ {s} : chan'[t].lock = chan[t].lock
    OBVIOUS
  <2> QED
    BY <1>2, <1>5, <2>1 DEF Owner, NoRecord
<1>7. (\A y \in Agents :
         /\ send[y].left = 0 => send[y].rec = NoRecord
         /\ send[y].rec # NoRecord => Encrypted /\ chan[Owner(y)].lock = y
         /\ ~Encrypted => send[y].left <= 1)'
  BY <1>1, <1>2, <1>4 DEF NoRecord, Agents, Owner
<1> QED
  BY <1>6, <1>7 DEF Locked


LEMMA LockedStep ==
  ASSUME Typed, Places, Owned, SlotLeft, Locked, Running
  PROVE  Locked'
<1>0. /\ Tasks /\ Channels /\ send \in [Agents -> Message] /\ assoc \in [Assocs -> Association]
      /\ \A s \in Sessions : s \in Agents
      /\ \A a \in Assocs : a \in Agents /\ a \notin Sessions
  BY Constants DEF Typed, Agents
<1>c. UNCHANGED conf
  BY ConfKept DEF Running
<1>t. \A x \in Agents : send[x].left \in 0 .. 2 /\ send[x].rec \in 0 .. 2
  BY <1>0 DEF Message, NoRecord
<1>k. \A k \in Chunks : k \in {1, 2} /\ (~Encrypted => k <= 1)
  BY DEF Chunks
<1>1. ASSUME \A s \in Sessions : chan'[s].lock = chan[s].lock, UNCHANGED send,
             \A a \in Assocs : assoc'[a].owner = assoc[a].owner \/ send[a].rec = NoRecord
      PROVE  Locked'
  <2>1. \A x \in Agents : send[x].rec # NoRecord => Owner(x)' = Owner(x)
    BY <1>1 DEF Owner, Agents
  <2>2. \A x \in Agents : send'[x].rec = send[x].rec /\ send'[x].left = send[x].left
    BY <1>1
  <2> QED
    BY <1>1, <1>c, <2>1, <2>2, LockedKept
<1>2. ASSUME NEW s \in Sessions, Start(s) PROVE Locked'
  <2>1. chan[s].lock = NoOne
    <3>1. SUFFICES ASSUME chan[s].lock # NoOne PROVE FALSE
      OBVIOUS
    <3>2. chan[s].lock \in Agents /\ Owner(chan[s].lock) = s /\ chan[s].lock # s
      BY <1>2, <3>1, LockFacts DEF Start
    <3> QED
      BY <1>2, <3>2 DEF Start, Of, Owner, Agents
  <2> QED
    BY <1>0, <1>1, <1>2, <2>1 DEF Start, Open, Channels
<1>3. ASSUME NEW s \in Sessions, Ends(s) PROVE Locked'
  <2>1. /\ \A t \in Sessions \ {s} : chan'[t].lock = chan[t].lock
        /\ chan'[s].lock = IF chan[s].lock = s THEN NoOne ELSE chan[s].lock
        /\ \A y \in Agents \ {s} : send'[y] = send[y]
        /\ send'[s] = NoSend /\ UNCHANGED assoc
    BY <1>0, <1>3 DEF Ends, End, Channels
  <2>2. Owner(s) = s /\ s \in Agents
    BY DEF Owner, Agents
  <2> QED
    BY <1>c, <2>1, <2>2, Unlocks
<1>4. ASSUME NEW s \in Sessions,
             \/ Moves(s) \/ (\E t \in issued, k \in NfsKeys : HsTicket(s, t, k)) \/ HsLookup(s)
             \/ Acquire(s) \/ Connect(s) \/ UdpRead(s) \/ FrameRead(s)
      PROVE  Locked'
  <2>1. UNCHANGED <<chan, send, assoc>>
    BY <1>4 DEF Moves, HsTicket, HsLookup, Acquire, Connect, UdpRead, FrameRead
  <2> QED
    BY <1>1, <2>1
<1>5. ASSUME NEW s \in Sessions, HsReply(s) \/ ClientGone(s) \/ Drain(s) PROVE Locked'
  BY <1>0, <1>1, <1>5 DEF Channels, HsReply, ClientGone, Drain
<1>6. ASSUME NEW x \in Agents, NEW k \in Chunks, UNCHANGED <<chan, assoc>>,
             send' = [send EXCEPT ![x].left = k]
      PROVE  Locked'
  <2>1. \A y \in Agents : /\ send'[y].rec = send[y].rec
                          /\ send'[y].left = send[y].left \/ (send'[y].left > 0 /\ (~Encrypted => send'[y].left <= 1))
    BY <1>0, <1>k, <1>6 DEF Message
  <2>2. \A y \in Agents : Owner(y)' = Owner(y)
    BY <1>6 DEF Owner
  <2> QED
    BY <1>6, <1>c, <2>1, <2>2, LockedKept
<1>7. ASSUME NEW s \in Sessions, Admits(s) PROVE Locked'
  <2>1. send' = [send EXCEPT ![s].left = 1] /\ UNCHANGED <<chan, assoc>>
    BY <1>7 DEF Admits
  <2>2. 1 \in Chunks
    BY DEF Chunks
  <2> QED
    BY <1>0, <1>6, <2>1, <2>2
<1>8. ASSUME NEW s \in Sessions, NEW k \in Chunks, UdpRecv(s, k) PROVE Locked'
  BY <1>0, <1>k, <1>6, <1>8 DEF UdpRecv
<1>9. ASSUME NEW x \in Agents, Gets(x) PROVE Locked'
  BY <1>k, <1>6, <1>9 DEF Gets
<1>10. ASSUME NEW s \in Sessions, MuxBind(s) PROVE Locked'
  <2>1. PICK a \in Assocs :
           /\ assoc[a] = Unused
           /\ assoc' = [assoc EXCEPT ![a] = [owner |-> s, id |-> sess[s].cur.id, inbox |-> 0]]
    BY <1>10, BindSession
  <2>2. send[a].rec = NoRecord /\ \A b \in Assocs \ {a} : assoc'[b] = assoc[b]
    BY <1>0, <2>1 DEF Owned, Unused, NoSend
  <2> QED
    BY <1>1, <1>10, <2>2 DEF MuxBind
<1>11. ASSUME NEW s \in Sessions, Delivers(s) PROVE Locked'
  <2>1. UNCHANGED <<chan, send>> /\ \A b \in Assocs : assoc'[b].owner = assoc[b].owner
    BY <1>0, <1>11 DEF Delivers, Association
  <2> QED
    BY <1>1, <2>1
<1>12. ASSUME NEW a \in Assocs, AssocMessage(a) PROVE Locked'
  <2>1. UNCHANGED <<chan, send>> /\ \A b \in Assocs : assoc'[b].owner = assoc[b].owner
    BY <1>0, <1>12 DEF AssocMessage, Association
  <2> QED
    BY <1>1, <2>1
<1>13. ASSUME NEW a \in Assocs, EndAssoc(a), assoc[a] # Unused PROVE Locked'
  <2>1. assoc[a].owner \in Sessions /\ Owner(a) = assoc[a].owner
    BY <1>0, <1>13, OwnerType
  <2>2. /\ \A t \in Sessions \ {assoc[a].owner} : chan'[t].lock = chan[t].lock
        /\ chan'[assoc[a].owner].lock = IF chan[assoc[a].owner].lock = a THEN NoOne ELSE chan[assoc[a].owner].lock
    BY <1>0, <1>13, <2>1 DEF EndAssoc, Channels, Open
  <2>3. /\ \A y \in Agents \ {a} : send'[y] = send[y]
        /\ \A b \in Assocs \ {a} : assoc'[b].owner = assoc[b].owner
        /\ send'[a] = NoSend
    BY <1>0, <1>13 DEF EndAssoc
  <2> QED
    BY <1>0, <1>c, <2>1, <2>2, <2>3, Unlocks
<1>14. ASSUME NEW x \in Agents, LockAndSeal(x) PROVE Locked'
  <2>1. Owner(x) \in Sessions
    BY <1>14, OwnerType DEF LockAndSeal, Sending
  <2>2. /\ Encrypted /\ chan[Owner(x)].lock = NoOne /\ chan'[Owner(x)].lock = x
        /\ \A t \in Sessions \ {Owner(x)} : chan'[t].lock = chan[t].lock
        /\ \A y \in Agents \ {x} : send'[y] = send[y]
        /\ UNCHANGED assoc
    BY <1>0, <1>14, <2>1 DEF LockAndSeal, Channels, FreeLock
  <2>3. send'[x].rec # NoRecord /\ send'[x].left > 0
    BY <1>0, <1>14, <2>1 DEF LockAndSeal, Message, Channels, Sending, NoRecord
  <2> QED
    BY <1>c, <2>1, <2>2, <2>3, Locks
<1>15. ASSUME NEW x \in Agents, Push(x) PROVE Locked'
  <2>1. Owner(x) \in Sessions /\ UNCHANGED assoc /\ send[x].left > 0 /\ (Encrypted => send[x].rec # NoRecord)
    BY <1>15, OwnerType DEF Push, Ready, Sending
  <2>2. /\ \A t \in Sessions \ {Owner(x)} : chan'[t].lock = chan[t].lock
        /\ chan'[Owner(x)].lock = IF ~Encrypted THEN chan[Owner(x)].lock
                                  ELSE IF send[x].left > 1 THEN x ELSE NoOne
    BY <1>15, <2>1, PushChannel
  <2>3. /\ \A y \in Agents \ {x} : send'[y] = send[y]
        /\ send[x].left > 1 => send'[x] = [left |-> send[x].left - 1, rec |-> chan[Owner(x)].cipher]
        /\ send[x].left <= 1 => send'[x] = NoSend
    BY <1>15, PushSender
  <2>4. CASE Encrypted /\ send[x].left > 1
    <3>1. send'[x].rec # NoRecord /\ send'[x].left > 0
      BY <1>0, <1>t, <2>1, <2>3, <2>4 DEF Channels, NoRecord
    <3>2. chan[Owner(x)].lock = x
      BY <2>1, <2>4, LockFacts
    <3> QED
      BY <1>c, <2>1, <2>2, <2>3, <2>4, <3>1, <3>2, Locks
  <2>5. CASE ~(Encrypted /\ send[x].left > 1)
    <3>1. send[x].left <= 1
      BY <1>t, <2>5 DEF Locked
    <3>2. Encrypted => chan[Owner(x)].lock = x
      BY <2>1, LockFacts
    <3>3. ~Encrypted => chan[Owner(x)].lock # x
      BY <2>1, LockFacts, Constants
    <3>4. chan'[Owner(x)].lock = IF chan[Owner(x)].lock = x THEN NoOne ELSE chan[Owner(x)].lock
      BY <2>2, <2>5, <3>2, <3>3
    <3> QED
      BY <1>c, <2>1, <2>2, <2>3, <3>1, <3>4, Unlocks
  <2> QED
    BY <2>4, <2>5
<1>16. CASE UNCHANGED tasks
  BY <1>1, <1>16 DEF tasks
<1> QED
  BY <1>2, <1>3, <1>4, <1>5, <1>7, <1>8, <1>9, <1>10, <1>11, <1>12, <1>13, <1>14, <1>15, <1>16, Kinds


\* A channel's numbers stay, and nobody new may write to its session.
LEMMA NumberedKept ==
  ASSUME Typed, Places, Owned, Locked, Numbered, UNCHANGED conf,
         \A s \in Sessions :
           /\ chan'[s].lock = chan[s].lock /\ chan'[s].open = chan[s].open /\ chan'[s].cipher = chan[s].cipher
           /\ chan'[s].n = chan[s].n /\ chan'[s].broken = chan[s].broken /\ chan'[s].cut = chan[s].cut,
         \A x \in Agents : send[x].rec # NoRecord => send'[x].rec = send[x].rec,
         \A s \in Sessions : (sess[s].pc # "idle" \/ Of(s) # {})' => sess[s].pc # "idle" \/ Of(s) # {}
  PROVE  Numbered'
<1>1. Encrypted' = Encrypted
  BY DEF Encrypted, NoEncryption
<1>2. \A s \in Sessions : chan[s].lock # NoOne => send'[chan[s].lock].rec = send[chan[s].lock].rec
  BY LockFacts
<1>3. ASSUME NEW s \in Sessions, InStep(s) PROVE InStep(s)'
  <2>1. CASE chan[s].lock = NoOne
    BY <1>1, <1>3, <2>1 DEF InStep
  <2>2. CASE chan[s].lock # NoOne
    <3>1. /\ chan[s].open \in {NoOne, chan[s].lock}
          /\ send[chan[s].lock].rec = chan[s].n
          /\ chan[s].cipher = (chan[s].n + 1) % 2
      BY <1>3, <2>2 DEF InStep
    <3>2. send'[chan'[s].lock].rec = chan[s].n
      BY <1>2, <2>2, <3>1
    <3> QED
      BY <2>2, <3>1, <3>2 DEF InStep
  <2> QED
    BY <2>1, <2>2
<1> QED
  BY <1>3 DEF Numbered

\* One session's channel changes.
LEMMA NumberedOne ==
  ASSUME Typed, Places, Owned, Locked, Numbered, UNCHANGED <<conf, assoc>>, NEW x \in Agents, NEW s \in Sessions, Owner(x) = s,
         \A t \in Sessions \ {s} : chan'[t] = chan[t],
         \A y \in Agents \ {x} : send'[y] = send[y],
         \A t \in Sessions : sess'[t].pc # "idle" => sess[t].pc # "idle",
         ~chan'[s].broken,
         ~chan'[s].cut => InStep(s)'
  PROVE  Numbered'
<1>1. Encrypted' = Encrypted
  BY DEF Encrypted, NoEncryption
<1>2. \A t \in Sessions \ {s} : chan[t].lock # NoOne => chan[t].lock \in Agents \ {x}
  BY LockFacts
<1>3. ASSUME NEW t \in Sessions \ {s}, InStep(t) PROVE InStep(t)'
  <2>1. CASE chan[t].lock = NoOne
    BY <1>1, <1>3, <2>1 DEF InStep
  <2>2. CASE chan[t].lock # NoOne
    <3>1. send'[chan[t].lock] = send[chan[t].lock] /\ chan'[t] = chan[t]
      BY <1>2, <2>2
    <3> QED
      BY <1>3, <2>2, <3>1 DEF InStep
  <2> QED
    BY <2>1, <2>2
<1>4. \A t \in Sessions : Of(t)' = Of(t)
  BY DEF Of
<1>5. \A t \in Sessions \ {s} : /\ ~chan'[t].broken
                                /\ (sess'[t].pc # "idle" \/ Of(t)' # {}) /\ ~chan'[t].cut => InStep(t)'
  BY <1>3, <1>4 DEF Numbered
<1> QED
  BY <1>5 DEF Numbered


LEMMA NumberedStep ==
  ASSUME Typed, Places, Owned, Queued, SlotLeft, Locked, Numbered, Running
  PROVE  Numbered'
<1>0. /\ Tasks /\ Channels /\ send \in [Agents -> Message] /\ assoc \in [Assocs -> Association]
      /\ \A s \in Sessions : s \in Agents
      /\ \A a \in Assocs : a \in Agents /\ a \notin Sessions
  BY Constants DEF Typed, Agents
<1>c. UNCHANGED conf
  BY ConfKept DEF Running
<1>t. \A x \in Agents : send[x].left \in 0 .. 2 /\ send[x].rec \in 0 .. 2
  BY <1>0 DEF Message, NoRecord
<1>1. ASSUME \A s \in Sessions :
               /\ chan'[s].lock = chan[s].lock /\ chan'[s].open = chan[s].open /\ chan'[s].cipher = chan[s].cipher
               /\ chan'[s].n = chan[s].n /\ chan'[s].broken = chan[s].broken /\ chan'[s].cut = chan[s].cut,
             \A x \in Agents : send[x].rec # NoRecord => send'[x].rec = send[x].rec,
             \A a \in Assocs : assoc'[a].owner = assoc[a].owner,
             \A s \in Sessions : sess'[s].pc # "idle" => sess[s].pc # "idle"
      PROVE  Numbered'
  <2>1. \A s \in Sessions : (sess[s].pc # "idle" \/ Of(s) # {})' => sess[s].pc # "idle" \/ Of(s) # {}
    BY <1>1 DEF Of
  <2> QED
    BY <1>1, <1>c, <2>1, NumberedKept
<1>2. ASSUME NEW s \in Sessions, Start(s) PROVE Numbered'
  <2>1. Owner(s) = s /\ s \in Agents
    BY DEF Owner, Agents
  <2>2. /\ \A t \in Sessions \ {s} : chan'[t] = chan[t] /\ sess'[t] = sess[t] /\ Of(t)' = Of(t)
        /\ chan'[s] = Open /\ UNCHANGED <<send, assoc>>
    BY <1>0, <1>2 DEF Start, Channels, Tasks, Of
  <2>3. ~chan'[s].broken /\ InStep(s)'
    BY <2>2, Constants DEF InStep, Open
  <2>4. \A t \in Sessions \ {s} : InStep(t) => InStep(t)'
    BY <1>c, <2>2 DEF InStep, Encrypted, NoEncryption
  <2> QED
    BY <2>2, <2>3, <2>4 DEF Numbered
<1>3. ASSUME NEW s \in Sessions, Ends(s) PROVE Numbered'
  <2>1. Owner(s) = s /\ s \in Agents
    BY DEF Owner, Agents
  <2>2. /\ \A t \in Sessions \ {s} : chan'[t] = chan[t] /\ sess'[t] = sess[t]
        /\ \A t \in Sessions : Of(t)' = Of(t)
        /\ \A y \in Agents \ {s} : send'[y] = send[y]
        /\ sess'[s].pc = "idle" /\ sess[s].pc # "idle" /\ UNCHANGED assoc
        /\ chan'[s].broken = chan[s].broken /\ chan'[s].cut = chan[s].cut
        /\ chan'[s].open = chan[s].open /\ chan'[s].cipher = chan[s].cipher /\ chan'[s].n = chan[s].n
        /\ chan[s].lock # s => chan'[s].lock = chan[s].lock
    <3>1. UNCHANGED assoc /\ send' = [send EXCEPT ![s] = NoSend] /\ sess[s].pc # "idle"
      BY <1>3 DEF Ends, End
    <3>2. /\ \A t \in Sessions \ {s} : chan'[t] = chan[t]
          /\ chan'[s].broken = chan[s].broken /\ chan'[s].cut = chan[s].cut
          /\ chan'[s].open = chan[s].open /\ chan'[s].cipher = chan[s].cipher /\ chan'[s].n = chan[s].n
          /\ chan[s].lock # s => chan'[s].lock = chan[s].lock
      BY <1>0, <1>3 DEF Ends, End, Channels
    <3>3. sess'[s].pc = "idle" /\ \A t \in Sessions \ {s} : sess'[t] = sess[t]
      BY <1>0, <1>3 DEF Ends, End, Tasks, Idle
    <3> QED
      BY <1>0, <3>1, <3>2, <3>3 DEF Of
  <2>3. CASE Of(s) = {}
    <3>1. \A t \in Sessions \ {s} : InStep(t) => InStep(t)'
      <4>1. \A t \in Sessions \ {s} : chan[t].lock # NoOne => chan[t].lock \in Agents \ {s}
        BY <2>1, LockFacts
      <4> QED
        BY <1>c, <2>2, <4>1, ZenonT(60) DEF InStep, Encrypted, NoEncryption
    <3> QED
      BY <2>2, <2>3, <3>1 DEF Numbered
  <2>4. CASE Of(s) # {}
    <3>1. sess[s].pc \in Muxing
      <4>1. PICK a \in Assocs : assoc[a].owner = s
        BY <2>4 DEF Of
      <4> QED
        BY <2>2, <4>1, Constants DEF Owned, Agents
    <3>2. chan[s].lock # s /\ send[s].rec = NoRecord
      BY <3>1, LockFacts DEF Muxing
    <3> QED
      BY <1>1, <2>2, <3>2
  <2> QED
    BY <2>3, <2>4
<1>4. ASSUME NEW s \in Sessions,
             \/ Moves(s) \/ (\E t \in issued, k \in NfsKeys : HsTicket(s, t, k))
             \/ Connect(s) \/ UdpRead(s) \/ FrameRead(s)
      PROVE  Numbered'
  <2>1. UNCHANGED <<chan, send, assoc>> /\ \A t \in Sessions \ {s} : sess'[t] = sess[t]
    BY <1>0, <1>4 DEF Tasks, Goto, Moves, HsTicket, Connect, UdpRead, FrameRead
  <2>2. sess[s].pc # "idle"
    BY <1>4 DEF Moves, Route, HsTicket, Connect, UdpRead, FrameRead
  <2> QED
    BY <1>1, <2>1, <2>2
<1>5. ASSUME NEW s \in Sessions, HsReply(s) \/ ClientGone(s) \/ Drain(s) PROVE Numbered'
  <2>1. /\ UNCHANGED <<send, assoc>>
        /\ \A t \in Sessions :
             /\ chan'[t].lock = chan[t].lock /\ chan'[t].open = chan[t].open /\ chan'[t].cipher = chan[t].cipher
             /\ chan'[t].n = chan[t].n /\ chan'[t].broken = chan[t].broken /\ chan'[t].cut = chan[t].cut
    BY <1>0, <1>5 DEF Channels, HsReply, ClientGone, Drain
  <2>2. \A t \in Sessions : sess'[t].pc # "idle" => sess[t].pc # "idle"
    BY <1>0, <1>5 DEF Tasks, HsReply, Replying, ClientGone, Drain
  <2> QED
    BY <1>1, <2>1, <2>2
<1>6. ASSUME NEW s \in Sessions, HsLookup(s) \/ Acquire(s) PROVE Numbered'
  <2>1. UNCHANGED <<chan, send, assoc>> /\ \A t \in Sessions \ {s} : sess'[t] = sess[t]
    BY <1>0, <1>6, AcquireSession DEF Tasks, HsLookup, Acquire
  <2>2. sess[s].pc # "idle"
    BY <1>6, AcquireSession DEF HsLookup
  <2> QED
    BY <1>1, <2>1, <2>2
<1>7. ASSUME NEW s \in Sessions, Admits(s) \/ (\E k \in Chunks : UdpRecv(s, k)) PROVE Numbered'
  <2>1. /\ UNCHANGED <<chan, assoc>> /\ \A t \in Sessions \ {s} : sess'[t] = sess[t]
        /\ sess[s].pc # "idle" /\ \E k : send' = [send EXCEPT ![s].left = k]
    BY <1>0, <1>7 DEF Tasks, Admits, UdpRecv
  <2>2. \A x \in Agents : send'[x].rec = send[x].rec
    BY <1>0, <2>1 DEF Message
  <2> QED
    BY <1>1, <2>1, <2>2
<1>8. ASSUME NEW x \in Agents, Gets(x) PROVE Numbered'
  <2>1. /\ UNCHANGED <<chan, assoc, sess>> /\ \E k : send' = [send EXCEPT ![x].left = k]
    BY <1>8 DEF Gets
  <2>2. \A y \in Agents : send'[y].rec = send[y].rec
    BY <1>0, <2>1 DEF Message
  <2> QED
    BY <1>1, <2>1, <2>2
<1>9. ASSUME NEW s \in Sessions, MuxBind(s) PROVE Numbered'
  <2>1. PICK a \in Assocs :
           /\ assoc' = [assoc EXCEPT ![a] = [owner |-> s, id |-> sess[s].cur.id, inbox |-> 0]]
           /\ \A t \in Sessions \ {s} : sess'[t] = sess[t]
    BY <1>9, BindSession
  <2>2. /\ sess[s].pc # "idle" /\ UNCHANGED <<chan, send>>
        /\ \A b \in Assocs : assoc'[b].owner = assoc[b].owner \/ assoc'[b].owner = s
    <3>1. sess[s].pc # "idle" /\ UNCHANGED <<chan, send>>
      BY <1>9 DEF MuxBind
    <3> QED
      BY <1>0, <2>1, <3>1
  <2>3. \A t \in Sessions : (sess[t].pc # "idle" \/ Of(t) # {})' => sess[t].pc # "idle" \/ Of(t) # {}
    BY <2>1, <2>2 DEF Of
  <2> QED
    BY <1>c, <2>2, <2>3, NumberedKept
<1>10. ASSUME NEW s \in Sessions, Delivers(s) PROVE Numbered'
  <2>1. /\ UNCHANGED <<chan, send>> /\ \A b \in Assocs : assoc'[b].owner = assoc[b].owner
        /\ sess[s].pc # "idle" /\ \A t \in Sessions \ {s} : sess'[t] = sess[t]
    BY <1>0, <1>10 DEF Delivers, Association, Tasks
  <2> QED
    BY <1>1, <2>1
<1>11. ASSUME NEW a \in Assocs, AssocMessage(a) PROVE Numbered'
  <2>1. UNCHANGED <<chan, send, sess>> /\ \A b \in Assocs : assoc'[b].owner = assoc[b].owner
    BY <1>0, <1>11 DEF AssocMessage, Association
  <2> QED
    BY <1>1, <2>1
<1>12. ASSUME NEW a \in Assocs, EndAssoc(a), assoc[a] # Unused PROVE Numbered'
  <2>1. /\ assoc[a].owner \in Sessions
        /\ \A t \in Sessions : sess'[t].pc = sess[t].pc
    BY <1>12, EndAssocSession
  <2>2. /\ \A t \in Sessions \ {assoc[a].owner} : chan'[t] = chan[t]
        /\ chan[assoc[a].owner].lock # a => chan'[assoc[a].owner] = chan[assoc[a].owner]
        /\ chan[assoc[a].owner].lock = a => chan'[assoc[a].owner].cut /\ ~chan'[assoc[a].owner].broken
    BY <1>0, <1>12, <2>1 DEF EndAssoc, Channels, Open
  <2>3. /\ \A y \in Agents \ {a} : send'[y] = send[y]
        /\ assoc'[a].owner = NoOne /\ \A b \in Assocs \ {a} : assoc'[b] = assoc[b]
    BY <1>0, <1>12 DEF EndAssoc, Unused
  <2>4. \A t \in Sessions : Of(t)' # {} => Of(t) # {}
    BY <2>3, Constants DEF Of, Agents
  <2>5. \A t \in Sessions : chan[t].lock = a => t = assoc[a].owner
    BY <1>0, LockFacts, Constants DEF Owner
  <2>6. \A t \in Sessions : chan[t].lock # a /\ InStep(t) => InStep(t)'
    <3>1. \A t \in Sessions : chan[t].lock # a => chan'[t] = chan[t]
      BY <2>2
    <3>2. \A t \in Sessions : chan[t].lock \notin {NoOne, a} => send'[chan[t].lock] = send[chan[t].lock]
      BY <2>3, LockFacts
    <3> QED
      BY <1>c, <3>1, <3>2 DEF InStep, Encrypted, NoEncryption
  <2> QED
    BY <2>1, <2>2, <2>4, <2>5, <2>6 DEF Numbered
<1>13. ASSUME NEW x \in Agents, LockAndSeal(x) PROVE Numbered'
  <2>0. PICK s \in Sessions : Owner(x) = s
    BY <1>13, OwnerType DEF LockAndSeal, Sending
  <2>1. s \in Sessions /\ (x \in Assocs => assoc[x].owner = s) /\ (x \in Sessions => x = s)
    BY <1>13, <2>0, OwnerType DEF LockAndSeal, Sending, Owner
  <2>2. /\ Encrypted /\ chan[s].lock = NoOne /\ chan'[s].lock = x
        /\ chan'[s].open = chan[s].open /\ chan'[s].n = chan[s].n /\ chan'[s].broken = chan[s].broken
        /\ chan'[s].cut = chan[s].cut /\ chan'[s].cipher = (chan[s].cipher + 1) % 2
        /\ \A t \in Sessions \ {s} : chan'[t] = chan[t]
    BY <1>0, <1>13, <2>0 DEF LockAndSeal, Channels, FreeLock
  <2>3. /\ \A y \in Agents \ {x} : send'[y] = send[y]
        /\ send'[x].rec = chan[s].cipher /\ UNCHANGED <<assoc, sess>> /\ send[x].left > 0
    BY <1>0, <1>13, <2>0 DEF LockAndSeal, Message, Sending
  <2>4. sess[s].pc # "idle" \/ Of(s) # {}
    <3>1. CASE x \in Sessions
      BY <2>1, <2>3, <3>1 DEF Places, Sending
    <3>2. CASE x \in Assocs
      BY <2>1, <3>2 DEF Of
    <3> QED
      BY <3>1, <3>2 DEF Agents
  <2>5. ~chan[s].broken /\ (~chan[s].cut => chan[s].open = NoOne /\ chan[s].cipher = chan[s].n)
    BY <2>1, <2>2, <2>4 DEF Numbered, InStep
  <2>6. ~chan'[s].broken /\ (~chan'[s].cut => InStep(s)')
    BY <2>2, <2>3, <2>5, Constants DEF InStep
  <2> QED
    BY <1>c, <2>0, <2>2, <2>3, <2>6, NumberedOne
<1>14. ASSUME NEW x \in Agents, Push(x) PROVE Numbered'
  <2>0. PICK s \in Sessions : Owner(x) = s
    BY <1>14, OwnerType DEF Push, Ready, Sending
  <2> DEFINE more == send[x].left > 1
  <2>1. /\ s \in Sessions /\ (x \in Assocs => assoc[x].owner = s) /\ (x \in Sessions => x = s)
        /\ UNCHANGED assoc /\ send[x].left > 0 /\ (Encrypted => send[x].rec # NoRecord)
    BY <1>14, <2>0, OwnerType DEF Push, Ready, Sending, Owner
  <2>2. /\ \A t \in Sessions \ {s} : chan'[t] = chan[t]
        /\ chan'[s].lock = IF ~Encrypted THEN chan[s].lock ELSE IF more THEN x ELSE NoOne
        /\ chan'[s].cipher = IF more THEN (chan[s].cipher + 1) % 2 ELSE chan[s].cipher
        /\ chan'[s].n = IF Encrypted /\ ~chan[s].cut THEN (send[x].rec + 1) % 2 ELSE chan[s].n
        /\ chan'[s].open = IF chan[s].cut THEN chan[s].open ELSE IF more THEN x ELSE NoOne
        /\ chan'[s].broken = (chan[s].broken \/ (~chan[s].cut /\ OutOfPlace(x, chan[s])))
        /\ chan'[s].cut = chan[s].cut
    BY <1>14, <2>0, PushChannel
  <2>3. /\ \A y \in Agents \ {x} : send'[y] = send[y]
        /\ more => send'[x].rec = chan[s].cipher
    <3>1. /\ \A y \in Agents \ {x} : send'[y] = send[y]
          /\ more => send'[x] = [left |-> send[x].left - 1, rec |-> chan[Owner(x)].cipher]
      BY <1>14, PushSender
    <3> QED
      BY <2>0, <3>1
  <2>4. \A t \in Sessions : sess'[t].pc # "idle" => sess[t].pc # "idle"
    <3>1. UNCHANGED sess \/ (x \in Sessions /\ sess[x].pc = "response" /\ \A t \in Sessions \ {x} : sess'[t] = sess[t])
      BY <1>0, <1>14 DEF Push, Goto, Tasks
    <3> QED
      BY <3>1
  <2>5. sess[s].pc # "idle" \/ Of(s) # {}
    <3>1. CASE x \in Sessions
      BY <2>1, <3>1 DEF Places, Sending
    <3>2. CASE x \in Assocs
      BY <2>1, <3>2 DEF Of
    <3> QED
      BY <3>1, <3>2 DEF Agents
  <2>6. Owner(x) = s /\ (~more => send[x].left = 1) /\ (~Encrypted => ~more)
    BY <1>t, <2>0, <2>1 DEF Locked
  <2>7. Encrypted' = Encrypted
    BY <1>c DEF Encrypted, NoEncryption
  <2>8. chan[s].cipher \in {0, 1} /\ chan[s].n \in {0, 1} /\ ~chan[s].broken
    BY <1>0, <2>1 DEF Channels, Numbered
  <2>9. (Encrypted => chan[s].lock = x) /\ (~Encrypted => chan[s].lock = NoOne)
    BY <2>0, <2>1, LockFacts
  <2> HIDE DEF more
  <2>10. CASE chan[s].cut
    BY <1>c, <2>1, <2>2, <2>3, <2>4, <2>6, <2>8, <2>10, NumberedOne
  <2>11. CASE ~chan[s].cut
    <3>1. InStep(s)
      BY <2>1, <2>5, <2>11 DEF Numbered
    <3>2. CASE Encrypted
      <4>1. chan[s].open \in {NoOne, x} /\ send[x].rec = chan[s].n /\ chan[s].cipher = (chan[s].n + 1) % 2
        BY <2>9, <3>1, <3>2, Constants DEF InStep
      <4>2. ~chan'[s].broken
        BY <2>2, <2>8, <4>1 DEF OutOfPlace
      <4>3. chan'[s].n = chan[s].cipher
        BY <2>2, <2>11, <3>2, <4>1
      <4>4. InStep(s)'
        BY <2>2, <2>3, <2>7, <2>11, <3>2, <4>3, Constants DEF InStep
      <4> QED
        BY <1>c, <2>1, <2>2, <2>3, <2>4, <2>6, <4>2, <4>4, NumberedOne
    <3>3. CASE ~Encrypted
      <4>1. chan[s].open = NoOne
        BY <2>9, <3>1, <3>3 DEF InStep
      <4>2. ~chan'[s].broken
        BY <2>2, <2>8, <3>3, <4>1 DEF OutOfPlace
      <4>3. InStep(s)'
        BY <2>2, <2>6, <2>7, <2>9, <2>11, <3>3 DEF InStep
      <4> QED
        BY <1>c, <2>1, <2>2, <2>3, <2>4, <2>6, <4>2, <4>3, NumberedOne
    <3> QED
      BY <3>2, <3>3
  <2> QED
    BY <2>10, <2>11
<1>15. CASE UNCHANGED tasks
  BY <1>1, <1>15 DEF tasks
<1> QED
  BY <1>2, <1>3, <1>4, <1>5, <1>6, <1>7, <1>8, <1>9, <1>10, <1>11, <1>12, <1>13, <1>14, <1>15, Kinds


-------------------------------------------------------------------------------
(* Requests, datagrams and tickets.                                          *)

\* What a step leaves to a session.
Carries(t) ==
  /\ \/ HsLookup(t)
     \/ \E x \in issued, k \in NfsKeys : HsTicket(t, x, k)
     \/ /\ sess'[t].pc = "lookup" <=> sess[t].pc = "lookup"
        /\ sess[t].pc = "lookup" => sess'[t].hs = sess[t].hs
  /\ sess'[t].pc \in Serving =>
       \/ sess'[t].req \in conf.requests /\ Accepts(sess'[t].req)
       \/ sess[t].pc \in Serving /\ sess'[t].req = sess[t].req
  /\ sess'[t].pc \in Serving \ {"response"} =>
       /\ sess'[t].req = sess[t].req
       /\ sess[t].pc \in Serving \ {"response"} \/ (sess[t].pc = "response" /\ Handled(sess[t].req))
  /\ sess[t].part = sess[t].place \/ sess[t].torn => sess'[t].part = sess'[t].place \/ sess'[t].torn

LEMMA CarriesStep ==
  ASSUME Typed, Places, Owned, Queued, SlotLeft, Running
  PROVE  \A t \in Sessions : Carries(t)
<1>0. Tasks
  BY DEF Typed
<1>1. ASSUME NEW t \in Sessions, sess'[t] = sess[t] PROVE Carries(t)
  BY <1>1 DEF Carries
<1>2. ASSUME NEW s \in Sessions, Idled(s) \/ Start(s) \/ HsReply(s), sess[s].pc # "lookup" \/ HsLookup(s)
      PROVE  Carries(s)
  BY <1>0, <1>2 DEF Carries, Tasks, Idled, Start, HsReply, Replying, Idle, Serving
<1>3. ASSUME NEW s \in Sessions, NEW p \in Pcs, Goto(s, p), sess[s].pc # "lookup" \/ HsLookup(s), p # "lookup",
             p \in Serving => sess[s].pc \in Serving,
             p \in Serving \ {"response"} => sess[s].pc # "response" \/ Handled(sess[s].req)
      PROVE  Carries(s)
  BY <1>0, <1>3 DEF Carries, Tasks, Goto
<1>4. ASSUME NEW s \in Sessions, Start(s) PROVE \A t \in Sessions : Carries(t)
  <2>1. sess[s].pc # "lookup" /\ \A t \in Sessions \ {s} : sess'[t] = sess[t]
    BY <1>0, <1>4 DEF Tasks, Start
  <2> QED
    BY <1>1, <1>2, <1>4, <2>1
<1>5. ASSUME NEW s \in Sessions, Ends(s) PROVE \A t \in Sessions : Carries(t)
  <2>1. Idled(s) /\ sess[s].pc # "lookup" /\ \A t \in Sessions \ {s} : sess'[t] = sess[t]
    BY <1>0, <1>5 DEF Tasks, Ends, End, Idled
  <2> QED
    BY <1>1, <1>2, <2>1
<1>6. ASSUME NEW s \in Sessions, Moves(s) PROVE \A t \in Sessions : Carries(t)
  <2>1. PICK r \in Route : sess[s].pc = r[1] /\ Goto(s, r[2])
    BY <1>6 DEF Moves
  <2>2. /\ r[2] \in Pcs /\ r[1] # "lookup" /\ r[2] # "lookup" /\ r[1] # "response"
        /\ r[2] \in Serving => r[1] \in Serving
    BY DEF Route, Pcs, Reading, Replying, Serving
  <2>3. \A t \in Sessions \ {s} : sess'[t] = sess[t]
    BY <1>0, <2>1 DEF Tasks, Goto
  <2> QED
    BY <1>1, <1>3, <2>1, <2>2, <2>3
<1>7. ASSUME NEW s \in Sessions, HsReply(s) PROVE \A t \in Sessions : Carries(t)
  <2>1. sess[s].pc # "lookup" /\ \A t \in Sessions \ {s} : sess'[t] = sess[t]
    BY <1>0, <1>7 DEF Tasks, HsReply, Replying
  <2> QED
    BY <1>1, <1>2, <1>7, <2>1
<1>8. ASSUME NEW s \in Sessions, NEW x \in issued, NEW k \in NfsKeys, HsTicket(s, x, k) PROVE \A t \in Sessions : Carries(t)
  <2>1. \A t \in Sessions \ {s} : sess'[t] = sess[t]
    BY <1>0, <1>8 DEF Tasks, HsTicket
  <2>2. /\ sess'[s].pc = "lookup" /\ sess'[s].part = sess[s].part /\ sess'[s].place = sess[s].place
        /\ sess'[s].torn = sess[s].torn
    BY <1>0, <1>8 DEF Tasks, HsTicket
  <2> QED
    BY <1>1, <1>8, <2>1, <2>2 DEF Carries, Serving
<1>9. ASSUME NEW s \in Sessions, HsLookup(s) PROVE \A t \in Sessions : Carries(t)
  <2>1. (Idled(s) \/ Goto(s, "random") \/ Goto(s, "decoy"))
    BY <1>9 DEF HsLookup, Idled, Goto
  <2>2. \A t \in Sessions \ {s} : sess'[t] = sess[t]
    BY <1>0, <2>1 DEF Tasks, Goto, Idled
  <2>3. "random" \in Pcs \ Serving /\ "decoy" \in Pcs \ Serving
    BY DEF Pcs, Replying, Serving
  <2> QED
    BY <1>1, <1>2, <1>3, <1>9, <2>1, <2>2, <2>3
<1>10. ASSUME NEW s \in Sessions, Admits(s) PROVE \A t \in Sessions : Carries(t)
  <2>1. \A t \in Sessions \ {s} : sess'[t] = sess[t]
    BY <1>0, <1>10 DEF Tasks, Admits
  <2>2. /\ sess'[s].pc = "response" /\ sess[s].pc = "header" /\ sess'[s].part = sess[s].part
        /\ sess'[s].place = sess[s].place /\ sess'[s].torn = sess[s].torn
        /\ sess'[s].req \in conf.requests /\ Accepts(sess'[s].req)
    BY <1>0, <1>10 DEF Tasks, Admits
  <2> QED
    BY <1>1, <2>1, <2>2 DEF Carries
<1>11. ASSUME NEW s \in Sessions, Acquire(s) PROVE \A t \in Sessions : Carries(t)
  <2>1. /\ sess[s].pc \in {"permit", "muxPermit"} /\ sess'[s].pc \in {"connect", "muxBind"}
        /\ \A t \in Sessions \ {s} : sess'[t] = sess[t]
        /\ sess'[s].req = sess[s].req /\ sess'[s].part = sess[s].part /\ sess'[s].place = sess[s].place
        /\ sess'[s].torn = sess[s].torn
    BY <1>11, AcquireSession
  <2> QED
    BY <1>1, <2>1 DEF Carries, Serving
<1>12. ASSUME NEW s \in Sessions, Connect(s) PROVE \A t \in Sessions : Carries(t)
  <2>1. /\ Goto(s, Command(sess[s].req.command)) /\ sess[s].pc = "connect"
        /\ Command(sess[s].req.command) \in {"tcp", "udp"}
    BY <1>12 DEF Connect, Places
  <2>2. \A t \in Sessions \ {s} : sess'[t] = sess[t]
    BY <1>0, <2>1 DEF Tasks, Goto
  <2> QED
    BY <1>1, <1>3, <2>1, <2>2 DEF Pcs, Serving
<1>13. ASSUME NEW s \in Sessions, UdpRead(s) \/ (\E k \in Chunks : UdpRecv(s, k)) PROVE \A t \in Sessions : Carries(t)
  <2>1. \A t \in Sessions \ {s} : sess'[t] = sess[t]
    BY <1>0, <1>13 DEF Tasks, UdpRead, UdpRecv
  <2>2. sess'[s].pc = "udp" /\ sess[s].pc = "udp" /\ sess'[s].req = sess[s].req
    BY <1>0, <1>13 DEF Tasks, UdpRead, UdpRecv
  <2>3. sess[s].part = sess[s].place \/ sess[s].torn => sess'[s].part = sess'[s].place \/ sess'[s].torn
    <3>1. CASE UdpRead(s)
      <4>1. /\ sess'[s].part = 1 - sess[s].part /\ sess'[s].place = 1 - sess[s].place
            /\ sess'[s].torn = sess[s].torn
        BY <1>0, <3>1 DEF Tasks, UdpRead
      <4> QED
        BY <4>1
    <3>2. ASSUME NEW k \in Chunks, UdpRecv(s, k) 
          PROVE  sess[s].part = sess[s].place \/ sess[s].torn => sess'[s].part = sess'[s].place \/ sess'[s].torn
      <4>1. /\ sess'[s].part = 0 /\ sess'[s].place = sess[s].place
            /\ sess'[s].torn = (sess[s].torn \/ sess[s].part = 1)
        BY <1>0, <3>2 DEF Tasks, UdpRecv
      <4>2. sess[s].part \in {0, 1}
        BY <1>0 DEF Tasks
      <4> QED
        BY <4>1, <4>2
    <3> QED
      BY <1>13, <3>1, <3>2
  <2> QED
    BY <1>1, <2>1, <2>2, <2>3 DEF Carries
<1>14. ASSUME NEW s \in Sessions, FrameRead(s) \/ Delivers(s) PROVE \A t \in Sessions : Carries(t)
  <2>1. \A t \in Sessions \ {s} : sess'[t] = sess[t]
    BY <1>0, <1>14 DEF Tasks, FrameRead, Delivers
  <2>2. /\ {sess[s].pc, sess'[s].pc} \subseteq Muxing /\ sess'[s].req = sess[s].req /\ sess'[s].part = sess[s].part
        /\ sess'[s].place = sess[s].place /\ sess'[s].torn = sess[s].torn
    BY <1>0, <1>14 DEF Tasks, FrameRead, Delivers, Muxing
  <2> QED
    BY <1>1, <2>1, <2>2 DEF Carries, Muxing, Serving
<1>15. ASSUME NEW s \in Sessions, MuxBind(s) PROVE \A t \in Sessions : Carries(t)
  <2>1. /\ \A t \in Sessions \ {s} : sess'[t] = sess[t]
        /\ sess'[s].pc \in {"muxSend", "mux"}
        /\ sess'[s].req = sess[s].req /\ sess'[s].part = sess[s].part /\ sess'[s].place = sess[s].place
        /\ sess'[s].torn = sess[s].torn
    BY <1>15, BindSession
  <2>2. sess[s].pc = "muxBind"
    BY <1>15 DEF MuxBind
  <2> QED
    BY <1>1, <2>1, <2>2 DEF Carries, Serving
<1>16. ASSUME NEW s \in Sessions, ClientGone(s) \/ Drain(s) PROVE \A t \in Sessions : Carries(t)
  <2>1. \A t \in Sessions :
          /\ sess'[t].pc = sess[t].pc /\ sess'[t].hs = sess[t].hs /\ sess'[t].req = sess[t].req
          /\ sess'[t].part = sess[t].part /\ sess'[t].place = sess[t].place /\ sess'[t].torn = sess[t].torn
    BY <1>0, <1>16 DEF Tasks, ClientGone, Drain
  <2> QED
    BY <2>1 DEF Carries
<1>17. ASSUME NEW a \in Assocs, EndAssoc(a), assoc[a] # Unused PROVE \A t \in Sessions : Carries(t)
  <2>1. \A t \in Sessions :
          /\ sess'[t].pc = sess[t].pc /\ sess'[t].hs = sess[t].hs /\ sess'[t].req = sess[t].req
          /\ sess'[t].part = sess[t].part /\ sess'[t].place = sess[t].place /\ sess'[t].torn = sess[t].torn
    BY <1>17, EndAssocSession
  <2> QED
    BY <2>1 DEF Carries
<1>18. ASSUME NEW x \in Agents, Push(x) PROVE \A t \in Sessions : Carries(t)
  <2>1. \/ UNCHANGED sess
        \/ /\ x \in Sessions /\ sess[x].pc = "response"
           /\ Idled(x) \/ Goto(x, "mux") \/ Goto(x, "permit")
    BY <1>18, PushSender
  <2>h. x \in Sessions /\ sess[x].pc = "response" => Idled(x) \/ Handled(sess[x].req)
    BY <1>18, AfterResponseType DEF Push, Idled
  <2>2. CASE x \in Sessions /\ sess[x].pc = "response" /\ (Idled(x) \/ Goto(x, "mux") \/ Goto(x, "permit"))
    <3>1. \A t \in Sessions \ {x} : sess'[t] = sess[t]
      BY <1>0, <2>2 DEF Tasks, Goto, Idled
    <3> QED
      BY <1>1, <1>2, <1>3, <2>2, <2>h, <3>1 DEF Pcs, Serving
  <2> QED
    BY <1>1, <2>1, <2>2
<1>19. ASSUME UNCHANGED sess PROVE \A t \in Sessions : Carries(t)
  BY <1>1, <1>19
<1>20. ASSUME NEW x \in Agents, LockAndSeal(x) \/ Gets(x) PROVE UNCHANGED sess
  BY <1>20 DEF LockAndSeal, Gets
<1>21. ASSUME NEW a \in Assocs, AssocMessage(a) PROVE UNCHANGED sess
  BY <1>21 DEF AssocMessage
<1>22. CASE UNCHANGED tasks
  BY <1>19, <1>22 DEF tasks
<1> QED
  BY <1>4, <1>5, <1>6, <1>7, <1>8, <1>9, <1>10, <1>11, <1>12, <1>13, <1>14, <1>15, <1>16, <1>17, <1>18, <1>19, <1>20,
     <1>21, <1>22, Kinds

\* A session that looks its ticket up found it only if nobody used it before.
LEMMA TicketStep ==
  ASSUME Typed, Places, Owned, Queued, SlotLeft, Remembered, Running
  PROVE  \A s \in Sessions : Passes(s) =>
           /\ <<sess[s].hs.t, sess[s].hs.key>> \notin accepted
           /\ sess[s].hs.t \in DOMAIN tickets
           /\ tickets[sess[s].hs.t].expires > sess[s].hs.at
<1>1. SUFFICES ASSUME NEW s \in Sessions, Passes(s)
               PROVE  /\ <<sess[s].hs.t, sess[s].hs.key>> \notin accepted
                      /\ sess[s].hs.t \in DOMAIN tickets
                      /\ tickets[sess[s].hs.t].expires > sess[s].hs.at
  OBVIOUS
<1>2. sess[s].pc = "lookup" /\ sess'[s].pc = "random"
  BY <1>1 DEF Passes
<1>3. HsLookup(s)
  BY <1>2, CarriesStep DEF Carries, HsTicket
<1>4. sess[s].hs.t \in issued /\ sess[s].hs.key \in NfsKeys /\ issued \subseteq Tickets
  BY <1>2 DEF Remembered, Typed, Cache
<1>5. Presented(tickets, sess[s].hs.t, sess[s].hs.key) = "ok"
  BY <1>2, <1>3 DEF HsLookup, Idle, Typed, Tasks
<1>6. sess[s].hs.t \in DOMAIN tickets /\ sess[s].hs.key \notin tickets[sess[s].hs.t].replay
  BY <1>5 DEF Presented
<1> QED
  BY <1>2, <1>4, <1>6 DEF Remembered


LEMMA RememberedStep ==
  ASSUME Typed, Places, Owned, Queued, SlotLeft, Remembered, Running
  PROVE  Remembered'
<1>0. /\ DOMAIN tickets \subseteq issued /\ issued \subseteq Tickets /\ now \in Nat /\ Tasks
      /\ \A t \in DOMAIN tickets : DOMAIN tickets[t] = {"expires", "replay"}
      /\ \A t \in Tickets, k \in NfsKeys : <<t, k>> \in accepted =>
           t \in issued /\ (t \in DOMAIN tickets => k \in tickets[t].replay)
      /\ \A s \in Sessions : sess[s].pc = "lookup" =>
           /\ sess[s].hs \in [t : issued, key : NfsKeys, at : Nat]
           /\ sess[s].hs.t \in DOMAIN tickets => tickets[sess[s].hs.t].expires > sess[s].hs.at
  BY DEF Typed, Cache, Remembered
<1>1. \A s \in Sessions : HsLookup(s) => sess'[s].pc # "lookup"
  BY <1>0 DEF HsLookup, Tasks, Idle
<1>2. \A s \in Sessions : sess'[s].pc = "lookup" =>
        \/ \E x \in issued, k \in NfsKeys : HsTicket(s, x, k)
        \/ sess[s].pc = "lookup" /\ sess'[s].hs = sess[s].hs
  BY <1>1, CarriesStep DEF Carries
<1> DEFINE Kept == /\ issued \subseteq issued' /\ DOMAIN tickets' \cap issued \subseteq DOMAIN tickets
                   /\ \A t \in DOMAIN tickets' : DOMAIN tickets'[t] = {"expires", "replay"}
                   /\ \A t \in DOMAIN tickets' \cap issued : /\ tickets'[t].expires = tickets[t].expires
                                                             /\ tickets[t].replay \subseteq tickets'[t].replay
<1>3. ASSUME Kept, NEW s \in Sessions, sess[s].pc = "lookup", sess'[s].hs = sess[s].hs
      PROVE  /\ sess'[s].hs \in [t : issued', key : NfsKeys, at : Nat]
             /\ sess'[s].hs.t \in DOMAIN tickets' => tickets'[sess'[s].hs.t].expires > sess'[s].hs.at
  <2>1. /\ sess[s].hs \in [t : issued, key : NfsKeys, at : Nat]
        /\ sess[s].hs.t \in DOMAIN tickets => tickets[sess[s].hs.t].expires > sess[s].hs.at
    BY <1>0, <1>3
  <2>2. sess[s].hs.t \in issued
    BY <2>1
  <2> QED
    BY <1>3, <2>1, <2>2
<1>4. ASSUME Kept, UNCHANGED accepted, \A s \in Sessions : ~\E x \in issued, k \in NfsKeys : HsTicket(s, x, k)
      PROVE  Remembered'
  <2>1. \A t \in Tickets, k \in NfsKeys : <<t, k>> \in accepted' =>
          t \in issued' /\ (t \in DOMAIN tickets' => k \in tickets'[t].replay)
    BY <1>0, <1>4
  <2> QED
    BY <1>2, <1>3, <1>4, <2>1 DEF Remembered
<1>5. ASSUME UNCHANGED <<tickets, issued, accepted>>, \A s \in Sessions : ~\E x \in issued, k \in NfsKeys : HsTicket(s, x, k)
      PROVE  Remembered'
  <2>1. Kept
    BY <1>0, <1>5
  <2> HIDE DEF Kept
  <2> QED
    BY <1>4, <1>5, <2>1
<1>6. ASSUME NEW s \in Sessions, NEW x \in issued, NEW k \in NfsKeys, HsTicket(s, x, k) PROVE Remembered'
  <2>1. /\ tickets' = CleanupTickets(tickets, now) /\ UNCHANGED <<issued, accepted>>
        /\ sess'[s].hs = [t |-> x, key |-> k, at |-> now] /\ \A t \in Sessions \ {s} : sess'[t] = sess[t]
    BY <1>0, <1>6 DEF HsTicket, Tasks
  <2>2. Kept /\ (x \in DOMAIN tickets' => tickets'[x].expires > now)
    BY <1>0, <2>1 DEF CleanupTickets
  <2>3. \A t \in Tickets, key \in NfsKeys : <<t, key>> \in accepted' =>
          t \in issued' /\ (t \in DOMAIN tickets' => key \in tickets'[t].replay)
    BY <1>0, <2>1, <2>2
  <2>4. /\ sess'[s].hs \in [t : issued', key : NfsKeys, at : Nat]
        /\ sess'[s].hs.t \in DOMAIN tickets' => tickets'[sess'[s].hs.t].expires > sess'[s].hs.at
    BY <1>0, <2>1, <2>2
  <2>5. \A t \in Sessions \ {s} : sess'[t].pc = "lookup" =>
          /\ sess'[t].hs \in [t : issued', key : NfsKeys, at : Nat]
          /\ sess'[t].hs.t \in DOMAIN tickets' => tickets'[sess'[t].hs.t].expires > sess'[t].hs.at
    BY <1>3, <2>1, <2>2
  <2> QED
    BY <2>2, <2>3, <2>4, <2>5 DEF Remembered
<1>7. ASSUME NEW s \in Sessions, NEW t \in Tickets, HsPfs(s, t) PROVE Remembered'
  <2>1. PICK life \in Lifetimes(conf.encryption) : tickets' = CreateTicket(tickets, t, life, now)
    BY <1>7 DEF HsPfs
  <2>2. issued' = issued \cup {t} /\ t \notin issued /\ UNCHANGED accepted
    BY <1>7 DEF HsPfs
  <2>3. Kept
    BY <1>0, <2>1, <2>2 DEF CreateTicket
  <2>4. \A y \in Sessions : ~\E x \in issued, k \in NfsKeys : HsTicket(y, x, k)
    BY <2>2 DEF HsTicket
  <2> QED
    BY <1>4, <2>2, <2>3, <2>4
<1>8. ASSUME NEW s \in Sessions, HsLookup(s) PROVE Remembered'
  <2>1. /\ tickets' = UseTicket(tickets, sess[s].hs.t, sess[s].hs.key) /\ UNCHANGED issued
        /\ accepted' = accepted \cup (IF Presented(tickets, sess[s].hs.t, sess[s].hs.key) = "ok"
                                      THEN {<<sess[s].hs.t, sess[s].hs.key>>} ELSE {})
        /\ sess[s].pc = "lookup" /\ \A t \in Sessions \ {s} : sess'[t] = sess[t]
    BY <1>0, <1>8 DEF HsLookup, Tasks
  <2>2. sess[s].hs \in [t : issued, key : NfsKeys, at : Nat]
    BY <1>0, <2>1
  <2> DEFINE t == sess[s].hs.t
             k == sess[s].hs.key
  <2>3. t \in issued /\ k \in NfsKeys /\ tickets' = UseTicket(tickets, t, k)
        /\ accepted' = accepted \cup (IF Presented(tickets, t, k) = "ok" THEN {<<t, k>>} ELSE {})
    BY <2>1, <2>2
  <2> HIDE DEF t, k
  <2>4. Presented(tickets, t, k) = "ok" => t \in DOMAIN tickets
    BY DEF Presented
  <2>5. Kept /\ (Presented(tickets, t, k) = "ok" => k \in tickets'[t].replay)
    BY <1>0, <2>1, <2>3, <2>4 DEF UseTicket
  <2>6. \A y \in Tickets, key \in NfsKeys : <<y, key>> \in accepted' =>
          y \in issued' /\ (y \in DOMAIN tickets' => key \in tickets'[y].replay)
    <3>1. SUFFICES ASSUME NEW y \in Tickets, NEW key \in NfsKeys, <<y, key>> \in accepted'
                   PROVE  y \in issued' /\ (y \in DOMAIN tickets' => key \in tickets'[y].replay)
      OBVIOUS
    <3>2. CASE <<y, key>> \in accepted
      BY <1>0, <2>5, <3>2
    <3>3. CASE y = t /\ key = k /\ Presented(tickets, t, k) = "ok"
      BY <2>1, <2>3, <2>5, <3>3
    <3> QED
      BY <2>3, <3>1, <3>2, <3>3
  <2>7. \A y \in Sessions : sess'[y].pc = "lookup" =>
          /\ sess'[y].hs \in [t : issued', key : NfsKeys, at : Nat]
          /\ sess'[y].hs.t \in DOMAIN tickets' => tickets'[sess'[y].hs.t].expires > sess'[y].hs.at
    BY <1>1, <1>3, <1>8, <2>1, <2>5
  <2> QED
    BY <2>5, <2>6, <2>7 DEF Remembered
<1>9. CASE Tick
  <2>1. now' # now
    BY <1>0, <1>9 DEF Tick
  <2>2. \A s \in Sessions : ~\E x \in issued, k \in NfsKeys : HsTicket(s, x, k)
    BY <2>1 DEF HsTicket
  <2> QED
    BY <1>5, <1>9, <2>2 DEF Tick
<1>10. CASE UNCHANGED cache
  BY <1>5, <1>6, <1>10 DEF cache
<1> QED
  BY <1>6, <1>7, <1>8, <1>9, <1>10, CacheKinds


\* A nonempty set of naturals has a least element.
LEMMA Least ==
  ASSUME NEW T \in SUBSET Nat, T # {}
  PROVE  \E i \in T : \A j \in T : i <= j
<1>1. PICK i \in T : \A j \in T : ~(<<j, i>> \in OpToRel(<, Nat))
  BY NatLessThanWellFounded, WFMin
<1>2. ASSUME NEW j \in T PROVE ~(j < i)
  <2>1. ~(<<j, i>> \in OpToRel(<, Nat))
    BY <1>1
  <2> QED
    BY <2>1 DEF OpToRel
<1> QED
  BY <1>2

\* A decoder that stops at the first error accepts what has none.
LEMMA FirstErrorOk ==
  ASSUME NEW errors, Len(errors) \in Nat
  PROVE  FirstError(errors) = "ok" <=> \A i \in 1 .. Len(errors) : errors[i] = "ok"
<1> DEFINE bad == {i \in 1 .. Len(errors) : errors[i] # "ok"}
<1>1. FirstError(errors) = IF bad = {} THEN "ok" ELSE errors[CHOOSE i \in bad : \A j \in bad : i <= j]
  BY DEF FirstError
<1>2. ASSUME bad # {} PROVE FirstError(errors) # "ok"
  <2>1. bad \in SUBSET Nat
    OBVIOUS
  <2>2. \E i \in bad : \A j \in bad : i <= j
    BY <1>2, <2>1, Least
  <2>3. (CHOOSE i \in bad : \A j \in bad : i <= j) \in bad
    <3> HIDE DEF bad
    <3> QED
      BY <2>2
  <2> QED
    BY <1>1, <1>2, <2>3
<1> QED
  BY <1>1, <1>2

LEMMA FieldOk ==
  ASSUME NEW f
  PROVE  FieldError(f) = "ok" <=> Readable(f)
<1> DEFINE errors == <<
    IF f.wire \in {0, 2} /\ f.value # "novarint" THEN "ok" ELSE "BadWire",
    IF Recognized(f) /\ f.len = "beyond" THEN "Truncated" ELSE "ok",
    IF Recognized(f) /\ f.len \in {"wraps", "again"} THEN "Panics" ELSE "ok",
    IF Recognized(f) /\ f.field = 1 /\ f.value = "badutf8" THEN "BadUtf8" ELSE "ok",
    IF f.wire = 2 /\ ~Recognized(f) /\ f.len = "again" THEN "Spins" ELSE "ok">>
<1>1. Len(errors) = 5 /\ Len(errors) \in Nat
  OBVIOUS
<1>2. /\ errors[1] = IF f.wire \in {0, 2} /\ f.value # "novarint" THEN "ok" ELSE "BadWire"
      /\ errors[2] = IF Recognized(f) /\ f.len = "beyond" THEN "Truncated" ELSE "ok"
      /\ errors[3] = IF Recognized(f) /\ f.len \in {"wraps", "again"} THEN "Panics" ELSE "ok"
      /\ errors[4] = IF Recognized(f) /\ f.field = 1 /\ f.value = "badutf8" THEN "BadUtf8" ELSE "ok"
      /\ errors[5] = IF f.wire = 2 /\ ~Recognized(f) /\ f.len = "again" THEN "Spins" ELSE "ok"
  OBVIOUS
<1>3. FieldError(f) = FirstError(errors)
  BY DEF FieldError
<1> HIDE DEF errors
<1>4. FieldError(f) = "ok" <=> \A i \in 1 .. 5 : errors[i] = "ok"
  BY <1>1, <1>3, FirstErrorOk
<1>5. (\A i \in 1 .. 5 : errors[i] = "ok") <=>
        errors[1] = "ok" /\ errors[2] = "ok" /\ errors[3] = "ok" /\ errors[4] = "ok" /\ errors[5] = "ok"
  OBVIOUS
<1> QED
  BY <1>2, <1>4, <1>5 DEF Readable, Recognized

LEMMA AddonsOk ==
  ASSUME NEW fields, Len(fields) \in Nat
  PROVE  DecodeAddons(fields) = "ok" <=> \A i \in 1 .. Len(fields) : Readable(fields[i])
<1> DEFINE errors == [i \in 1 .. Len(fields) |-> FieldError(fields[i])]
<1>1. Len(errors) = Len(fields)
  OBVIOUS
<1>2. \A i \in 1 .. Len(fields) : errors[i] = FieldError(fields[i])
  OBVIOUS
<1>3. DecodeAddons(fields) = FirstError(errors)
  BY DEF DecodeAddons
<1> HIDE DEF errors
<1> QED
  BY <1>1, <1>2, <1>3, FirstErrorOk, FieldOk

LEMMA HeaderOk ==
  ASSUME NEW r
  PROVE  DecodeRequestHeader(r) = "ok" <=>
           /\ r.version = 0 /\ GetShared(r.id) # {} /\ DecodeAddons(r.addons) = "ok"
           /\ Command(r.command) \notin {"none", "reverse"}
           /\ Command(r.command) \in {"tcp", "udp"} => AddressError(r.atype, r.host) = "ok"
<1> DEFINE errors == <<
    IF r.version = 0 THEN "ok" ELSE "BadVersion",
    IF GetShared(r.id) # {} THEN "ok" ELSE "AuthFailed",
    DecodeAddons(r.addons),
    IF Command(r.command) # "none" THEN "ok" ELSE "BadCommand",
    IF Command(r.command) # "reverse" THEN "ok" ELSE "ReverseUnsupported",
    IF Command(r.command) \in {"tcp", "udp"} THEN AddressError(r.atype, r.host) ELSE "ok">>
<1>1. Len(errors) = 6 /\ Len(errors) \in Nat
  OBVIOUS
<1>2. /\ errors[1] = IF r.version = 0 THEN "ok" ELSE "BadVersion"
      /\ errors[2] = IF GetShared(r.id) # {} THEN "ok" ELSE "AuthFailed"
      /\ errors[3] = DecodeAddons(r.addons)
      /\ errors[4] = IF Command(r.command) # "none" THEN "ok" ELSE "BadCommand"
      /\ errors[5] = IF Command(r.command) # "reverse" THEN "ok" ELSE "ReverseUnsupported"
      /\ errors[6] = IF Command(r.command) \in {"tcp", "udp"} THEN AddressError(r.atype, r.host) ELSE "ok"
  OBVIOUS
<1>3. DecodeRequestHeader(r) = FirstError(errors)
  BY DEF DecodeRequestHeader
<1> HIDE DEF errors
<1>4. DecodeRequestHeader(r) = "ok" <=> \A i \in 1 .. 6 : errors[i] = "ok"
  <2>1. FirstError(errors) = "ok" <=> \A i \in 1 .. Len(errors) : errors[i] = "ok"
    BY <1>1, FirstErrorOk
  <2> QED
    BY <1>1, <1>3, <2>1
<1>5. (\A i \in 1 .. 6 : errors[i] = "ok") <=>
        errors[1] = "ok" /\ errors[2] = "ok" /\ errors[3] = "ok" /\ errors[4] = "ok" /\ errors[5] = "ok" /\ errors[6] = "ok"
  OBVIOUS
<1> QED
  BY <1>2, <1>4, <1>5

\* The user found under an id with its hint zeroed is the last one with that id.
Found(raw, flow) == \E u \in GetShared(raw) : flow = u.flow
Configured(raw, flow) ==
  \E i \in 1 .. Len(Users) :
    /\ Users[i].id[1] = raw[1] /\ Users[i].flow = flow
    /\ \A j \in i + 1 .. Len(Users) : Users[j].id[1] # raw[1]

LEMMA UserFound ==
  ASSUME NEW raw, NEW flow
  PROVE  Found(raw, flow) <=> Configured(raw, flow)
<1>0. Len(Users) \in Nat
  BY DispatcherAssumption
<1>1. ASSUME NEW v PROVE ProcessUuid(v) = ProcessUuid(raw) <=> v[1] = raw[1]
  BY DEF ProcessUuid
<1> DEFINE mine == {i \in 1 .. Len(Users) : Users[i].id[1] = raw[1]}
           last(i) == \A k \in mine : k <= i
<1>2. WithKey(ProcessUuid(raw)) = mine
  BY <1>1 DEF WithKey
<1>3. GetShared(raw) = {Users[i] : i \in {j \in mine : last(j)}}
  BY <1>2 DEF GetShared
<1>4. Found(raw, flow) <=> \E i \in mine : last(i) /\ flow = Users[i].flow
  <2> HIDE DEF mine, last
  <2> QED
    BY <1>3 DEF Found
<1>5. ASSUME NEW i \in mine
      PROVE  last(i) <=> \A j \in i + 1 .. Len(Users) : Users[j].id[1] # raw[1]
  BY <1>0
<1> QED
  BY <1>4, <1>5 DEF Configured

\* What the header's decoder, serve's flow check and its match on the command let
\* through is what a configured user may have, whatever the request.
LEMMA AcceptsEntitled ==
  ASSUME NEW r, Len(r.addons) \in Nat
  PROVE  Accepts(r) /\ Handled(r) <=> Entitled(r)
<1>1. Command(r.command) \notin {"none", "reverse"} <=> r.command \in 1 .. 3
  BY DEF Command
<1>2. r.command \in 1 .. 3 => (Command(r.command) \in {"tcp", "udp"} <=> r.command # 3)
  BY DEF Command
<1>3. AddressError(r.atype, r.host) = "ok" <=>
        /\ r.atype \in 1 .. 3 /\ r.host # "short"
        /\ r.atype = 2 => r.host \notin {"empty", "badutf8"}
  BY DEF AddressError
<1>4. Found(r.id, Flow(r.addons)) => GetShared(r.id) # {}
  BY DEF Found
<1>5. Found(r.id, Flow(r.addons)) <=> Configured(r.id, Flow(r.addons))
  BY UserFound
<1>6. DecodeAddons(r.addons) = "ok" <=> \A i \in 1 .. Len(r.addons) : Readable(r.addons[i])
  BY AddonsOk
<1> DEFINE A == Found(r.id, Flow(r.addons))
           B == \A i \in 1 .. Len(r.addons) : Readable(r.addons[i])
           C == r.command \in 1 .. 3
           F == Flow(r.addons) \in {NoFlow, Vision}
           H == /\ r.atype \in 1 .. 3 /\ r.host # "short"
                /\ r.atype = 2 => r.host \notin {"empty", "badutf8"}
<1>7. DecodeRequestHeader(r) = "ok" <=> r.version = 0 /\ GetShared(r.id) # {} /\ B /\ C /\ (r.command # 3 => H)
  <2> HIDE DEF B, C, H
  <2> QED
    BY <1>1, <1>2, <1>3, <1>6, HeaderOk DEF B, C, H
<1> DEFINE G == Flow(r.addons) = NoFlow \/ (Flow(r.addons) = Vision /\ r.command = 1)
<1>8. Entitled(r) <=> r.version = 0 /\ C /\ G /\ A /\ B /\ (r.command # 3 => H)
  BY <1>5 DEF Entitled, WellFormed, Registered, Configured
<1>11. C => (G <=> F /\ Handled(r))
  <2>1. NoFlow # Vision
    BY DEF NoFlow, Vision
  <2>2. C => /\ Command(r.command) = "tcp" <=> r.command = 1
             /\ Command(r.command) \in {"udp", "mux"} <=> r.command # 1
    BY DEF Command
  <2> QED
    BY <2>1, <2>2 DEF Handled
<1>9. Accepts(r) <=> DecodeRequestHeader(r) = "ok" /\ A /\ F
  BY DEF Accepts, Found
<1>10. A => GetShared(r.id) # {}
  BY <1>4
<1> HIDE DEF A, B, C, F, G, H
<1> QED
  BY <1>7, <1>8, <1>9, <1>10, <1>11


-------------------------------------------------------------------------------
(* The theorems.                                                             *)

Safe == /\ Typed /\ Places /\ Owned /\ Queued /\ PermitsExact /\ Locked /\ Numbered
        /\ Aligned /\ Remembered /\ Admitted

\* The memory of a process that has just started, the first time or again.
Fresh ==
  /\ conf \in Scenarios /\ sess = [s \in Sessions |-> Idle] /\ chan = [s \in Sessions |-> Open]
  /\ send = [x \in Agents |-> NoSend] /\ assoc = [a \in Assocs |-> Unused]
  /\ tickets = [t \in {} |-> 0] /\ issued \subseteq Tickets /\ now \in Nat
  /\ \A t \in Tickets, k \in NfsKeys : <<t, k>> \in accepted => t \in issued
  /\ permits = conf.targets /\ waiting = <<>> /\ gauge = 0

LEMMA FreshSafe == Fresh => Safe
<1> SUFFICES ASSUME Fresh PROVE Safe
  OBVIOUS
<1>0. /\ conf \in Scenarios /\ sess = [s \in Sessions |-> Idle] /\ chan = [s \in Sessions |-> Open]
      /\ send = [x \in Agents |-> NoSend] /\ assoc = [a \in Assocs |-> Unused]
      /\ tickets = [t \in {} |-> 0] /\ issued \subseteq Tickets /\ now \in Nat
      /\ \A t \in Tickets, k \in NfsKeys : <<t, k>> \in accepted => t \in issued
      /\ permits = conf.targets /\ waiting = <<>> /\ gauge = 0
  BY DEF Fresh
<1>1. /\ \A s \in Sessions : sess[s] = Idle /\ chan[s] = Open /\ s \in Agents
      /\ \A x \in Agents : send[x] = NoSend
      /\ \A a \in Assocs : assoc[a] = Unused
  BY <1>0 DEF Agents
<1>2. /\ Idle.pc = "idle" /\ Idle.part = 0 /\ Idle.place = 0 /\ Idle.mux = NoMux /\ Idle.cur = NoCur
      /\ Idle.req = NoRequest
      /\ NoCur.a = NoOne /\ NoCur.id = 0
      /\ DOMAIN Idle = {"pc", "req", "hs", "part", "place", "torn", "mux", "cur", "gone"}
      /\ DOMAIN NoCur = {"id", "data", "a"}
  BY DEF Idle, NoCur
<1>3. /\ Open.lock = NoOne /\ Open.open = NoOne /\ Open.cipher = 0 /\ Open.n = 0 /\ Open.sink = 0 /\ ~Open.broken
      /\ DOMAIN Open = {"sink", "lock", "cipher", "n", "open", "broken", "cut"}
      /\ NoSend.left = 0 /\ NoSend.rec = NoRecord /\ Unused.owner = NoOne
  BY DEF Open, NoSend, Unused
<1>4. Tasks
  <2>1. NoMux \in [Ids -> Senders] /\ NoOne \in Senders
    BY DEF NoMux, Senders
  <2> QED
    BY <1>0, <1>1, <1>2, <2>1 DEF Tasks, Pcs
<1>5. Channels
  BY <1>0, <1>1, <1>3, Constants DEF Channels
<1>6. send \in [Agents -> Message] /\ assoc \in [Assocs -> Association]
  <2>1. NoSend \in Message /\ Unused \in Association
    BY Constants DEF NoSend, Message, NoRecord, Unused, Association
  <2> QED
    BY <1>0, <2>1
<1>7. Semaphore
  <2>1. conf.targets \in 1 .. Cardinality(Assocs) /\ Cardinality(Assocs) \in Nat
    BY <1>0, DispatcherAssumption, Constants, FS_CardinalityType
  <2>2. waiting \in Seq(Sessions)
    BY <1>0
  <2> QED
    BY <1>0, <2>1, <2>2 DEF Semaphore
<1>8. Cache
  BY <1>0 DEF Cache
<1>9. Typed
  BY <1>0, <1>4, <1>5, <1>6, <1>7, <1>8 DEF Typed
<1>10. Places
  BY <1>1, <1>2, <1>3 DEF Places, Sending
<1>11. Owned
  <2>1. NoOne \notin Assocs /\ \A i \in Ids : NoMux[i] = NoOne
    BY Constants DEF Agents, NoMux
  <2>2. \A a \in Assocs : a \in Agents
    BY DEF Agents
  <2> QED
    BY <1>1, <1>2, <1>3, <2>1, <2>2 DEF Owned
<1>12. Queued
  BY <1>0 DEF Queued
<1>13. PermitsExact
  <2>1. Holders = {} /\ Connected = {} /\ Live = {}
    BY <1>1, <1>2 DEF Holders, Connected, Live, Holds, Active
  <2>2. Cardinality({}) = 0
    BY FS_EmptySet
  <2>3. permits + Cardinality(Holders) + Cardinality(Live) = conf.targets /\ gauge = Cardinality(Connected) + Cardinality(Live)
    BY <1>0, <1>7, <2>1, <2>2 DEF Semaphore
  <2> QED
    BY <1>9, <2>3, Counts
<1>14. Locked
  BY <1>1, <1>3 DEF Locked
<1>15. Numbered
  <2>1. \A s \in Sessions : Of(s) = {}
    BY <1>1, <1>3, Constants DEF Of, Agents
  <2> QED
    BY <1>1, <1>2, <1>3, <2>1 DEF Numbered
<1>16. Aligned
  BY <1>1, <1>2 DEF Aligned
<1>17. Remembered /\ Admitted
  BY <1>0, <1>1, <1>2 DEF Remembered, Admitted, Serving
<1> QED
  BY <1>9, <1>10, <1>11, <1>12, <1>13, <1>14, <1>15, <1>16, <1>17 DEF Safe

LEMMA FreshSafeNext == Fresh' => Safe'
  BY FreshSafe, PTL

\* A panic leaves the process as it started, whatever it was doing.
LEMMA SafeRestart ==
  ASSUME Safe, Restarts
  PROVE  Safe'
<1>1. PICK s \in Sessions, r \in conf.requests : HeaderPanics(s, r)
  BY DEF Restarts
<1>2. conf \in Scenarios /\ Cache /\ Remembered
  BY DEF Safe, Typed
<1>3. Fresh'
  BY <1>1, <1>2 DEF HeaderPanics, Fresh, Cache, Remembered, MaxTargets
<1> QED
  BY <1>3, FreshSafeNext

LEMMA SafeRunning ==
  ASSUME Safe, Running
  PROVE  Safe'
<1>1. Typed /\ Places /\ Owned /\ Queued /\ PermitsExact /\ Locked /\ Numbered /\ Aligned /\ Remembered /\ Admitted
  BY DEF Safe
<1>2. SlotLeft
  BY <1>1, SlotFound
<1>3. Typed'
  BY <1>1, <1>2, TypedStep
<1>4. Places' /\ Owned' /\ Queued'
  BY <1>1, <1>2, PlacesStep, OwnedStep, QueuedStep
<1>5. PermitsExact'
  BY <1>1, <1>3, PermitsStep
<1>6. Locked' /\ Numbered'
  BY <1>1, <1>2, LockedStep, NumberedStep
<1>7. \A t \in Sessions : Carries(t)
  BY <1>1, <1>2, CarriesStep
<1>8. Aligned'
  BY <1>1, <1>7 DEF Carries, Aligned
<1>9. Admitted'
  <2>1. UNCHANGED conf
    BY ConfKept DEF Running
  <2>2. \A t \in Sessions : sess'[t].pc \in Serving => sess'[t].req \in conf'.requests /\ Accepts(sess'[t].req)
    BY <1>1, <1>7, <2>1 DEF Carries, Admitted
  <2>3. \A t \in Sessions : sess'[t].pc \in Serving \ {"response"} => Handled(sess'[t].req)
    BY <1>1, <1>7 DEF Carries, Admitted
  <2> QED
    BY <2>2, <2>3 DEF Admitted, Serving, Accepts, Handled
<1>10. Remembered'
  BY <1>1, <1>2, RememberedStep
<1> QED
  BY <1>3, <1>4, <1>5, <1>6, <1>8, <1>9, <1>10 DEF Safe

LEMMA SafeAlways == Spec => []Safe
<1>1. Init => Safe
  BY FreshSafe DEF Init, Fresh, MaxTargets
<1>2. Safe /\ [Next]_vars => Safe'
  BY SafeRunning, SafeRestart DEF Running
<1> QED
  BY <1>1, <1>2, PTL DEF Spec


\* Every variable keeps its type; there are never more permits or target
\* connections than the semaphore was made with, and no more chunks in a downlink
\* channel or messages in an association's than it holds.
THEOREM DispatcherTypeOK == Spec => []TypeOK
<1>1. Safe => TypeOK
  <2>1. SUFFICES ASSUME Safe PROVE TypeOK
    OBVIOUS
  <2>2. Typed /\ PermitsExact
    BY <2>1 DEF Safe
  <2>3. permits \in 0 .. conf.targets /\ gauge \in 0 .. conf.targets
    <3>1. Connected \subseteq Holders /\ Holders \in SUBSET Sessions
      BY DEF Connected, Holders, Holds
    <3>2. IsFiniteSet(Holders)
      BY <3>1, Constants, FS_Subset
    <3>3. Cardinality(Connected) <= Cardinality(Holders)
      BY <3>1, <3>2, FS_Subset
    <3>4. /\ Cardinality(Holders) \in Nat /\ Cardinality(Connected) \in Nat /\ Cardinality(Live) \in Nat
          /\ permits + Cardinality(Holders) + Cardinality(Live) = conf.targets
          /\ gauge = Cardinality(Connected) + Cardinality(Live)
      BY <2>2, Counts
    <3>5. permits \in Nat
      BY <2>2 DEF Typed, Semaphore
    <3> QED
      BY <3>3, <3>4, <3>5
  <2>4. /\ conf \in Scenarios /\ Tasks /\ Channels /\ send \in [Agents -> Message] /\ assoc \in [Assocs -> Association]
        /\ DOMAIN tickets \subseteq issued /\ issued \subseteq Tickets
    BY <2>2 DEF Typed, Cache
  <2>5. \A s \in Sessions :
          /\ sess[s].pc \in {"idle", "lookup", "spin"} \cup Reading \cup Replying \cup Serving
          /\ sess[s].req \in conf.requests \cup {NoRequest}
          /\ sess[s].mux \in [Ids -> Assocs \cup {NoOne, Closed}]
          /\ {sess[s].part, sess[s].place} \subseteq {0, 1}
    BY <2>4 DEF Tasks, Pcs, Senders
  <2>6. \A s \in Sessions : chan[s].sink \in 0 .. SinkCap /\ chan[s].lock \in Agents \cup {NoOne}
    BY <2>4 DEF Channels
  <2>7. \A x \in Agents : send[x] \in [left : 0 .. 2, rec : 0 .. NoRecord]
    BY <2>4 DEF Message
  <2>8. assoc \in [Assocs -> [owner : Sessions \cup {NoOne}, id : Ids \cup {0}, inbox : 0 .. InboxCap]]
    BY <2>4 DEF Association
  <2> QED
    BY <2>3, <2>4, <2>5, <2>6, <2>7, <2>8 DEF TypeOK, MaxTargets
<1> QED
  BY <1>1, SafeAlways, PTL

\* No permit of the targets semaphore is lost or given twice, and the gauge counts
\* the tasks that have a target, whatever path a task leaves by (serve_tcp,
\* serve_udp, spawn_association).
THEOREM DispatcherPermitsExact == Spec => []PermitsExact
<1>1. Safe => PermitsExact
  BY DEF Safe
<1> QED
  BY <1>1, SafeAlways, PTL

\* The client gets whole records in the order of their nonces, however many tasks
\* write to it, and the datagrams it sends are read at their boundaries
\* (ProtocolWriter::send, read_plain_datagram).
THEOREM DispatcherFramingKept == Spec => []FramingKept
<1>1. Safe => FramingKept
  BY DEF Safe, FramingKept, RecordsInOrder, DatagramsInStep, Numbered, Aligned
<1> QED
  BY <1>1, SafeAlways, PTL

\* A session that is served asked for something its user may have, and no such
\* request is turned away, by the header's decoder or after the response
\* (decode_request_header_shared, serve).
THEOREM DispatcherAccessExact == Spec => []AccessExact
<1>1. Safe => AccessExact
  <2>1. SUFFICES ASSUME Safe PROVE AccessExact
    OBVIOUS
  <2>2. \A r \in conf.requests : Len(r.addons) \in Nat
    BY <2>1, DispatcherAssumption DEF Safe, Typed
  <2>3. \A r \in conf.requests : Accepts(r) /\ Handled(r) <=> Entitled(r)
    BY <2>2, AcceptsEntitled
  <2>4. \A s \in Sessions :
          /\ sess[s].pc \in Serving => sess[s].req \in conf.requests /\ Accepts(sess[s].req)
          /\ sess[s].pc \in Serving \ {"response"} => Handled(sess[s].req)
    BY <2>1 DEF Safe, Admitted
  <2>5. "response" \in Serving
    BY DEF Serving
  <2> QED
    BY <2>3, <2>4, <2>5, AfterResponseType DEF AccessExact
<1> QED
  BY <1>1, SafeAlways, PTL

\* A 0-RTT handshake passes with a ticket that had time left, and once per ticket
\* and client key, however handshakes interleave (handshake_zero_rtt).
THEOREM DispatcherTicketsSound == Spec => TicketsSound
<1>1. Safe /\ [Next]_vars =>
        /\ [\A s \in Sessions : Passes(s) => <<sess[s].hs.t, sess[s].hs.key>> \notin accepted]_vars
        /\ [\A s \in Sessions : Passes(s) =>
              /\ sess[s].hs.t \in DOMAIN tickets
              /\ tickets[sess[s].hs.t].expires > sess[s].hs.at]_vars
  <2>1. SUFFICES ASSUME Safe, [Next]_vars
                 PROVE  \A s \in Sessions : Passes(s) =>
                          /\ <<sess[s].hs.t, sess[s].hs.key>> \notin accepted
                          /\ sess[s].hs.t \in DOMAIN tickets
                          /\ tickets[sess[s].hs.t].expires > sess[s].hs.at
    OBVIOUS
  <2>2. Typed /\ Places /\ Owned /\ Queued /\ PermitsExact /\ Remembered
    BY <2>1 DEF Safe
  <2>3. CASE Restarts
    BY <2>3 DEF Restarts, HeaderPanics, Passes, Idle
  <2>4. CASE ~Restarts
    BY <2>1, <2>2, <2>4, SlotFound, TicketStep DEF Running
  <2> QED
    BY <2>3, <2>4
<1> QED
  BY <1>1, SafeAlways, PTL DEF Spec, TicketsSound, ReplayOnce, TicketFresh

===============================================================================
