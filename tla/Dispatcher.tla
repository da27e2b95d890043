------------------------------ MODULE Dispatcher ------------------------------
(***************************************************************************)
(* What the server does with a session the table has handed over:           *)
(* dispatcher.rs, from the handshake to the last association, with the      *)
(* downlink channel (session/downlink.rs) and the ticket cache              *)
(* (encryption/handshake.rs) that its tasks share.                          *)
(*                                                                         *)
(* A session is one task; a Mux session spawns a task for every UDP         *)
(* association, which writes to the client through a clone of the session's *)
(* ProtocolWriter and outlives the session's task.  Every TCP target, UDP   *)
(* target and association holds one permit of the `targets` semaphore.      *)
(*                                                                         *)
(* Codecs are operators of Vless and Handshake; the bytes of a TCP stream   *)
(* are the subject of Wire.                                                 *)
(***************************************************************************)
EXTENDS Vless, Handshake, Integers, FiniteSets

CONSTANTS
  Sessions, Assocs,   \* tasks: sessions, and slots for associations
  NoOne,              \* no task
  Scenarios,          \* servers and loads: records [encryption, targets, starts, requests, frames]
  Hellos, Tickets, NfsKeys,  \* what a client may open a handshake with
  Ids,                \* XUDP session ids
  SinkCap, InboxCap,  \* capacity of a downlink channel, and of an association's (32)
  MaxTime             \* bound on the clock

Closed == "closed"      \* a sender whose receiver is gone

ASSUME DispatcherAssumption ==
  /\ {SinkCap, InboxCap} \subseteq Nat \ {0} /\ MaxTime \in Nat
  /\ IsFiniteSet(Sessions) /\ IsFiniteSet(Assocs) /\ Sessions \cap Assocs = {}
  /\ NoOne # Closed /\ {NoOne, Closed} \cap (Sessions \cup Assocs) = {}
  /\ \A c \in Scenarios :
       /\ c.targets \in 1 .. Cardinality(Assocs) /\ c.starts \in Nat
       /\ \A f \in c.frames : f.id \in Ids /\ f.data \in BOOLEAN
       /\ \A r \in c.requests : Len(r.addons) \in Nat
  /\ Len(Users) \in Nat

VARIABLES
  conf,       \* the scenario: encryption settings (NoEncryption, or a record for
              \* ParseEncryption), permits of the semaphore, and the bounds of the load:
              \* sessions started, request headers and XUDP frames clients may send
  sess,       \* per session: its task's place and locals
  chan,       \* per session: the downlink channel and the state of its ProtocolWriter
  send,       \* per task: the message it is sending
  assoc,      \* per association: owner, id and the messages waiting in its channel
  tickets, issued, now,
  permits, waiting, gauge,   \* the semaphore, its FIFO queue, active_target_conns
  accepted,   \* history: tickets and keys of the 0-RTT handshakes that passed
  quiet,      \* the clients and the targets have stopped sending
  starts

vars == <<conf, sess, chan, send, assoc, tickets, issued, now, permits, waiting, gauge,
          accepted, quiet, starts>>
cache == <<tickets, issued, now, accepted>>
targets == <<permits, waiting, gauge>>
bounds == <<quiet, starts>>

NoEncryption == [scheme |-> ""]
Encrypted == conf.encryption # NoEncryption
MaxTargets == conf.targets
Agents == Sessions \cup Assocs
NoRequest == [command |-> 0]
NoRecord == 2           \* nonces are kept modulo 2: two neighbours differ
NoCur == [id |-> 0, data |-> FALSE, a |-> NoOne]
NoMux == [i \in Ids |-> NoOne]
Idle == [pc |-> "idle", req |-> NoRequest, hs |-> <<>>, part |-> 0, place |-> 0,
         torn |-> FALSE, mux |-> NoMux, cur |-> NoCur, gone |-> FALSE]
NoSend == [left |-> 0, rec |-> NoRecord]
Open == [sink |-> 0, lock |-> NoOne, cipher |-> 0, n |-> 0, open |-> NoOne,
         broken |-> FALSE, cut |-> FALSE]
Unused == [owner |-> NoOne, id |-> 0, inbox |-> 0]

Reading == {"hello", "pfs", "padding", "ticket", "header"}
Replying == {"serverHello", "random", "decoy"}
TcpSteps == {"tcp", "write", "half"}
Serving == {"response", "permit", "connect", "udp", "mux", "muxPermit", "muxBind", "muxSend"}
           \cup TcpSteps

Of(s) == {a \in Assocs : assoc[a].owner = s}
Active(s) == sess[s].pc \in TcpSteps \cup {"udp"}
Holds(s) == Active(s) \/ sess[s].pc \in {"connect", "muxBind"}
Owner(x) == IF x \in Sessions THEN x ELSE assoc[x].owner

\* Dispatcher::new and with_encryption: the settings are those that parse.
Init ==
  /\ conf \in {c \in Scenarios : c.encryption = NoEncryption \/ ParseEncryption(c.encryption) = "ok"}
  /\ sess = [s \in Sessions |-> Idle] /\ chan = [s \in Sessions |-> Open]
  /\ send = [x \in Agents |-> NoSend] /\ assoc = [a \in Assocs |-> Unused]
  /\ tickets = [t \in {} |-> 0] /\ issued = {} /\ now = 0 /\ accepted = {}
  /\ permits = MaxTargets /\ waiting = <<>> /\ gauge = 0
  /\ quiet = FALSE /\ starts = 0

-------------------------------------------------------------------------------
(* How tasks begin and end.                                                  *)

\* spawn_shared, and serve up to its first await.
Start(s) ==
  /\ sess[s].pc = "idle" /\ Of(s) = {} /\ ~quiet /\ starts < conf.starts
  /\ sess' = [sess EXCEPT ![s] = [Idle EXCEPT !.pc = IF Encrypted THEN "hello" ELSE "header"]]
  /\ chan' = [chan EXCEPT ![s] = Open]
  /\ starts' = starts + 1
  /\ UNCHANGED <<conf, send, assoc, quiet>> /\ UNCHANGED cache /\ UNCHANGED targets

Goto(s, pc) == sess' = [sess EXCEPT ![s].pc = pc]

\* The task of s returns: its locals are dropped, with the permit it holds, the
\* lock, and the senders of its associations.
End(s) ==
  /\ sess' = [sess EXCEPT ![s] = [Idle EXCEPT !.gone = sess[s].gone]]
  /\ send' = [send EXCEPT ![s] = NoSend]
  /\ chan' = [chan EXCEPT ![s].lock = IF @ = s THEN NoOne ELSE @]
  /\ permits' = permits + (IF Holds(s) THEN 1 ELSE 0)
  /\ gauge' = gauge - (IF Active(s) THEN 1 ELSE 0)
  /\ UNCHANGED <<conf, assoc, waiting>> /\ UNCHANGED cache /\ UNCHANGED bounds

\* As EndAssoc, but an error skips the gauge.
EndAssocGauge(a) ==
  LET s == assoc[a].owner IN
  /\ assoc' = [assoc EXCEPT ![a] = Unused]
  /\ sess' = [sess EXCEPT ![s].mux = [i \in Ids |-> IF @[i] = a THEN Closed ELSE @[i]]]
  /\ chan' = [chan EXCEPT ![s].lock = IF @ = a THEN NoOne ELSE @]
  /\ send' = [send EXCEPT ![a] = NoSend]
  /\ permits' = permits + 1
  /\ UNCHANGED <<conf, waiting, gauge>> /\ UNCHANGED cache /\ UNCHANGED bounds

\* The task of association a ends; what it was sending is dropped where it is.
EndAssoc(a) ==
  LET s == assoc[a].owner IN
  /\ assoc' = [assoc EXCEPT ![a] = Unused]
  /\ sess' = [sess EXCEPT ![s].mux = [i \in Ids |-> IF @[i] = a THEN Closed ELSE @[i]],
                          ![s].cur = IF @.a = a THEN [@ EXCEPT !.a = Closed] ELSE @]
  /\ chan' = [chan EXCEPT ![s] = IF @.lock # a THEN @
                                  ELSE [Open EXCEPT !.sink = chan[s].sink, !.cipher = chan[s].cipher, !.cut = TRUE]]
  /\ send' = [send EXCEPT ![a] = NoSend]
  /\ permits' = permits + 1 /\ gauge' = gauge - 1
  /\ UNCHANGED <<conf, waiting>> /\ UNCHANGED cache /\ UNCHANGED bounds

-------------------------------------------------------------------------------
(* The handshake of VLESS-Encryption, between two awaits of the client.      *)

\* handshake: iv, relays and first length.
HsHello(s, h) ==
  LET next == FirstLength(conf.encryption, h) IN
  /\ sess[s].pc = "hello" /\ ~quiet /\ ~sess[s].gone
  /\ CASE next = "pfs" -> Goto(s, "pfs") /\ UNCHANGED <<send, chan, permits, gauge>>
       [] next = "zeroRtt" -> Goto(s, "ticket") /\ UNCHANGED <<send, chan, permits, gauge>>
       [] OTHER -> End(s)
  /\ UNCHANGED <<conf, assoc, waiting>> /\ UNCHANGED cache /\ UNCHANGED bounds

\* handshake: the PFS payload; the ticket is in the cache before the client
\* learns of it.
HsPfs(s, t) ==
  /\ sess[s].pc = "pfs" /\ ~quiet /\ ~sess[s].gone
  /\ t \notin issued /\ issued' = issued \cup {t}
  /\ \E life \in Lifetimes(conf.encryption) : tickets' = CreateTicket(tickets, t, life, now)
  /\ Goto(s, "serverHello")
  /\ UNCHANGED <<conf, chan, send, assoc, now, accepted>> /\ UNCHANGED targets /\ UNCHANGED bounds

\* A message of the handshake goes straight into the channel: the server hello,
\* the random of a 0-RTT handshake, or the decoy that ends one.
HsReply(s) ==
  /\ sess[s].pc \in Replying /\ ~sess[s].gone /\ chan[s].sink < SinkCap
  /\ sess' = [sess EXCEPT ![s].pc = CASE @ = "serverHello" -> "padding"
                                      [] @ = "random" -> "header"
                                      [] OTHER -> "idle",
                          ![s].hs = <<>>]
  /\ chan' = [chan EXCEPT ![s].sink = @ + 1]
  /\ UNCHANGED <<conf, send, assoc>> /\ UNCHANGED cache /\ UNCHANGED targets /\ UNCHANGED bounds

\* handshake: the client's padding.
HsPadding(s) ==
  /\ sess[s].pc = "padding" /\ ~quiet /\ ~sess[s].gone
  /\ Goto(s, "header")
  /\ UNCHANGED <<conf, chan, send, assoc>> /\ UNCHANGED cache /\ UNCHANGED targets /\ UNCHANGED bounds

\* handshake_zero_rtt: the ticket arrives, and the cache is swept.
HsTicket(s, t, key) ==
  /\ sess[s].pc = "ticket" /\ ~quiet /\ ~sess[s].gone
  /\ tickets' = CleanupTickets(tickets, now)
  /\ sess' = [sess EXCEPT ![s].pc = "lookup", ![s].hs = [t |-> t, key |-> key, at |-> now]]
  /\ UNCHANGED <<conf, chan, send, assoc, issued, now, accepted>>
  /\ UNCHANGED targets /\ UNCHANGED bounds

\* handshake_zero_rtt: the lookup, under a lock of its own.
HsLookup(s) ==
  LET h == sess[s].hs
      found == Presented(tickets, h.t, h.key)
  IN /\ sess[s].pc = "lookup"
     /\ tickets' = UseTicket(tickets, h.t, h.key)
     /\ accepted' = accepted \cup (IF found = "ok" THEN {<<h.t, h.key>>} ELSE {})
     /\ sess' = [sess EXCEPT ![s] = IF found = "Replay" THEN [Idle EXCEPT !.gone = sess[s].gone]
                                    ELSE [@ EXCEPT !.pc = IF found = "ok" THEN "random" ELSE "decoy"]]
     /\ UNCHANGED <<conf, chan, send, assoc, issued, now>> /\ UNCHANGED targets /\ UNCHANGED bounds

\* serve: a part that does not authenticate, the client's EOF, or a timeout, in
\* the handshake or in the request header.
HandshakeFails(s) == sess[s].pc \in Reading \cup Replying /\ End(s)

-------------------------------------------------------------------------------
(* ProtocolWriter::send.                                                     *)

Chunks == IF Encrypted THEN {1, 2} ELSE {1}
Sending(x) == send[x].left > 0

\* As FreeLock, but the cipher is not guarded.
FreeLockIgnored(s) == TRUE

\* state.lock().await
FreeLock(s) == chan[s].lock = NoOne

\* The lock is free: the first chunk is sealed at once.
LockAndSeal(x) ==
  LET s == Owner(x) IN
  /\ Encrypted /\ Sending(x) /\ send[x].rec = NoRecord /\ FreeLock(s)
  /\ send' = [send EXCEPT ![x].rec = chan[s].cipher]
  /\ chan' = [chan EXCEPT ![s].lock = x, ![s].cipher = (@ + 1) % 2]
  /\ UNCHANGED <<conf, sess, assoc>> /\ UNCHANGED cache /\ UNCHANGED targets /\ UNCHANGED bounds

Ready(x) == Sending(x) /\ (Encrypted => send[x].rec # NoRecord)

\* As HasRoom, but the channel is not bounded.
HasRoomAlways(s) == TRUE

HasRoom(s) == chan[s].sink < SinkCap

\* serve: the match on header.command, after the response.
AfterResponse(s) ==
  LET command == Command(sess[s].req.command)
      vision == Flow(sess[s].req.addons) = Vision
  IN CASE command = "tcp" -> "permit"
       [] command = "udp" /\ ~vision -> "permit"
       [] command = "mux" /\ ~vision -> "mux"
       [] OTHER -> "idle"     \* VisionUdpUnsupported, VisionXudpUnavailable

\* What x is about to push does not follow what the client got last.
OutOfPlace(x, c) == c.open \notin {NoOne, x} \/ (Encrypted /\ send[x].rec # c.n)

\* sink.send(record).await returns: the next chunk is sealed at once, or the
\* lock is released and the sender goes on.
Push(x) ==
  LET s == Owner(x)
      c == chan[s]
      more == send[x].left > 1
      after == IF more THEN x ELSE NoOne
  IN /\ Ready(x) /\ ~sess[s].gone /\ HasRoom(s)
     /\ send' = [send EXCEPT ![x] = IF ~more THEN NoSend ELSE [left |-> @.left - 1, rec |-> c.cipher]]
     /\ chan' = [chan EXCEPT ![s].sink = @ + 1,
                             ![s].lock = IF Encrypted THEN after ELSE @,
                             ![s].cipher = IF more THEN (@ + 1) % 2 ELSE @,
                             ![s].n = IF Encrypted /\ ~c.cut THEN (send[x].rec + 1) % 2 ELSE @,
                             ![s].open = IF c.cut THEN @ ELSE after,
                             ![s].broken = @ \/ (~c.cut /\ OutOfPlace(x, c))]
     /\ UNCHANGED <<conf, assoc, permits, gauge>> /\ UNCHANGED cache /\ UNCHANGED bounds
     /\ IF x \in Sessions /\ sess[x].pc = "response"
        THEN /\ IF AfterResponse(x) = "idle"
                THEN sess' = [sess EXCEPT ![x] = [Idle EXCEPT !.gone = sess[x].gone]]
                ELSE Goto(x, AfterResponse(x))
             /\ waiting' = IF AfterResponse(x) = "permit" THEN Append(waiting, x) ELSE waiting
        ELSE UNCHANGED <<sess, waiting>>

\* As SendFails, but the message is dropped and the task goes on.
SendFailsUnseen(x) ==
  /\ Ready(x) /\ sess[Owner(x)].gone /\ x \in Assocs
  /\ send' = [send EXCEPT ![x] = NoSend]
  /\ chan' = [chan EXCEPT ![Owner(x)].lock = NoOne]
  /\ UNCHANGED <<conf, sess, assoc>> /\ UNCHANGED cache /\ UNCHANGED targets /\ UNCHANGED bounds

\* sink.send fails: the download is gone.
SendFails(x) ==
  /\ Ready(x) /\ sess[Owner(x)].gone
  /\ IF x \in Sessions THEN End(x) ELSE EndAssoc(x)

\* The client's GET takes a chunk.
Drain(s) ==
  /\ chan[s].sink > 0
  /\ chan' = [chan EXCEPT ![s].sink = @ - 1]
  /\ UNCHANGED <<conf, sess, send, assoc>> /\ UNCHANGED cache /\ UNCHANGED targets /\ UNCHANGED bounds

-------------------------------------------------------------------------------
(* The request.                                                              *)

\* decode_request_header_shared, and the check of the flow against the user's.
Accepts(r) ==
  /\ DecodeRequestHeader(r) = "ok"
  /\ \E u \in GetShared(r.id) : Flow(r.addons) = u.flow
  /\ Flow(r.addons) \in {NoFlow, Vision}

Arrives(s) == sess[s].pc = "header" /\ ~quiet /\ ~sess[s].gone

\* serve: the header arrives; the response to an accepted one is sent next.
Header(s, r) ==
  /\ Arrives(s) /\ DecodeRequestHeader(r) \notin {"Panics", "Spins"}
  /\ IF Accepts(r)
     THEN /\ sess' = [sess EXCEPT ![s].pc = "response", ![s].req = r]
          /\ send' = [send EXCEPT ![s].left = 1]
          /\ UNCHANGED <<chan, permits, gauge>>
     ELSE End(s)
  /\ UNCHANGED <<conf, assoc, waiting>> /\ UNCHANGED cache /\ UNCHANGED bounds

\* The decoder does not come back: it has no await, so no timeout ends it.
HeaderSpins(s, r) ==
  /\ Arrives(s) /\ DecodeRequestHeader(r) = "Spins"
  /\ Goto(s, "spin")
  /\ UNCHANGED <<conf, chan, send, assoc>> /\ UNCHANGED cache /\ UNCHANGED targets /\ UNCHANGED bounds

\* The decoder panics, which aborts the process (Cargo.toml: panic = "abort");
\* the service is started again, with nothing in memory.
HeaderPanics(s, r) ==
  /\ Arrives(s) /\ DecodeRequestHeader(r) = "Panics"
  /\ sess' = [x \in Sessions |-> Idle] /\ chan' = [x \in Sessions |-> Open]
  /\ send' = [x \in Agents |-> NoSend] /\ assoc' = [a \in Assocs |-> Unused]
  /\ tickets' = [t \in {} |-> 0]
  /\ permits' = MaxTargets /\ waiting' = <<>> /\ gauge' = 0
  /\ UNCHANGED <<conf, issued, now, accepted>> /\ UNCHANGED bounds

\* acquire_owned: permits are given in the order of the queue.
Acquire(s) ==
  /\ waiting # <<>> /\ Head(waiting) = s /\ permits > 0
  /\ permits' = permits - 1 /\ waiting' = Tail(waiting)
  /\ sess' = [sess EXCEPT
       ![s].pc = IF @ = "permit" THEN "connect" ELSE "muxBind",
       \* serve_xudp: insert drops the sender of an association of the same id
       ![s].mux = IF sess[s].pc = "permit" THEN @ ELSE [@ EXCEPT ![sess[s].cur.id] = NoOne]]
  /\ UNCHANGED <<conf, chan, send, assoc, gauge>> /\ UNCHANGED cache /\ UNCHANGED bounds

\* connect_tcp_target, or resolve_address, bind and connect, within connect_timeout.
Connect(s) ==
  /\ sess[s].pc = "connect"
  /\ Goto(s, Command(sess[s].req.command))
  /\ gauge' = gauge + 1
  /\ UNCHANGED <<conf, chan, send, assoc, permits, waiting>>
  /\ UNCHANGED cache /\ UNCHANGED bounds

ConnectFails(s) == sess[s].pc = "connect" /\ End(s)

-------------------------------------------------------------------------------
(* serve_tcp: pump_tcp, its two copies in one task.                          *)

\* copy_download: the target sends; nothing is read while the last is being sent.
TcpTarget(s, k) ==
  /\ sess[s].pc \in TcpSteps /\ ~Sending(s) /\ ~quiet
  /\ send' = [send EXCEPT ![s].left = k]
  /\ UNCHANGED <<conf, sess, chan, assoc>> /\ UNCHANGED cache /\ UNCHANGED targets /\ UNCHANGED bounds

\* copy_download returns, with the target's EOF or an error.
TcpTargetEnds(s) == sess[s].pc \in TcpSteps /\ ~Sending(s) /\ ~quiet /\ End(s)

\* copy_upload: the client's bytes are read, and write_all waits until the target
\* takes them; it has no timeout, and nothing else is read from the client.
TcpUpload(s) ==
  /\ sess[s].pc = "tcp" /\ ~quiet
  /\ Goto(s, "write")
  /\ UNCHANGED <<conf, chan, send, assoc>> /\ UNCHANGED cache /\ UNCHANGED targets /\ UNCHANGED bounds

TcpTaken(s) ==
  /\ sess[s].pc = "write" /\ ~quiet
  /\ Goto(s, "tcp")
  /\ UNCHANGED <<conf, chan, send, assoc>> /\ UNCHANGED cache /\ UNCHANGED targets /\ UNCHANGED bounds

\* copy_upload: the client's EOF is passed on, and the download goes on alone.
TcpEof(s) ==
  /\ sess[s].pc = "tcp" /\ (sess[s].gone \/ ~quiet)
  /\ Goto(s, "half")
  /\ UNCHANGED <<conf, chan, send, assoc>> /\ UNCHANGED cache /\ UNCHANGED targets /\ UNCHANGED bounds

\* copy_upload fails: the download is dropped wherever it is.
TcpUploadFails(s) == sess[s].pc \in {"tcp", "write"} /\ ~quiet /\ End(s)

-------------------------------------------------------------------------------
(* serve_udp: one task that reads the client and the target in a select.     *)

\* read_plain_datagram: a length, then a body, which goes to the target.  `place`
\* is where the client's stream is, `part` where the reader believes it is.
UdpRead(s) ==
  /\ sess[s].pc = "udp" /\ ~Sending(s) /\ ~quiet /\ ~sess[s].gone
  /\ sess' = [sess EXCEPT ![s].part = 1 - @, ![s].place = 1 - @]
  /\ UNCHANGED <<conf, chan, send, assoc>> /\ UNCHANGED cache /\ UNCHANGED targets /\ UNCHANGED bounds

\* socket.recv wins the select: the read of the client is dropped, and with it
\* a length it may have consumed.
UdpRecv(s, k) ==
  /\ sess[s].pc = "udp" /\ ~Sending(s) /\ ~quiet
  /\ sess' = [sess EXCEPT ![s].part = 0, ![s].torn = @ \/ sess[s].part = 1]
  /\ send' = [send EXCEPT ![s].left = k]
  /\ UNCHANGED <<conf, chan, assoc>> /\ UNCHANGED cache /\ UNCHANGED targets /\ UNCHANGED bounds

\* The operation takes longer than udp_idle, or a read or a socket fails.
UdpEnds(s) == sess[s].pc = "udp" /\ End(s)

-------------------------------------------------------------------------------
(* serve_xudp: the task that reads frames, and the associations it spawns.   *)

\* read_frame, and the match on its status.
MuxFrame(s, f) ==
  LET status == Status(f.status)
      to == sess[s].mux[f.id]
      next(pc, cur) == sess' = [sess EXCEPT ![s].pc = pc, ![s].cur = cur]
      stays == UNCHANGED <<chan, send, permits, gauge>>
  IN /\ sess[s].pc = "mux" /\ ~quiet /\ ~sess[s].gone
     /\ CASE ReadFrame(f) # "ok" -> End(s) /\ UNCHANGED waiting
          [] ReadFrame(f) = "ok" /\ status = "new" ->
               /\ next("muxPermit", [id |-> f.id, data |-> f.data, a |-> NoOne]) /\ stays
               /\ waiting' = Append(waiting, s)
          [] ReadFrame(f) = "ok" /\ status = "keep" /\ f.data ->
               /\ IF to = NoOne \/ ~HasTarget(f) THEN End(s)
                  ELSE next("muxSend", [id |-> f.id, data |-> TRUE, a |-> to]) /\ stays
               /\ UNCHANGED waiting
          [] ReadFrame(f) = "ok" /\ status = "end" ->
               sess' = [sess EXCEPT ![s].mux[f.id] = NoOne] /\ stays /\ UNCHANGED waiting
          [] OTHER -> UNCHANGED <<sess, waiting>> /\ stays
     /\ UNCHANGED <<conf, assoc>> /\ UNCHANGED cache /\ UNCHANGED bounds

\* spawn_association: the target resolves and a socket is bound.
MuxBind(s) ==
  LET a == CHOOSE x \in Assocs : assoc[x] = Unused
      cur == sess[s].cur
  IN /\ sess[s].pc = "muxBind"
     /\ assoc' = [assoc EXCEPT ![a] = [owner |-> s, id |-> cur.id, inbox |-> 0]]
     /\ sess' = [sess EXCEPT ![s].mux[cur.id] = a,
                             ![s].pc = IF cur.data THEN "muxSend" ELSE "mux",
                             ![s].cur = IF cur.data THEN [@ EXCEPT !.a = a] ELSE NoCur]
     /\ gauge' = gauge + 1
     /\ UNCHANGED <<conf, chan, send, permits, waiting>> /\ UNCHANGED cache /\ UNCHANGED bounds

MuxBindFails(s) == sess[s].pc = "muxBind" /\ End(s)

\* tx.send: waits for room, without a timeout; a closed association ends the session.
MuxSend(s) ==
  LET a == sess[s].cur.a IN
  /\ sess[s].pc = "muxSend"
  /\ IF a = Closed THEN End(s)
     ELSE /\ assoc[a].inbox < InboxCap
          /\ assoc' = [assoc EXCEPT ![a].inbox = @ + 1]
          /\ sess' = [sess EXCEPT ![s].pc = "mux", ![s].cur = NoCur]
          /\ UNCHANGED <<conf, chan, send>> /\ UNCHANGED cache /\ UNCHANGED targets /\ UNCHANGED bounds

\* No frame within udp_idle, or the client's EOF.
MuxEnds(s) == sess[s].pc = "mux" /\ End(s)

\* rx.recv: a message for the target.
AssocMessage(a) ==
  /\ assoc[a].inbox > 0 /\ ~Sending(a)
  /\ assoc' = [assoc EXCEPT ![a].inbox = @ - 1]
  /\ UNCHANGED <<conf, sess, chan, send>> /\ UNCHANGED cache /\ UNCHANGED targets /\ UNCHANGED bounds

\* Whether some sender of a's channel is alive.
HasSender(a) ==
  LET s == sess[assoc[a].owner]
  IN (\E i \in Ids : s.mux[i] = a) \/ s.cur.a = a

\* rx.recv returns None: the session dropped its sender.
AssocClosed(a) ==
  /\ assoc[a] # Unused /\ assoc[a].inbox = 0 /\ ~Sending(a) /\ ~HasSender(a)
  /\ EndAssoc(a)

\* socket.recv_from: a packet for the client.
AssocPacket(a, k) ==
  /\ assoc[a] # Unused /\ ~Sending(a) /\ ~quiet
  /\ send' = [send EXCEPT ![a].left = k]
  /\ UNCHANGED <<conf, sess, chan, assoc>> /\ UNCHANGED cache /\ UNCHANGED targets /\ UNCHANGED bounds

\* As AssocEnds, but a packet being sent is not timed.
AssocEndsNotSending(a) == assoc[a] # Unused /\ ~Sending(a) /\ EndAssoc(a)

\* The operation, a send included, takes longer than udp_idle; or a socket fails.
AssocEnds(a) == assoc[a] # Unused /\ EndAssoc(a)

-------------------------------------------------------------------------------
(* The environment.                                                          *)

\* The client leaves: the download's receiver is dropped, the uplink ends.
ClientGone(s) ==
  /\ ~sess[s].gone /\ (sess[s].pc # "idle" \/ Of(s) # {})
  /\ sess' = [sess EXCEPT ![s].gone = TRUE]
  /\ chan' = [chan EXCEPT ![s].sink = 0]
  /\ UNCHANGED <<conf, send, assoc>> /\ UNCHANGED cache /\ UNCHANGED targets /\ UNCHANGED bounds

Silence ==
  /\ ~quiet /\ quiet' = TRUE
  /\ UNCHANGED <<conf, sess, chan, send, assoc, starts>>
  /\ UNCHANGED cache /\ UNCHANGED targets

\* Time passes; it only matters to tickets.
Tick ==
  /\ now < MaxTime /\ DOMAIN tickets # {}
  /\ now' = now + 1
  /\ UNCHANGED <<conf, sess, chan, send, assoc, tickets, issued, accepted>>
  /\ UNCHANGED targets /\ UNCHANGED bounds

\* The steps of a task.  A wait under a timeout is over when something arrives
\* or when the time is; a TCP session waits for its client and its target only.
Handshaking(s) ==
  \/ \E h \in Hellos : HsHello(s, h)
  \/ \E t \in Tickets : HsPfs(s, t)
  \/ HsReply(s) \/ HsPadding(s)
  \/ \E t \in issued, key \in NfsKeys : HsTicket(s, t, key)
  \/ HsLookup(s) \/ HandshakeFails(s)
  \/ \E r \in conf.requests : Header(s, r) \/ HeaderSpins(s, r) \/ HeaderPanics(s, r)
  \/ Acquire(s) \/ Connect(s) \/ ConnectFails(s)

Serve(s) ==
  \/ UdpRead(s) \/ (\E k \in Chunks : UdpRecv(s, k)) \/ UdpEnds(s)
  \/ (\E f \in conf.frames : MuxFrame(s, f)) \/ MuxBind(s) \/ MuxBindFails(s) \/ MuxSend(s) \/ MuxEnds(s)

Writing(x) == LockAndSeal(x) \/ Push(x) \/ SendFails(x)

SessionStep(s) == Handshaking(s) \/ Serve(s) \/ Writing(s) \/ (sess[s].gone /\ TcpEof(s))

AssocStep(a) ==
  \/ AssocMessage(a) \/ AssocClosed(a) \/ AssocEnds(a) \/ Writing(a)
  \/ \E k \in Chunks : AssocPacket(a, k)

Environment(s) ==
  \/ Start(s) \/ ClientGone(s) \/ Drain(s)
  \/ \E k \in Chunks : TcpTarget(s, k)
  \/ TcpTargetEnds(s) \/ TcpUpload(s) \/ TcpTaken(s) \/ TcpEof(s) \/ TcpUploadFails(s)

Next ==
  \/ \E s \in Sessions : SessionStep(s) \/ Environment(s)
  \/ \E a \in Assocs : AssocStep(a)
  \/ Silence \/ Tick

Spec == Init /\ [][Next]_vars

\* Tokio polls every task that can go on.
Fairness ==
  /\ \A s \in Sessions : WF_vars(SessionStep(s))
  /\ \A a \in Assocs : WF_vars(AssocStep(a))

FairSpec == Spec /\ Fairness

-------------------------------------------------------------------------------
(* Properties.                                                               *)

TypeOK ==
  /\ conf \in Scenarios
  /\ \A s \in Sessions :
       /\ sess[s].pc \in {"idle", "lookup", "spin"} \cup Reading \cup Replying \cup Serving
       /\ sess[s].req \in conf.requests \cup {NoRequest}
       /\ sess[s].mux \in [Ids -> Assocs \cup {NoOne, Closed}]
       /\ {sess[s].part, sess[s].place} \subseteq {0, 1}
       /\ chan[s].sink \in 0 .. SinkCap
       /\ chan[s].lock \in Agents \cup {NoOne}
  /\ \A x \in Agents : send[x] \in [left : 0 .. 2, rec : 0 .. NoRecord]
  /\ assoc \in [Assocs -> [owner : Sessions \cup {NoOne}, id : Ids \cup {0}, inbox : 0 .. InboxCap]]
  /\ permits \in 0 .. MaxTargets /\ gauge \in 0 .. MaxTargets
  /\ DOMAIN tickets \subseteq issued /\ issued \subseteq Tickets

HeldByTcp == Cardinality({s \in Sessions : sess[s].pc \in TcpSteps})

\* No permit is lost or given twice, whatever path a task leaves by, and the
\* gauge of target connections counts the tasks that have one (serve_tcp,
\* serve_udp, spawn_association).
PermitsExact ==
  LET live == {a \in Assocs : assoc[a] # Unused}
  IN /\ permits + Cardinality({s \in Sessions : Holds(s)}) + Cardinality(live) = MaxTargets
     /\ gauge = Cardinality({s \in Sessions : Active(s)}) + Cardinality(live)

\* A header asks for something a configured user may have: the reference for
\* what decode_request_header_shared, serve's flow check and its match on the
\* command decide together.  Of several users with the same id the last counts.
Readable(f) ==
  /\ f.wire \in {0, 2} /\ f.value # "novarint"
  /\ f.wire = 2 /\ f.field \in {1, 2} => f.len \notin {"beyond", "wraps"}
  /\ f.wire = 2 /\ f.field = 1 => f.value # "badutf8"
  /\ f.wire = 2 => f.len # "again"
Registered(r) ==
  \E i \in 1 .. Len(Users) :
    /\ Users[i].id[1] = r.id[1] /\ Users[i].flow = Flow(r.addons)
    /\ \A j \in i + 1 .. Len(Users) : Users[j].id[1] # r.id[1]
WellFormed(r) ==
  /\ r.version = 0 /\ r.command \in 1 .. 3
  /\ \A i \in 1 .. Len(r.addons) : Readable(r.addons[i])
  /\ r.command # 3 => /\ r.atype \in 1 .. 3 /\ r.host # "short"
                      /\ r.atype = 2 => r.host \notin {"empty", "badutf8"}
Entitled(r) ==
  /\ WellFormed(r) /\ Registered(r)
  /\ Flow(r.addons) = NoFlow \/ (Flow(r.addons) = Vision /\ r.command = 1)

\* A session beyond the response is served what its user may have, and a request
\* for that is not turned away: not with the header, and not with the command
\* after the response, where Vision with UDP or Mux ends (serve).
AccessExact ==
  \A s \in Sessions :
    /\ sess[s].pc \in Serving \ {"response"} => Entitled(sess[s].req)
    /\ sess[s].pc = "response" => (Entitled(sess[s].req) <=> AfterResponse(s) # "idle")
    /\ sess[s].pc = "header" => \A r \in conf.requests : Entitled(r) => Accepts(r)

\* The client gets the records of a session in the order of their nonces, and
\* the records of one message together, although several tasks write to it; up to
\* the first time a task is stopped by its idle timeout within ProtocolWriter::send
\* (`cut`), which loses a record the cipher has counted.
RecordsInOrder == \A s \in Sessions : ~chan[s].broken

\* serve_udp reads the client's datagrams at their boundaries, as long as no
\* packet from the target interrupts the read of one.
DatagramsInStep ==
  \A s \in Sessions : sess[s].pc = "udp" => sess[s].part = sess[s].place \/ sess[s].torn

Passes(s) == sess[s].pc = "lookup" /\ sess'[s].pc = "random"

\* However handshakes interleave, a ticket opens one 0-RTT session per client
\* key (handshake_zero_rtt).
ReplayOnce ==
  [][\A s \in Sessions : Passes(s) => <<sess[s].hs.t, sess[s].hs.key>> \notin accepted]_vars

\* A ticket that passes had time left when its handshake swept the cache.
TicketFresh ==
  [][\A s \in Sessions : Passes(s) =>
       /\ sess[s].hs.t \in DOMAIN tickets
       /\ tickets[sess[s].hs.t].expires > sess[s].hs.at]_vars

\* A decoder has taken a worker thread for itself: the runtime no longer promises
\* the other tasks anything.
Stalled == \E s \in Sessions : sess[s].pc = "spin"

\* A client that leaves gives its targets back: only a TCP session may keep its
\* permit, while it waits for its target, which does not take the last bytes
\* (copy_upload's write_all) or says nothing (pump_tcp waits for copy_download).
Released ==
  \A s \in Sessions :
    sess[s].gone ~> \/ Of(s) = {} /\ ~Holds(s)
                    \/ sess[s].pc \in {"write", "half"}
                    \/ ~sess[s].gone \/ Stalled

\* Once nothing arrives any more, timeouts give every permit back that TCP does
\* not hold, and nobody waits for one that is free: neither a Mux task that waits
\* for a permit its own associations hold, nor one that waits for the channel of
\* a busy association.
Quiesces ==
  quiet ~> \/ Stalled
           \/ /\ permits + HeldByTcp = MaxTargets
              /\ permits > 0 => waiting = <<>>
              /\ \A s \in Sessions : sess[s].pc \notin {"mux", "muxSend", "udp"}

\* Both directions of a session keep their framing: the records the client gets
\* and the datagrams it sends.
FramingKept == RecordsInOrder /\ DatagramsInStep

\* A 0-RTT handshake passes with a live ticket, once per ticket and client key.
TicketsSound == ReplayOnce /\ TicketFresh

===============================================================================
