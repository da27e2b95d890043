--------------------------------- MODULE TlsConnection ---------------------------------
(***************************************************************************)
(* A connection over TLS (tls/nginx_backend.rs): the handshake, then the      *)
(* TlsStream between hyper and the socket.  Each action is one turn of a     *)
(* loop, or one call of a poll function; bytes come and go in any pieces.    *)
(***************************************************************************)
EXTENDS Origin

-------------------------------------------------------------------------------
(* The client's side of a TLS connection.                                    *)

\* Bytes of a record put on the wire by the client.
Sends(c, rec) ==
  /\ lane' = [lane EXCEPT ![c] = @ \o UnitsOf(rec)]
  /\ peer' = [peer EXCEPT ![c].sent = Append(@, rec)]
  /\ UNCHANGED <<scen, stage, tls, req, taken, got, ends>>
  /\ UNCHANGED serving /\ UNCHANGED handshaking /\ UNCHANGED writing

Writable(c) == Running(c) /\ ~peer[c].eof

\* A record of the handshake, whether those before it were read or not: plaintext
\* at any time, and once the flight is there under the handshake keys too.
ClientHandshake(c) ==
  /\ Writable(c) /\ Len(peer[c].sent) < Plan.records
  /\ \/ /\ stage[c] \in {"hello", "loaded", "flight", "finished", "stream"}
        /\ \E r \in Plan.pieces : Sends(c, r)
     \/ /\ stage[c] \in {"finished", "stream"}
        /\ \E r \in Plan.replies : Sends(c, r)

\* The records a client has sent under its application keys, and all those that the
\* handshake has left for the TlsStream to read.
Sealed(c) == SelectSeq(peer[c].sent, LAMBDA r : r.app)
Remaining(c) == SubSeq(peer[c].sent, Len(taken[c]) + 1, Len(peer[c].sent))

\* A record of application data, an alert, or one that was damaged, as soon as the
\* client has the keys: also behind its Finished, or without one.  The sequence
\* numbers start again with the application keys.
ClientRecord(c) ==
  LET n == Len(Sealed(c))
  IN /\ Writable(c) /\ stage[c] \in {"finished", "stream"} /\ ends[c] = "open"
     /\ n < Plan.appRecords
     /\ \E r \in Plan.traffic :
          Sends(c, [r EXCEPT !.seq = n, !.body = [i \in 1 .. Len(r.body) |-> <<n, i>>]])

\* The client's connection ends after k of the bytes it has sent.
ClientEof(c, k) ==
  /\ Writable(c) /\ Plan.tls /\ k \in 0 .. Len(lane[c])
  /\ lane' = [lane EXCEPT ![c] = SubSeq(@, 1, k)]
  /\ peer' = [peer EXCEPT ![c].eof = TRUE]
  /\ UNCHANGED <<scen, stage, tls, req, taken, got, ends>>
  /\ UNCHANGED serving /\ UNCHANGED handshaking /\ UNCHANGED writing

\* The client's socket takes no more bytes: every write fails.
SocketDown(c) ==
  /\ Running(c) /\ Plan.breaks /\ c \notin down
  /\ down' = down \cup {c}
  /\ UNCHANGED <<scen, stage, tls, req, wire, caller>>
  /\ UNCHANGED serving /\ UNCHANGED handshaking /\ UNCHANGED reading

\* Server::reload: the next handshakes use another identity.
Reload ==
  /\ Plan.tls /\ identity.gen < Plan.reloads
  /\ identity' = [gen |-> identity.gen + 1, alg |-> Plan.nextAlg]
  /\ UNCHANGED <<scen, stage, tls, req, hs>>
  /\ UNCHANGED serving /\ UNCHANGED reading /\ UNCHANGED writing

-------------------------------------------------------------------------------
(* NginxProfileBackend::handshake.                                           *)

\* read_tls_record has a whole record, or it never will.
RecordIn(c) == lane[c] # <<>> /\ Len(lane[c]) >= HeaderLen + lane[c][1].rec.len
FirstRecord(c) == lane[c][1].rec

\* One step of a handshake at the given stage that takes a record.
Takes(c, at) ==
  /\ Running(c) /\ stage[c] = at /\ RecordIn(c)
  /\ lane' = [lane EXCEPT ![c] = SubSeq(@, HeaderLen + @[1].rec.len + 1, Len(@))]
  /\ taken' = [taken EXCEPT ![c] = Append(@, FirstRecord(c))]
  /\ UNCHANGED <<identity, peer, got, ends>> /\ UNCHANGED writing

\* The handshake goes on at another stage, or at the same one.
GoesOn(c, at) ==
  /\ stage' = [stage EXCEPT ![c] = at]
  /\ UNCHANGED <<scen, req>> /\ UNCHANGED serving

Skipped(rec) == rec.key = "ccs" /\ rec.len <= MaxRecord

\* read_client_hello; the message is parsed, a cipher chosen and the identity
\* loaded before the next await.
ReadHello(c) ==
  /\ Takes(c, "hello")
  /\ LET rec == FirstRecord(c)
         h == hs[c].hello
         r == IF rec.len > MaxRecord THEN "error" ELSE AppendRecord(h, hs[c].had, rec.type, rec.len)
     IN \/ /\ Skipped(rec)
           /\ GoesOn(c, "hello") /\ UNCHANGED <<hs, tls>>
        \/ /\ ~Skipped(rec) /\ r = "more"
           /\ hs' = [hs EXCEPT ![c].had = @ + rec.len]
           /\ GoesOn(c, "hello") /\ UNCHANGED tls
        \/ /\ ~Skipped(rec) /\ r = "message" /\ Parses(h) /\ ChooseCipher(h) # "none"
           /\ hs' = [hs EXCEPT ![c] = [hello |-> h, had |-> @.had + rec.len, loaded |-> identity]]
           /\ GoesOn(c, "loaded") /\ UNCHANGED tls
        \/ /\ ~Skipped(rec)
           /\ r = "error" \/ (r = "message" /\ (~Parses(h) \/ ChooseCipher(h) = "none"))
           /\ TaskEnds(c) /\ UNCHANGED hs

\* prepare_server_handshake, on the identity loaded before.
Prepare(c) ==
  /\ Running(c) /\ stage[c] = "loaded"
  /\ \/ /\ Prepares(hs[c].hello, hs[c].loaded)
        /\ hs' = [hs EXCEPT ![c] = [hello |-> @.hello, had |-> @.had, loaded |-> @.loaded,
                                    flight |-> Flight(@.hello, @.loaded, identity)]]
        /\ GoesOn(c, "flight") /\ UNCHANGED tls
     \/ /\ ~Prepares(hs[c].hello, hs[c].loaded)
        /\ TaskEnds(c) /\ UNCHANGED hs
  /\ UNCHANGED identity /\ UNCHANGED reading /\ UNCHANGED writing

\* ServerHello, ChangeCipherSpec and the encrypted flight are written.
SendFlight(c) ==
  /\ Running(c) /\ stage[c] = "flight"
  /\ \/ c \notin down /\ GoesOn(c, "finished") /\ UNCHANGED tls
     \/ c \in down /\ TaskEnds(c)
  /\ UNCHANGED handshaking /\ UNCHANGED reading /\ UNCHANGED writing

\* The record opens, it is a handshake message, and its verify_data is right.
FinishedOk(rec) == Opens(NewKeys("hs"), rec) /\ rec.type = "handshake" /\ rec.msg = "good"

\* The loop that waits for the client's Finished; TlsStream::new ends it.
ReadFinished(c) ==
  /\ Takes(c, "finished") /\ UNCHANGED hs
  /\ LET rec == FirstRecord(c)
     IN \/ Skipped(rec) /\ GoesOn(c, "finished") /\ UNCHANGED tls
        \/ /\ ~Skipped(rec) /\ rec.len <= MaxRecord /\ FinishedOk(rec)
           /\ GoesOn(c, "stream")
           /\ tls' = [tls EXCEPT ![c] = NewStream]
        \/ /\ ~Skipped(rec) /\ (rec.len > MaxRecord \/ ~FinishedOk(rec))
           /\ TaskEnds(c)

\* read_exact fails: the client is gone in the middle of a handshake.
HandshakeEof(c) ==
  /\ Running(c) /\ stage[c] \in {"hello", "finished"} /\ peer[c].eof /\ ~RecordIn(c)
  /\ TaskEnds(c)
  /\ UNCHANGED handshaking /\ UNCHANGED reading /\ UNCHANGED writing

-------------------------------------------------------------------------------
(* TlsStream as an AsyncRead.                                                *)

Reads(c) == Running(c) /\ stage[c] = "stream" /\ ends[c] = "open"
ReadKeeps ==
  /\ UNCHANGED <<scen, stage, req, peer, taken>>
  /\ UNCHANGED serving /\ UNCHANGED handshaking /\ UNCHANGED writing
EndsWith(c, how) == ends' = [ends EXCEPT ![c] = how]

\* As PlainLeft, but what did not fit is gone.
PlainLeftNone(p, k) == <<>>

\* What is left of a record's plaintext after k bytes.
PlainLeft(p, k) == SubSeq(p, k + 1, Len(p))

\* Plaintext is handed over as far as the caller's buffer of n bytes has room.
PollReadPlain(c, n) ==
  LET p == tls[c].plaintext
      k == IF Len(p) < n THEN Len(p) ELSE n
  IN /\ Reads(c) /\ p # <<>>
     /\ got' = [got EXCEPT ![c] = @ \o SubSeq(p, 1, k)]
     /\ tls' = [tls EXCEPT ![c].plaintext = PlainLeft(p, k)]
     /\ ReadKeeps /\ UNCHANGED <<lane, ends>>

\* The length of the next record is known.
PollReadHeader(c) ==
  /\ Reads(c) /\ tls[c].plaintext = <<>> /\ HeaderReady(tls[c])
  /\ \/ /\ HeaderFits(tls[c])
        /\ tls' = [tls EXCEPT ![c] = HeaderRead(@)]
        /\ UNCHANGED ends
     \/ ~HeaderFits(tls[c]) /\ EndsWith(c, "error") /\ UNCHANGED tls
  /\ ReadKeeps /\ UNCHANGED <<lane, got>>

\* An empty record of application data does not end the read.
ReadsOn(rec) == rec.type = "data"

\* A complete record: data, an alert (the end of the stream) or an error.
PollReadRecord(c) ==
  LET s == tls[c]
      rec == NextRecord(s)
  IN /\ Reads(c) /\ s.plaintext = <<>> /\ RecordReady(s)
     /\ \/ /\ Opens(s.read_keys, rec) /\ ReadsOn(rec)
           /\ tls' = [tls EXCEPT ![c] = RecordOpened(s)]
           /\ UNCHANGED ends
        \/ /\ Opens(s.read_keys, rec) /\ rec.type = "alert"
           /\ tls' = [tls EXCEPT ![c] = RecordOpened(s)]
           /\ EndsWith(c, "eof")
        \/ /\ ~Opens(s.read_keys, rec) \/ ~(ReadsOn(rec) \/ rec.type = "alert")
           /\ EndsWith(c, "error") /\ UNCHANGED tls
     /\ ReadKeeps /\ UNCHANGED <<lane, got>>

NeedsInput(s) == s.plaintext = <<>> /\ ~HeaderReady(s) /\ ~RecordReady(s)

\* inner.poll_read gives k bytes.
PollReadFill(c, k) ==
  /\ Reads(c) /\ NeedsInput(tls[c]) /\ k \in 1 .. Len(lane[c])
  /\ tls' = [tls EXCEPT ![c].encrypted = @ \o SubSeq(lane[c], 1, k)]
  /\ lane' = [lane EXCEPT ![c] = SubSeq(@, k + 1, Len(@))]
  /\ ReadKeeps /\ UNCHANGED <<got, ends>>

\* inner.poll_read gives nothing: only between two records is that an end.
CleanEof(s) == s.encrypted = <<>>

PollReadEof(c) ==
  /\ Reads(c) /\ NeedsInput(tls[c]) /\ lane[c] = <<>> /\ peer[c].eof
  /\ EndsWith(c, IF CleanEof(tls[c]) THEN "eof" ELSE "error")
  /\ ReadKeeps /\ UNCHANGED <<tls, lane, got>>

-------------------------------------------------------------------------------
(* TlsStream as an AsyncWrite.  The socket takes any number of bytes, and    *)
(* none once it is down.  hyper writes and flushes, then only shuts down.    *)

WriteKeeps ==
  /\ UNCHANGED <<scen, stage, req, down>>
  /\ UNCHANGED serving /\ UNCHANGED handshaking /\ UNCHANGED reading

Writes(c) == Running(c) /\ stage[c] = "stream" /\ Plan.writes > 0
Takable(c, s) == IF c \in down THEN {0} ELSE 0 .. Len(Pending(s))
TakenBy(c, s, k) == wire' = [wire EXCEPT ![c] = @ \o SubSeq(Pending(s), 1, k)]

\* The bytes at the front did not all go: Poll::Pending, or an error.
PollStuck(c) ==
  \E k \in Takable(c, tls[c]) :
    /\ Writes(c) /\ k < Len(Pending(tls[c]))
    /\ TakenBy(c, tls[c], k)
    /\ tls' = [tls EXCEPT ![c] = FlushPending(@, k)]
    /\ WriteKeeps /\ UNCHANGED caller

\* poll_write with n bytes to write: the pending record goes first, then one new
\* record is sealed and as much of it written as the socket takes.
PollWrite(c, n) ==
  LET all == Len(Pending(tls[c]))
      kept == FlushPending(tls[c], all)
      first == caller[c].acked + 1
      size == IF n < MaxApp THEN n ELSE MaxApp
      new == Buffered(kept, "data", [i \in 1 .. size |-> first + i - 1])
  IN /\ Writes(c) /\ ~caller[c].closing /\ caller[c].acked + n <= Plan.writes
     /\ all \in Takable(c, tls[c])
     /\ \E k \in Takable(c, new) :
          /\ wire' = [wire EXCEPT ![c] = @ \o Pending(tls[c]) \o SubSeq(new.write_buf, 1, k)]
          /\ tls' = [tls EXCEPT ![c] = FlushPending(new, k)]
     /\ caller' = [caller EXCEPT ![c].acked = @ + size]
     /\ WriteKeeps

\* As FlushReady, but the result of the pending write is ignored.
FlushReadyAlways(c) == TRUE

\* poll_flush answers Ready(Ok) only after poll_flush_pending did.
FlushReady(c) == Len(Pending(tls[c])) \in Takable(c, tls[c])

PollFlush(c) ==
  /\ Writes(c) /\ ~caller[c].closing /\ FlushReady(c)
  /\ LET k == IF c \in down THEN 0 ELSE Len(Pending(tls[c]))
     IN TakenBy(c, tls[c], k) /\ tls' = [tls EXCEPT ![c] = FlushPending(@, k)]
  /\ caller' = [caller EXCEPT ![c].flushed = caller[c].acked]
  /\ WriteKeeps

\* poll_shutdown: what is pending, then close_notify once, then the socket.
PollShutdown(c) ==
  LET all == Len(Pending(tls[c]))
      kept == FlushPending(tls[c], all)
      new == IF kept.close_sent THEN kept
             ELSE [Buffered(kept, "alert", <<>>) EXCEPT !.close_sent = TRUE]
  IN /\ Writes(c) /\ ~caller[c].closed /\ all \in Takable(c, tls[c])
     /\ \E k \in Takable(c, new) :
          /\ wire' = [wire EXCEPT ![c] = @ \o Pending(tls[c]) \o SubSeq(new.write_buf, 1, k)]
          /\ tls' = [tls EXCEPT ![c] = FlushPending(new, k)]
          /\ caller' = [caller EXCEPT ![c].closing = TRUE, ![c].closed = (k = Len(new.write_buf))]
     /\ WriteKeeps

===============================================================================
