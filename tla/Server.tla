--------------------------------- MODULE Server ---------------------------------
(***************************************************************************)
(* The origin as a whole: Origin, TlsConnection and Requests together, and    *)
(* what must hold of them.                                                   *)
(***************************************************************************)
EXTENDS Requests

-------------------------------------------------------------------------------
ConnStep(c) ==
  \/ Connect(c) \/ Accept(c) \/ Join(c)
  \/ Cancelled(c) \/ HandshakeTimeout(c) \/ ConnectionOver(c) \/ HandlerReset(c)
  \/ ClientHandshake(c) \/ ClientRecord(c) \/ SocketDown(c)
  \/ \E k \in 0 .. Len(lane[c]) : ClientEof(c, k)
  \/ ReadHello(c) \/ Prepare(c) \/ SendFlight(c) \/ ReadFinished(c) \/ HandshakeEof(c)
  \/ \E n \in 1 .. 2 : PollReadPlain(c, n)
  \/ PollReadHeader(c) \/ PollReadRecord(c) \/ PollReadEof(c)
  \/ \E k \in 1 .. Len(lane[c]) : PollReadFill(c, k)
  \/ \E n \in 1 .. MaxApp + 1 : PollWrite(c, n)
  \/ PollStuck(c) \/ PollFlush(c) \/ PollShutdown(c)
  \/ Handle(c) \/ BodyEnd(c) \/ BodyError(c) \/ DownloadOver(c)
  \/ \E n \in 0 .. MaxPost + 1 : BodyFrame(c, n)
  \/ \E result \in DOMAIN PushStatus : Push(c, result)

Next ==
  \/ AcceptTransient \/ BackoffOver \/ AcceptFatal
  \/ Signal \/ Shutdown \/ Drained \/ Deadline
  \/ Reload
  \/ \E c \in Conns : ConnStep(c)

Spec == Init /\ [][Next]_vars

\* select! polls its branches in random order, so a signal that is there is not
\* passed over for ever, however often accept is ready too; timers fire; the
\* runtime runs every task that can run.
FairSpec ==
  /\ Spec
  /\ SF_vars(Shutdown)
  /\ WF_vars(BackoffOver) /\ WF_vars(Drained) /\ WF_vars(Deadline)
  /\ \A c \in Conns : WF_vars(Join(c)) /\ WF_vars(Cancelled(c))

-------------------------------------------------------------------------------
(* Properties.                                                               *)

\* When serve has returned after a shutdown, no connection's task is left behind,
\* whether it ended by itself, before or after the deadline, or was aborted.
NoneLeft == loop = "returned" => Unjoined = {}

\* What a handshake has read are the first records its client has sent, in order.
TakenInOrder ==
  \A c \in Conns : IsPrefix(taken[c], peer[c].sent)

\* The bytes of plaintext handshake messages among some records.
HelloBytes(recs) ==
  Total([i \in 1 .. Len(recs) |-> recs[i].len],
        {i \in 1 .. Len(recs) : recs[i].key = "plain" /\ recs[i].type = "handshake"})

\* A handshake goes past the ClientHello exactly when it has read it in full, in
\* whatever pieces, and then accepts no other plaintext handshake message: what a
\* client sends behind its ClientHello is not part of it.
HelloWhole ==
  \A c \in Conns : stage[c] \in {"loaded", "flight", "finished", "stream"} =>
    /\ hs[c].hello.msg = "client_hello"
    /\ HelloBytes(taken[c]) = MsgHeader + hs[c].hello.len
    /\ HelloBytes(taken[c]) <= MaxHello

\* What the flight says can be verified by the client that gets it: the cipher,
\* protocol and scheme are ones it offered, and the signature was made with the
\* key of the certificate it was sent, even if the identity was replaced meanwhile.
FlightSound ==
  \A c \in Conns : stage[c] \in {"flight", "finished", "stream"} =>
    LET f == hs[c].flight
        h == hs[c].hello
        fits == [rsa |-> {"pss256", "pss384", "pss512"}, p256 |-> {"ecdsa256"},
                 p384 |-> {"ecdsa384"}, ed25519 |-> {"ed25519"}]
    IN /\ Contains(h.suites, f.suite)
       /\ f.alpn = "none" \/ (Contains(OfferedAlpn(h), f.alpn) /\ Contains(AlpnOrder, f.alpn))
       /\ Contains(Signatures(h), f.scheme)
       /\ f.signer.gen = f.cert /\ f.scheme \in fits[f.signer.alg]

\* No connection reaches HTTP over TLS unless its client has proved, with a
\* Finished under the handshake keys, that it saw the server's flight.  That is the
\* last record the handshake reads: what comes behind it is left to the stream.
ClientVerified ==
  \A c \in Conns : (Plan.tls /\ stage[c] \in {"stream", "http"}) =>
    LET n == Len(taken[c])
    IN n > 0 /\ taken[c][n].key = "hs" /\ taken[c][n].msg = "good"

\* Bytes that end a record; the first n bytes contain that many of them, and so
\* much plaintext in the records they end.
Ends(u) == u.at = HeaderLen + u.rec.len
Ended(bytes, n) == {i \in 1 .. n : Ends(bytes[i])}
Carried(bytes, n) == Total([i \in 1 .. n |-> Len(bytes[i].rec.body)], Ended(bytes, n))

\* Bytes that are whole records in order, each with the next sequence number; they
\* carry the numbers up to acked, and an alert ends them exactly if close is set.
RecordStream(bytes, acked, close) ==
  /\ \A i \in 1 .. Len(bytes) :
       LET u == bytes[i]
           r == u.rec
       IN /\ IF i = 1 \/ Ends(bytes[i - 1])
             THEN /\ u.at = 1 /\ r.key = "server" /\ r.seq = Cardinality(Ended(bytes, i - 1))
                  /\ r.body = [k \in 1 .. Len(r.body) |-> Carried(bytes, i - 1) + k]
             ELSE u = [rec |-> bytes[i - 1].rec, at |-> bytes[i - 1].at + 1]
          /\ Ends(u) => (r.type = "alert" <=> (i = Len(bytes) /\ close))
          /\ i = Len(bytes) => Ends(u)
  /\ Carried(bytes, Len(bytes)) = acked

\* The bytes of the connection written so far and those that wait in the buffer
\* are whole records in order, each with the next sequence number; they carry
\* exactly the bytes hyper was told are written, and nothing after close_notify.
WriteExact ==
  \A c \in Conns :
    RecordStream(wire[c] \o Pending(tls[c]), caller[c].acked, tls[c].close_sent)

\* A flush or a shutdown that succeeded means that everything written before it
\* has left, also when an earlier write had ignored an error of the socket.
FlushHonest ==
  \A c \in Conns :
    LET n == Len(wire[c])
    IN /\ Carried(wire[c], n) >= caller[c].flushed
       /\ caller[c].closed => /\ Carried(wire[c], n) = caller[c].acked
                              /\ n > 0 /\ Ends(wire[c][n]) /\ wire[c][n].rec.type = "alert"

\* The first k of the client's records, their data and all the data before the i-th.
Good(rec) == rec.type = "data" /\ rec.key = "client" /\ rec.len <= MaxRecord
DataBefore(recs, i) == Total([j \in 1 .. i - 1 |-> Len(recs[j].body)], 1 .. i - 1)
DataOf(recs, k, data) ==
  /\ \A i \in 1 .. k : Good(recs[i])
  /\ Len(data) = DataBefore(recs, k + 1)
  /\ \A i \in 1 .. k : \A j \in 1 .. Len(recs[i].body) :
       data[DataBefore(recs, i) + j] = recs[i].body[j]

\* What was read, and what waits to be read, is the data of the client's first
\* records after the handshake, in full and in order, whether they were sent before
\* the handshake had ended or after, and however they were cut on their way; no
\* damaged record contributes to it, nor one after it.
ReadExact ==
  \A c \in Conns : \E k \in 0 .. Len(Remaining(c)) :
    DataOf(Remaining(c), k, got[c] \o tls[c].plaintext)

\* The end of the stream is reported only when the client closed it: by an alert
\* after all the data before it was read, or between two records, when nothing is
\* left of what the client's socket has delivered.
EofHonest ==
  \A c \in Conns : ends[c] = "eof" =>
    \/ \E k \in 0 .. Len(Remaining(c)) - 1 :
         /\ DataOf(Remaining(c), k, got[c])
         /\ Remaining(c)[k + 1].type = "alert" /\ Remaining(c)[k + 1].key = "client"
    \/ peer[c].eof /\ tls[c].encrypted = <<>> /\ lane[c] = <<>>

\* What an upload pushes is its header payload, its cookie payload and its body in
\* that order, complete, and within the limit, however the body was framed.
UploadExact ==
  \A c \in Conns :
    LET q == req[c]
    IN q.at = "push" \/ (q.at = "done" /\ q.pushed) =>
         /\ q.payload = Bytes("header", HeaderPayload(Plan.placement, q.r).len)
                          \o Bytes("cookie", CookiePayload(Plan.placement, q.r).len)
                          \o Bytes("body", SumFrames(q))
         /\ Len(q.payload) <= MaxPost

\* Chunks of text of some unpadded base64, and the bytes they stand for if the
\* placement reads them.
Formed(chunks) ==
  (\A i \in 1 .. Len(chunks) : chunks[i].text) /\ SumLen(chunks, Len(chunks)) % 4 # 1
Decoded(where, chunks) ==
  IF Placed(Plan.placement, where) THEN (SumLen(chunks, Len(chunks)) * 3) \div 4 ELSE 0

\* An upload that is complete, well formed and within the limit.
Proper(q) ==
  /\ ~q.broken /\ q.r.alphabet /\ Formed(q.r.headers) /\ Formed(q.r.cookies)
  /\ q.r.hint <= MaxPost
  /\ Decoded("header", q.r.headers) + Decoded("cookie", q.r.cookies) + SumFrames(q) <= MaxPost

\* A well formed upload within the limit is never refused for its size or form.
NeverRefused ==
  \A c \in Conns :
    (req[c].at = "done" /\ req[c].kind = "upload" /\ Proper(req[c]))
      => req[c].reply.status \notin {400, 413}

\* What a request asks for: where its padding is and how long it is, an escape of
\* three marks counting as one; its path and host; the parts of its path.
Padding(r) == IF r.referer.given THEN r.referer ELSE r.query
MarkLen(v) == Len(v) - 2 * Cardinality({i \in 1 .. Len(v) :
                i + 2 <= Len(v) /\ SubSeq(v, i, i + 2) = <<"%", "h", "h">>})
Padded(r) == LET len == MarkLen(Padding(r).value)
             IN Padding(r).param /\ len > 0 /\ PadFrom <= len /\ len <= PadTo
Here(r) == /\ ~r.big /\ r.path = "base"
           /\ Plan.host => "same" = (IF r.host = "none" THEN r.authority ELSE r.host)
Session(r) == r.segs # <<>> /\ r.segs[1] # ""
Sequenced(r) == Len(r.segs) >= 2 /\ r.segs[2] # ""
Website(r) == ~r.big /\ r.path \notin {"/healthz", "/readyz"}
XReply(status) == [status |-> status, body |-> FALSE, padded |-> TRUE]

\* Only a request for the base path and host that carries padding of the right
\* decoded length is an upload or opens a download.  One with that padding in any
\* other form is refused with padding, and an OPTIONS for that path and host is
\* answered with padding whether it carries some or not, although
\* docs/static-fallback.md lets only requests with padding enter XHTTP and gives
\* other methods 405 without padding.  All the rest, requests with too many headers
\* and for the health endpoints aside, gets what the static site answers.
Routing ==
  \A c \in Conns : req[c].at # "none" =>
    LET q == req[c]
        r == q.r
        options == r.method = "OPTIONS"
        upload == /\ Here(r) /\ Padded(r) /\ ~options
                  /\ Session(r) /\ Sequenced(r) /\ r.segs[2] # "bad"
        download == /\ Here(r) /\ Padded(r) /\ r.method = "GET"
                    /\ Session(r) /\ ~Sequenced(r)
    IN /\ q.kind = "upload" <=> upload
       /\ q.kind = "download" <=> download
       /\ Here(r) /\ options => q.reply = XReply(200)
       /\ Here(r) /\ Padded(r) /\ ~options /\ ~upload /\ ~download
            => q.reply = XReply(IF Session(r) /\ Sequenced(r) THEN 500 ELSE 400)
       /\ Website(r) /\ (~Here(r) \/ (~Padded(r) /\ ~options)) => q.reply = SiteReply(r)

\* A signal ends serve, whatever accept does and however long clients stay.
ShutsDown == signal ~> loop \in {"returned", "failed"}

\* A connection that TLS hands to HTTP went through one whole ClientHello, a flight
\* its client can verify, and the client's proof that it did, all of them among the
\* first records of that client and with none of its records passed over.
HandshakeSound == TakenInOrder /\ HelloWhole /\ FlightSound /\ ClientVerified

\* hyper is told the truth about its writes: what is written, flushed and closed.
WritesHonest == WriteExact /\ FlushHonest

\* hyper is told the truth about its reads: the client's bytes, and their end.
ReadsHonest == ReadExact /\ EofHonest

\* An upload is pushed exactly as it was sent if it is well formed and within the
\* limit, and not at all otherwise.
UploadsExact == UploadExact /\ NeverRefused

===============================================================================
