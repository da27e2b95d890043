--------------------------------- MODULE Requests ---------------------------------
(***************************************************************************)
(* The handler of one request (origin.rs: handle, upload, finish_upload,      *)
(* read_body_payload, download), from await to await.  What a push or an     *)
(* open does to the session table is in SessionTable and Reorder; here it is *)
(* one call with any of its results.                                         *)
(***************************************************************************)
EXTENDS TlsConnection

-------------------------------------------------------------------------------
(* handle: the request, until its first await.                               *)

\* Which branch a request takes.
Route(r) ==
  CASE r.big -> "too_large"
    [] ~r.big /\ r.path \in {"/healthz", "/readyz"} -> "health"
    [] ~r.big /\ r.path \notin {"/healthz", "/readyz"} ->
         CASE r.path # "base" \/ ~HostMatches(Plan.host, r) -> "site"
           [] r.path = "base" /\ HostMatches(Plan.host, r) ->
                IF r.method # "OPTIONS" /\ ~PaddingValid(r) THEN "site" ELSE Classify(r)

\* The handler after its answer; XHTTP answers carry padding.
Answer(q, status, padded) ==
  [q EXCEPT !.at = "done", !.reply = [status |-> status, body |-> FALSE, padded |-> padded]]
XAnswer(q, status) == Answer(q, status, TRUE)

\* finish_upload, up to the push.
Finish(q, payload) ==
  IF Len(payload) > MaxPost THEN XAnswer(q, 413)
  ELSE [q EXCEPT !.at = "push", !.payload = payload]

\* upload, up to the first frame of the body.
Upload(q) ==
  LET h == HeaderPayload(Plan.placement, q.r)
      k == CookiePayload(Plan.placement, q.r)
      payload == Bytes("header", h.len) \o Bytes("cookie", k.len)
  IN CASE h.err # 0 -> XAnswer(q, h.err)
       [] h.err = 0 /\ k.err # 0 -> XAnswer(q, k.err)
       [] h.err = 0 /\ k.err = 0 ->
            IF ~Placed(Plan.placement, "body") THEN Finish(q, payload)
            ELSE IF q.r.hint > MaxPost THEN XAnswer(q, 413)
            ELSE [q EXCEPT !.at = "body", !.payload = payload]

NewHandler(r) ==
  [at |-> "new", r |-> r, kind |-> Route(r), payload |-> <<>>, body |-> <<>>, frames |-> <<>>,
   broken |-> FALSE, pushed |-> FALSE, opened |-> FALSE, removed |-> FALSE,
   reply |-> [status |-> 0, body |-> FALSE, padded |-> FALSE]]

HandlerKeeps ==
  /\ UNCHANGED <<scen, stage, tls>>
  /\ UNCHANGED serving /\ UNCHANGED handshaking /\ UNCHANGED reading /\ UNCHANGED writing

Becomes(c, q) == req' = [req EXCEPT ![c] = q]

\* A request arrives and is routed.
Handle(c) ==
  /\ Running(c) /\ stage[c] = "http" /\ req[c].at = "none"
  /\ \E r \in Plan.requests :
       LET q == NewHandler(r)
       IN \/ q.kind = "too_large" /\ Becomes(c, Answer(q, 431, FALSE))
          \/ q.kind = "health" /\ Becomes(c, [Answer(q, 200, FALSE) EXCEPT !.reply.body = TRUE])
          \/ q.kind = "site" /\ Becomes(c, [q EXCEPT !.at = "done", !.reply = SiteReply(r)])
          \/ q.kind = "options" /\ Becomes(c, XAnswer(q, 200))
          \/ q.kind = "unsupported" /\ Becomes(c, XAnswer(q, 500))
          \/ q.kind \in {"stream_up", "stream_one"} /\ Becomes(c, XAnswer(q, 400))
          \/ q.kind = "upload" /\ Becomes(c, Upload(q))
          \/ q.kind = "download"
               /\ \/ Becomes(c, [XAnswer(q, 200) EXCEPT !.at = "stream", !.opened = TRUE,
                                                     !.reply.body = TRUE])
                  \/ \E status \in {409, 503} : Becomes(c, XAnswer(q, status))
  /\ HandlerKeeps

\* The handler's own steps: in HTTP/2 they go on while its connection ends.
HandlerStep(c, at, n) ==
  /\ req[c].at = at /\ (Running(c) \/ Plan.h2)
  /\ Becomes(c, n)
  /\ HandlerKeeps

\* read_body_payload: frames in the order they came.
Collected(body, data) == body \o data

SumFrames(q) == Total(q.frames, 1 .. Len(q.frames))

\* A data frame of n bytes; hyper never gives more than was declared.
BodyFrame(c, n) ==
  /\ Handling(c) /\ req[c].at = "body"
  /\ LET q == req[c]
         total == SumFrames(q) + n
         read == [q EXCEPT !.frames = Append(@, n)]
         data == [i \in 1 .. n |-> <<"body", SumFrames(q) + i>>]
     IN /\ Len(q.frames) < Plan.frames
        /\ q.r.hint = NoHint \/ total <= q.r.hint
        /\ HandlerStep(c, "body",
             IF total > MaxPost THEN XAnswer(read, 413)
             ELSE [read EXCEPT !.body = IF n = 0 THEN @ ELSE Collected(@, data)])

\* The body ends where it should, ...
BodyEnd(c) ==
  /\ Handling(c) /\ req[c].at = "body"
  /\ req[c].r.hint \in {NoHint, SumFrames(req[c])}
  /\ HandlerStep(c, "body", Finish(req[c], req[c].payload \o req[c].body))

\* ... or it fails: the client's stream was cut.
BodyError(c) ==
  /\ Handling(c) /\ req[c].at = "body"
  /\ HandlerStep(c, "body", [XAnswer(req[c], 400) EXCEPT !.broken = TRUE])

\* The answers to the results of push_uplink.
PushStatus == [accepted |-> 200, duplicate |-> 200, too_many |-> 500,
               over_budget |-> 503, closed |-> 409, no_session |-> 503]

\* finish_upload after push_uplink; a session with too much pending is removed.
Push(c, result) ==
  /\ Handling(c) /\ req[c].at = "push"
  /\ HandlerStep(c, "push", [XAnswer(req[c], PushStatus[result])
                               EXCEPT !.pushed = TRUE, !.removed = (result = "too_many")])

\* The downlink channel is closed: unfold drops its state.
DownloadOver(c) ==
  /\ Handling(c) /\ req[c].at = "stream"
  /\ HandlerStep(c, "stream", Dropped(req[c]))

===============================================================================
