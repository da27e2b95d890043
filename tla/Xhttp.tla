--------------------------------- MODULE Xhttp ---------------------------------
(***************************************************************************)
(* What the origin makes of an HTTP request, as operators:                  *)
(*   xhttp/mod.rs      path, host, session id and sequence number;          *)
(*   xhttp/padding.rs  the padding a client must bring;                     *)
(*   origin.rs         payloads in headers and cookies, size limits;        *)
(*   site.rs           the static answer to everything else.                *)
(* A request is a record; text is abstracted to what these functions tell   *)
(* apart.  An encoded payload is the list of its chunks' lengths.           *)
(***************************************************************************)
EXTENDS Integers, Sequences, FiniteSets, FiniteSetsExt, Totals

CONSTANTS
  MaxPost,       \* max_each_post_bytes
  PadFrom, PadTo,\* xPaddingBytes
  Assets         \* paths the static site knows

NoHint == -1     \* a body without a declared length

-------------------------------------------------------------------------------
(* Path, host, classification.                                               *)

\* extract_meta_from_path_borrowed: "" for a segment that is missing; a segment
\* beyond the second is ignored.
Segment(r, k) == IF k <= Len(r.segs) THEN r.segs[k] ELSE ""
HasSession(r) == Segment(r, 1) # ""
HasSeq(r) == Segment(r, 2) # ""

\* host_matches: the Host header, else the authority of the target, else nothing.
\* "same" stands for every spelling that differs in case or port only.
HostMatches(configured, r) ==
  ~configured \/ (IF r.host # "none" THEN r.host ELSE r.authority) = "same"

\* classify_borrowed; "bad" stands for digits that are no u64.
Classify(r) ==
  LET uplink == r.method # "GET" \/ HasSeq(r)
  IN CASE r.method = "OPTIONS" -> "options"
       [] OTHER ->
            CASE uplink /\ HasSession(r) ->
                   (IF ~HasSeq(r) THEN "stream_up"
                    ELSE IF Segment(r, 2) = "bad" THEN "unsupported" ELSE "upload")
              [] ~(uplink /\ HasSession(r)) /\ (r.method = "GET" \/ ~HasSession(r)) ->
                   (IF HasSession(r) THEN "download" ELSE "stream_one")
              [] OTHER -> "unsupported"

-------------------------------------------------------------------------------
(* Padding.  A value is a sequence of "%", "h" (a hex digit) and "x".        *)

Escape(v, i) == v[i] = "%" /\ i + 2 <= Len(v) /\ v[i + 1] = "h" /\ v[i + 2] = "h"

\* As PercentDecodedLen, but an escape at the very end is not seen.
PercentDecodedLenShort(v) ==
  LET rest[i \in 1 .. Len(v) + 3] ==
        IF i > Len(v) THEN 0
        ELSE 1 + rest[IF i + 2 < Len(v) /\ Escape(v, i) THEN i + 3 ELSE i + 1]
  IN rest[1]

\* percent_decoded_len: three bytes of an escape count as one.
PercentDecodedLen(v) ==
  LET rest[i \in 1 .. Len(v) + 3] ==
        IF i > Len(v) THEN 0
        ELSE 1 + rest[IF Escape(v, i) THEN i + 3 ELSE i + 1]
  IN rest[1]

\* extract_padding_len and is_padding_len_valid: a Referer, when there is one,
\* hides the query of the request itself.
PaddingValid(r) ==
  LET from == IF r.referer.given THEN r.referer ELSE r.query
      len == PercentDecodedLen(from.value)
  IN from.param /\ len # 0 /\ len \in PadFrom .. PadTo

-------------------------------------------------------------------------------
(* Payloads outside the body.                                                *)

\* As EncodedLenLimit, but rounded down.
EncodedLenLimitFloor(n) == (n * 4) \div 3

\* encoded_len_limit
EncodedLenLimit(n) == (n * 4 + 2) \div 3 + 4

SumLen(chunks, k) == Total([i \in 1 .. k |-> chunks[i].len], 1 .. k)

\* decode_header_payload and decode_cookie_payload over the chunks found, then
\* decode_payload_chunks: unpadded base64, of which no length is 1 modulo 4.
DecodeChunks(chunks, alphabet) ==
  LET stops == {k \in 1 .. Len(chunks) :
                  ~chunks[k].text \/ SumLen(chunks, k) > EncodedLenLimit(MaxPost)}
      encoded == SumLen(chunks, Len(chunks))
      decoded == (encoded * 3) \div 4
      failed(status) == [err |-> status, len |-> 0]
  IN IF stops # {} THEN failed(IF chunks[Min(stops)].text THEN 413 ELSE 400)
     ELSE IF encoded > 0 /\ (~alphabet \/ encoded % 4 = 1) THEN failed(400)
     ELSE IF decoded > MaxPost THEN failed(413)
     ELSE [err |-> 0, len |-> decoded]

\* The placement reads headers, or cookies, or the body (should_read_body).
Placed(placement, where) == placement \in {where, "auto"}

HeaderPayload(placement, r) ==
  IF Placed(placement, "header") THEN DecodeChunks(r.headers, r.alphabet)
                                 ELSE [err |-> 0, len |-> 0]

\* A cookie header that is no text is skipped, so it ends the list of chunks.
CookiePayload(placement, r) ==
  IF Placed(placement, "cookie") THEN DecodeChunks(r.cookies, r.alphabet)
                                 ELSE [err |-> 0, len |-> 0]

\* The bytes a source contributes, told apart by where they come from.
Bytes(where, n) == [i \in 1 .. n |-> <<where, i>>]

-------------------------------------------------------------------------------
(* The static site.                                                          *)

\* StaticSite::resolve
SiteStatus(r) == IF r.method \notin {"GET", "HEAD"} THEN 405
                 ELSE IF r.path \in Assets THEN 200 ELSE 404

\* site_response: an entity tag the client already has turns any reply into 304.
SiteReply(r) ==
  LET hit == r.etag = SiteStatus(r)
  IN [status |-> IF hit THEN 304 ELSE SiteStatus(r),
      body |-> ~hit /\ r.method # "HEAD", padded |-> FALSE]
===============================================================================
