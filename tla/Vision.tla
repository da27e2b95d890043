-------------------------------- MODULE Vision --------------------------------
(***************************************************************************)
(* vless/vision.rs, the padding codec of xtls-rprx-vision, as operators:    *)
(* VisionWriter frames what the target sends until it sees TLS application  *)
(* data or has framed Packets packets; VisionReader takes the framing off,  *)
(* its input in pieces of any size, and passes the rest through raw.        *)
(*                                                                         *)
(* A plaintext byte is [t, v, i]: a byte of the user id, the i-th byte of a *)
(* frame header v = <<command, content, padding>>, a byte of padding, or a  *)
(* byte of data, v = <<what the bytes from here look like>>, i its place in *)
(* the stream.                                                              *)
(***************************************************************************)
EXTENDS Naturals, Sequences

CONSTANTS
  UuidLen,       \* bytes of the user id before the first frame (16)
  FrameHeader,   \* bytes of a frame header (5)
  MaxFrame,      \* largest content of a frame (8171)
  MinTls,        \* shortest chunk taken for TLS (6); application data needs one less
  Packets        \* packets framed at most (8)

Bytes(t, v, n) == [i \in 1 .. n |-> [t |-> t, v |-> v, i |-> i]]

\* encode_frame; the padding is random and cut to the room the content leaves.
EncodeFrame(content, command, uuid, wanted) ==
  LET room == MaxFrame - Len(content)
      pad == IF wanted < room THEN wanted ELSE room
  IN (IF uuid THEN Bytes("uuid", <<>>, UuidLen) ELSE <<>>)
       \o Bytes("header", <<command, Len(content), pad>>, FrameHeader)
       \o content \o Bytes("padding", <<>>, pad)

-------------------------------------------------------------------------------
(* VisionReader.                                                             *)

NewVisionReader == [prefix |-> <<>>, raw |-> FALSE, state |-> "header",
                    bytes |-> <<>>, left |-> 0, padding |-> 0, command |-> "continue"]

\* As Settle, but the framing is left as soon as the last content was read.
SettleEarly(r) ==
  IF r.state = "content" /\ r.left = 0
  THEN [r EXCEPT !.state = IF r.command = "continue" /\ r.padding > 0 THEN "padding" ELSE "header",
                 !.left = IF r.command = "continue" THEN r.padding ELSE 0,
                 !.padding = 0, !.raw = r.command # "continue"]
  ELSE IF r.state = "padding" /\ r.left = 0
  THEN [r EXCEPT !.state = "header", !.command = "continue"] ELSE r

\* The transitions of poll_read that need no input.
Settle(r) ==
  LET p == IF r.state = "content" /\ r.left = 0
           THEN [r EXCEPT !.state = "padding", !.left = r.padding, !.padding = 0] ELSE r
  IN IF p.state = "padding" /\ p.left = 0
     THEN [p EXCEPT !.state = "header", !.command = "continue", !.raw = p.command # "continue"]
     ELSE p

\* The room of the buffer the next read of the inner reader gets.
Wanted(r, dst) ==
  CASE r.raw -> dst
    [] ~r.raw /\ Len(r.prefix) < UuidLen -> UuidLen - Len(r.prefix)
    [] ~r.raw /\ Len(r.prefix) = UuidLen /\ r.state = "header" -> FrameHeader - Len(r.bytes)
    [] OTHER -> r.left

\* Bytes read from the inner reader: the reader, what it puts out, no error.
\* Bytes that are not a header have no known command.
Feed(r, bytes) ==
  LET prefix == r.prefix \o bytes
      header == r.bytes \o bytes
      whole == Len(header) = FrameHeader
      good == \A i \in 1 .. FrameHeader :
                header[i] = [t |-> "header", v |-> header[1].v, i |-> i]
  IN CASE r.raw -> [r |-> r, out |-> bytes, ok |-> TRUE]
       [] ~r.raw /\ Len(r.prefix) < UuidLen ->
            [r |-> [r EXCEPT !.prefix = prefix], out |-> <<>>,
             ok |-> Len(prefix) = UuidLen => prefix = Bytes("uuid", <<>>, UuidLen)]
       [] ~r.raw /\ Len(r.prefix) = UuidLen /\ r.state = "header" ->
            [r |-> IF ~whole \/ ~good THEN [r EXCEPT !.bytes = header]
                   ELSE Settle([r EXCEPT !.bytes = <<>>, !.state = "content",
                                         !.command = header[1].v[1], !.left = header[1].v[2],
                                         !.padding = header[1].v[3]]),
             out |-> <<>>, ok |-> whole => good]
       [] ~r.raw /\ Len(r.prefix) = UuidLen /\ r.state = "content" ->
            [r |-> Settle([r EXCEPT !.left = @ - Len(bytes)]), out |-> bytes, ok |-> TRUE]
       [] OTHER ->
            [r |-> Settle([r EXCEPT !.left = @ - Len(bytes)]), out |-> <<>>, ok |-> TRUE]

\* The inner reader is at its end: a clean end between frames, and in a header.
CleanEof(r) == r.raw \/ (Len(r.prefix) = UuidLen /\ r.state = "header")

-------------------------------------------------------------------------------
(* VisionWriter.                                                             *)

NewVisionWriter == [uuid |-> TRUE, left |-> Packets, tls |-> FALSE, padding |-> TRUE]

LooksLike(chunk, kinds) == chunk[1].v[1] \in kinds

\* One chunk of VisionWriter::encode, TlsFilter::observe included; acc carries
\* the writer and the frames made.
EncodeChunk(acc, chunk, wanted) ==
  LET left == IF acc.w.left = 0 THEN 0 ELSE acc.w.left - 1
      tls == acc.w.tls \/ (Len(chunk) >= MinTls /\ LooksLike(chunk, {"handshake", "application"}))
      last == \/ tls /\ Len(chunk) >= MinTls - 1 /\ LooksLike(chunk, {"application"})
              \/ left = 0
  IN [w |-> [uuid |-> FALSE, left |-> left, tls |-> tls, padding |-> acc.w.padding /\ ~last],
      frames |-> Append(acc.frames, EncodeFrame(chunk, IF last THEN "end" ELSE "continue",
                                                acc.w.uuid, wanted))]

Chunks(s, size) ==
  [k \in 1 .. (Len(s) + size - 1) \div size |->
     SubSeq(s, (k - 1) * size + 1, IF k * size < Len(s) THEN k * size ELSE Len(s))]

\* VisionWriter::encode.  The test of `padding' is before the loop: chunks after
\* the one that ends the padding are framed all the same.
Encode(w, data, wanted) ==
  IF ~w.padding THEN [w |-> w, frames |-> <<data>>]
  ELSE LET chunks == Chunks(data, MaxFrame)
           after[k \in 0 .. Len(chunks)] ==
             IF k = 0 THEN [w |-> w, frames |-> <<>>]
             ELSE EncodeChunk(after[k - 1], chunks[k], wanted)
       IN after[Len(chunks)]
===============================================================================
