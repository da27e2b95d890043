--------------------------------- MODULE Wire ---------------------------------
(***************************************************************************)
(* One direction of a TCP session, from a socket to a socket, through every *)
(* layer that cuts the stream into pieces of its own:                       *)
(*                                                                         *)
(*   copy_download -> VisionWriter -> ProtocolWriter (seal, HeaderXor)      *)
(*     -> the downlink channel and the network, cut anywhere ->             *)
(*   HeaderXor -> EncryptedReader -> VisionReader -> copy_upload            *)
(*                                                                         *)
(* The two halves are the two ends of one stream; the repository's tests    *)
(* pair them the same way.  The codec's operators are in Records and        *)
(* Vision; this module holds the state and the steps between two awaits.    *)
(***************************************************************************)
EXTENDS Records, Vision, SequencesExt

CONSTANTS
  Sources,       \* streams a target may send: sequences of what the bytes look like
  Modes,         \* subset of {"plain", "native", "random"}: no encryption, or its mode
  Pads,          \* padding lengths encode_frame may draw
  MaxRead,       \* the buffer of copy_download (32 KiB; larger than MaxFrame)
  Window         \* bound: unread bytes on their way beyond which the writer waits

ASSUME WireAssumption ==
  /\ {HeaderLen, TagLen, MaxPlain, MaxLength, MaxNonce, UuidLen, FrameHeader, MaxFrame,
      MinTls, Packets, MaxRead} \subseteq Nat \ {0}
  /\ MaxPlain + TagLen <= MaxLength
  /\ Window \in Nat /\ Pads \subseteq Nat
  /\ Modes \subseteq {"plain", "native", "random"}

VARIABLES
  conf,          \* [mode, vision]: fixed when the session starts
  data,          \* the bytes the target sends
  read,          \* how many of them copy_download has read
  done,          \* copy_download returned, its writer is dropped
  writer,        \* VisionWriter
  frames,        \* frames of the last read still to be sent
  seal,          \* [cipher, xor] of the ProtocolWriter
  recs,          \* history: the records sealed
  lane,          \* bytes sent and not yet read at the other end
  broken,        \* the connection was lost: nothing more arrives
  reader,        \* EncryptedReader
  vreader,       \* VisionReader
  out,           \* bytes copy_upload has written
  end,           \* "no", "eof" or "error": how the reading end finished
  marks,         \* history: stream positions at which a frame ends
  reframed       \* history: a frame was made after the frame that ends the framing

vars == <<conf, data, read, done, writer, frames, seal, recs, lane, broken, reader,
          vreader, out, end, marks, reframed>>
sending == <<read, done, writer, frames, seal, recs, marks, reframed>>
receiving == <<reader, vreader, out, end>>

Encrypted == conf.mode # "plain"

Init ==
  /\ conf \in [mode : Modes, vision : BOOLEAN]
  /\ \E s \in Sources :
       data = [i \in 1 .. Len(s) |-> [t |-> "data", v |-> <<s[i]>>, i |-> i]]
  /\ read = 0 /\ done = FALSE /\ broken = FALSE /\ reframed = FALSE
  /\ writer = NewVisionWriter /\ frames = <<>>
  /\ seal = [cipher |-> NewCipher, xor |-> NewXor]
  /\ recs = <<>> /\ lane = <<>>
  /\ reader = NewEncryptedReader /\ vreader = NewVisionReader
  /\ out = <<>> /\ end = "no" /\ marks = {0}

-------------------------------------------------------------------------------
(* The sending end.                                                          *)

\* The frame carries COMMAND_END.
EndsFraming(frame) ==
  \E i \in 1 .. Len(frame) : frame[i].t = "header" /\ frame[i].v[1] = "end"

\* copy_download: one read of the target, encoded at once.
ReadTarget(n, wanted) ==
  LET bytes == SubSeq(data, read + 1, read + n)
      e == Encode(writer, bytes, wanted)
  IN /\ ~done /\ ~broken /\ frames = <<>>
     /\ read + n <= Len(data)
     /\ read' = read + n
     /\ IF conf.vision
        THEN /\ writer' = e.w /\ frames' = e.frames
             /\ marks' = marks \cup {read + (IF k * MaxFrame < n THEN k * MaxFrame ELSE n) :
                                     k \in 1 .. Len(e.frames)}
             /\ reframed' = (reframed \/ \E k \in 1 .. Len(e.frames) - 1 : EndsFraming(e.frames[k]))
        ELSE frames' = <<bytes>> /\ UNCHANGED <<writer, marks, reframed>>
     /\ UNCHANGED <<conf, data, done, seal, recs, lane, broken>> /\ UNCHANGED receiving

\* copy_download sees the target's end: it returns, and the writer is dropped.
TargetEof ==
  /\ ~done /\ frames = <<>> /\ read = Len(data)
  /\ done' = TRUE
  /\ UNCHANGED <<conf, data, read, writer, frames, seal, recs, lane, broken, marks, reframed>>
  /\ UNCHANGED receiving

\* bytes.chunks(8192) in ProtocolWriter::send; without encryption no chunks.
ChunkLen(frame) == IF Encrypted /\ Len(frame) > MaxPlain THEN MaxPlain ELSE Len(frame)

\* ProtocolWriter::send, up to the await of sink.send: a whole frame when there
\* is no encryption, else one chunk of it, sealed and masked.
SendChunk ==
  /\ frames # <<>> /\ ~broken /\ Len(lane) <= Window
  /\ LET frame == Head(frames)
         n == ChunkLen(frame)
         rest == SubSeq(frame, n + 1, Len(frame))
         sealed == Append(recs, Seal(seal.cipher, SubSeq(frame, 1, n)))
         bytes == WireBytes(sealed, Len(sealed))
         masked == Apply(sealed, FALSE, seal.xor, bytes)
     IN /\ frames' = (IF rest = <<>> THEN <<>> ELSE <<rest>>) \o Tail(frames)
        /\ IF Encrypted
           THEN /\ recs' = sealed
                /\ seal' = [cipher |-> Advance(seal.cipher),
                            xor |-> IF conf.mode = "random" THEN masked.x ELSE seal.xor]
                /\ lane' = lane \o (IF conf.mode = "random" THEN masked.bytes ELSE bytes)
           ELSE lane' = lane \o frame /\ UNCHANGED <<recs, seal>>
  /\ UNCHANGED <<conf, data, read, done, writer, broken, marks, reframed>>
  /\ UNCHANGED receiving

\* The connection between the ends is lost: k of the bytes on their way arrive.
Break(k) ==
  /\ ~broken /\ end = "no" /\ broken' = TRUE
  /\ lane' = SubSeq(lane, 1, k)
  /\ UNCHANGED <<conf, data>> /\ UNCHANGED sending /\ UNCHANGED receiving

-------------------------------------------------------------------------------
(* The receiving end.                                                        *)

\* n bytes reach whoever reads the (decrypted) stream: VisionReader, or
\* copy_upload itself.
Take(bytes) ==
  LET f == Feed(vreader, bytes)
  IN IF conf.vision
     THEN /\ vreader' = f.r /\ out' = out \o f.out
          /\ end' = IF f.ok THEN "no" ELSE "error"
     ELSE out' = out \o bytes /\ UNCHANGED <<vreader, end>>

\* The room of the buffer that read gets, `most' where it is larger than the input.
Room(most) ==
  LET room == Wanted(vreader, most) IN IF conf.vision /\ room < most THEN room ELSE most

\* Without encryption the inner read is the stream itself.
ReadPlain(n) ==
  /\ end = "no" /\ ~Encrypted /\ n <= Room(Len(lane))
  /\ Take(SubSeq(lane, 1, n))
  /\ lane' = SubSeq(lane, n + 1, Len(lane))
  /\ UNCHANGED <<conf, data, broken, reader>> /\ UNCHANGED sending

\* EncryptedReader::poll_read: plaintext that is there is handed out first.
ReadPlaintext ==
  LET n == Room(Len(reader.plaintext))
  IN /\ end = "no" /\ reader.plaintext # <<>>
     /\ Take(SubSeq(reader.plaintext, 1, n))
     /\ reader' = [reader EXCEPT !.plaintext = SubSeq(@, n + 1, Len(@))]
     /\ UNCHANGED <<conf, data, lane, broken>> /\ UNCHANGED sending

\* A header is decoded or a record opened.
Parse ==
  /\ end = "no" /\ reader.plaintext = <<>> /\ CanParse(reader)
  /\ reader' = ParseRecord(recs, reader)
  /\ end' = IF reader'.ok THEN "no" ELSE "error"
  /\ UNCHANGED <<conf, data, lane, broken, vreader, out>> /\ UNCHANGED sending

\* Only then more is read, as much as has arrived.
Fill(n) ==
  /\ end = "no" /\ Encrypted /\ reader.plaintext = <<>> /\ ~CanParse(reader)
  /\ n <= Len(lane)
  /\ reader' = FillEncrypted(recs, reader, SubSeq(lane, 1, n), conf.mode = "random")
  /\ lane' = SubSeq(lane, n + 1, Len(lane))
  /\ end' = IF reader'.ok THEN "no" ELSE "error"
  /\ UNCHANGED <<conf, data, broken, vreader, out>> /\ UNCHANGED sending

\* The stream is at its end: a clean one where no layer misses anything.
ReadEof ==
  /\ end = "no" /\ lane = <<>> /\ (done \/ broken)
  /\ reader.plaintext = <<>> /\ ~CanParse(reader)
  /\ end' = IF reader.encrypted = <<>> /\ (conf.vision => CleanEof(vreader))
            THEN "eof" ELSE "error"
  /\ UNCHANGED <<conf, data, lane, broken, reader, vreader, out>> /\ UNCHANGED sending

Sender == SendChunk \/ TargetEof
Receiver ==
  \/ \E n \in 1 .. Len(lane) : ReadPlain(n) \/ Fill(n)
  \/ ReadPlaintext \/ Parse \/ ReadEof

Next ==
  \/ \E n \in 1 .. MaxRead, wanted \in Pads : ReadTarget(n, wanted)
  \/ Sender \/ Receiver
  \/ \E k \in 0 .. Len(lane) : Break(k)

Spec == Init /\ [][Next]_vars

\* The executor polls a task that can make progress; the target need not send.
FairSpec == Spec /\ WF_vars(Sender) /\ WF_vars(Receiver)

-------------------------------------------------------------------------------

\* However each layer's input is cut, what leaves the last one is what the
\* target sent, byte by byte, as long as the writer keeps to its own framing.
InOrder == ~reframed => IsPrefix(out, SubSeq(data, 1, read))

\* A stream that is not broken fails in one case only, a target that ends without
\* a byte under Vision: VisionWriter puts its prefix into the first frame, none is
\* made, and VisionReader takes the end for a truncated prefix.  In every other
\* one nonces, keys and the header mask of the two ends stay in step across every
\* cut and every rekeying.
FailsOnlyEmpty ==
  end = "error" /\ ~reframed => broken \/ (conf.vision /\ data = <<>>)

\* No two records are sealed with the same key and nonce, the wrap of the
\* counter included, and none is larger than the other end accepts.
NonceFresh ==
  \A i \in 1 .. Len(recs) :
    /\ LengthOK(recs[i].len) /\ Len(recs[i].body) <= MaxPlain
    /\ \A j \in 1 .. i - 1 : <<recs[i].key, recs[i].nonce>> # <<recs[j].key, recs[j].nonce>>

\* A clean end means a complete stream, or one lost where no content was owed:
\* behind a frame, in the five bytes of the next frame's header (VisionReader
\* takes the end there for a clean one), or after the framing ended.  Content or
\* padding that a complete header announced is never cut short unnoticed.
CleanEnd ==
  end = "eof" /\ ~reframed =>
    IF broken THEN conf.vision => vreader.raw \/ Len(out) \in marks
    ELSE out = data

\* The longest stream of Sources, as an upper bound of the positions in one.
Longest == Max({Len(s) : s \in Sources} \cup {0})

\* No layer holds bytes back for want of more: what was read from the target
\* comes out at the other end although the stream stays open, to its last byte.
Flushed ==
  \A k \in 1 .. Longest :
    read >= k ~> (Len(out) >= k \/ broken \/ reframed)

\* How reading ends is how the stream ended: an error means a lost connection or
\* an empty Vision stream, a clean end that nothing announced is missing.
EndHonest == FailsOnlyEmpty /\ CleanEnd

===============================================================================
