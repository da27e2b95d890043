-------------------------------- MODULE Records --------------------------------
(***************************************************************************)
(* The record layer of VLESS-Encryption, as operators:                      *)
(*   encryption/record.rs  the nonce counter, sealing, opening, rekeying;   *)
(*   encryption/xor.rs     HeaderXor, which masks only the record headers;  *)
(*   encryption/stream.rs  EncryptedReader, which reassembles records.      *)
(* The AEAD is perfect: a record opens exactly under the key and the nonce  *)
(* it was sealed with.  A key is its generation; derive_key over a record   *)
(* gives the next one.  Lengths are scaled by the constants.                *)
(*                                                                         *)
(* A byte on the wire names the record it belongs to, its place in it and   *)
(* the keystream byte it is masked with (0: none).  A record's own value is *)
(* looked up in `recs', the sequence of all records sealed.                 *)
(***************************************************************************)
EXTENDS Naturals, Sequences

CONSTANTS
  HeaderLen,     \* bytes of a record header (5)
  TagLen,        \* bytes of an AEAD tag (16)
  MaxPlain,      \* largest plaintext of a record sealed here (8192)
  MaxLength,     \* largest length a record header may give (16640)
  MaxNonce       \* the last nonce before the counter wraps (2^96 - 1)

\* AeadState::new
NewCipher == [key |-> 0, nonce |-> 0]

\* increment_nonce: big-endian, wrapping
IncrementNonce(n) == (n + 1) % (MaxNonce + 1)

\* As Advance, but the key is kept when the counter wraps.
AdvanceNoRekey(c) == [key |-> c.key, nonce |-> IncrementNonce(c.nonce)]

\* The cipher after a record: a record sealed at the last nonce ends its key.
Advance(c) == [key   |-> c.key + (IF c.nonce = MaxNonce THEN 1 ELSE 0),
               nonce |-> IncrementNonce(c.nonce)]

\* encode_header and decode_header accept these lengths of tag and ciphertext.
LengthOK(len) == len > TagLen /\ len <= MaxLength

\* RecordCipher::seal: the nonce moves first, the old key seals, then a rekey.
Seal(c, plain) == [body |-> plain, len |-> Len(plain) + TagLen,
                   key |-> c.key, nonce |-> IncrementNonce(c.nonce)]

\* RecordCipher::open
Opens(c, rec) == rec.key = c.key /\ rec.nonce = IncrementNonce(c.nonce)

\* The bytes of the k-th record of recs, before any mask.
WireBytes(recs, k) ==
  [i \in 1 .. HeaderLen + recs[k].len |-> [rec |-> k, at |-> i, mask |-> 0]]

\* decode_header on collected bytes: the header of one record, unmasked.
HeaderOK(recs, h) ==
  /\ \A i \in 1 .. HeaderLen : h[i] = [rec |-> h[1].rec, at |-> i, mask |-> 0]
  /\ LengthOK(recs[h[1].rec].len)

-------------------------------------------------------------------------------
(* HeaderXor: skip bytes of a body, then mask HeaderLen bytes of a header.   *)

NewXor == [skip |-> 0, header |-> <<>>, pos |-> 0, ok |-> TRUE]

\* Masking twice with the same keystream byte is no mask; anything else garbles.
Masked(b, p) == [b EXCEPT !.mask = IF b.mask = 0 THEN p ELSE IF b.mask = p THEN 0 ELSE p + 1000]

\* As XorByte, but the header bytes seen at the end of the last piece are forgotten.
XorByteNoCarry(recs, decrypt, acc, b) ==
  IF acc.x.skip > 0
  THEN [x |-> [acc.x EXCEPT !.skip = @ - 1], bytes |-> Append(acc.bytes, b)]
  ELSE LET m == Masked(b, acc.x.pos + 1)
           h == Append(IF acc.bytes = <<>> THEN <<>> ELSE acc.x.header, IF decrypt THEN m ELSE b)
           full == Len(h) = HeaderLen
           good == full => HeaderOK(recs, h)
       IN [x |-> [skip |-> IF full /\ good THEN recs[h[1].rec].len ELSE 0,
                  header |-> IF full THEN <<>> ELSE h,
                  pos |-> acc.x.pos + 1, ok |-> acc.x.ok /\ good],
           bytes |-> Append(acc.bytes, m)]

\* One byte through HeaderXor::apply; acc carries the state and the bytes done.
\* The header is collected in the clear: after the mask when decrypting.
XorByte(recs, decrypt, acc, b) ==
  IF acc.x.skip > 0
  THEN [x |-> [acc.x EXCEPT !.skip = @ - 1], bytes |-> Append(acc.bytes, b)]
  ELSE LET m == Masked(b, acc.x.pos + 1)
           h == Append(acc.x.header, IF decrypt THEN m ELSE b)
           full == Len(h) = HeaderLen
           good == full => HeaderOK(recs, h)
       IN [x |-> [skip   |-> IF full /\ good THEN recs[h[1].rec].len ELSE 0,
                  header |-> IF full THEN <<>> ELSE h,
                  pos    |-> acc.x.pos + 1,
                  ok     |-> acc.x.ok /\ good],
           bytes |-> Append(acc.bytes, m)]

\* HeaderXor::apply: the new state and the bytes transformed in place.  The
\* choice is from a set of one; it makes TLC evaluate after[k - 1] once.
Apply(recs, decrypt, x, bytes) ==
  LET after[k \in 0 .. Len(bytes)] ==
        IF k = 0 THEN [x |-> x, bytes |-> <<>>]
        ELSE CHOOSE r \in {XorByte(recs, decrypt, acc, bytes[k]) : acc \in {after[k - 1]}} : TRUE
  IN after[Len(bytes)]

-------------------------------------------------------------------------------
(* EncryptedReader.                                                          *)

NewEncryptedReader == [cipher |-> NewCipher, xor |-> NewXor, encrypted |-> <<>>,
                       plaintext |-> <<>>, expected |-> 0, ok |-> TRUE]

\* As CanParse, but a record is opened only when a byte of the next one is there.
CanParseLate(r) == \/ r.expected = 0 /\ Len(r.encrypted) >= HeaderLen
                   \/ r.expected > 0 /\ Len(r.encrypted) > HeaderLen + r.expected

\* One turn of poll_read's loop that needs no input: a header is decoded, or a
\* complete record is opened.  expected = 0 is None.
CanParse(r) == \/ r.expected = 0 /\ Len(r.encrypted) >= HeaderLen
               \/ r.expected > 0 /\ Len(r.encrypted) >= HeaderLen + r.expected

ParseRecord(recs, r) ==
  LET h == SubSeq(r.encrypted, 1, HeaderLen)
      rec == recs[h[1].rec]
      good == HeaderOK(recs, h)
      opened == Opens(r.cipher, rec)
      size == HeaderLen + r.expected
  IN IF r.expected = 0
     THEN [r EXCEPT !.ok = good, !.expected = IF good THEN rec.len ELSE 0]
     ELSE [r EXCEPT !.ok = opened, !.expected = 0, !.cipher = Advance(@),
                    !.plaintext = IF opened THEN rec.body ELSE <<>>,
                    !.encrypted = SubSeq(@, size + 1, Len(@))]

\* Bytes from the inner reader, unmasked where a HeaderXor is in use.
FillEncrypted(recs, r, bytes, random) ==
  LET a == Apply(recs, TRUE, r.xor, bytes)
  IN IF random
     THEN [r EXCEPT !.xor = a.x, !.ok = a.x.ok, !.encrypted = @ \o a.bytes]
     ELSE [r EXCEPT !.encrypted = @ \o bytes]
===============================================================================
