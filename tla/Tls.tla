---------------------------------- MODULE Tls ----------------------------------
(***************************************************************************)
(* The TLS 1.3 server, as operators on the state of one connection:         *)
(*   tls/client_hello.rs           reassembling and reading a ClientHello;  *)
(*   tls/cert.rs, tls13/*.rs       what the server's flight is made of;     *)
(*   tls13/record.rs               RecordKeys: sequence numbers;            *)
(*   tls/nginx_backend.rs          TlsStream, its reader and its writer.    *)
(* Cryptography is perfect: a record opens exactly under the key and the    *)
(* sequence number it was sealed with.  Lengths are scaled by constants.    *)
(***************************************************************************)
EXTENDS Integers, Sequences, SequencesExt

CONSTANTS
  HeaderLen,     \* bytes of a record header (5)
  MaxRecord,     \* MAX_TLS_RECORD (18 KiB): largest body a peer may announce
  MaxApp,        \* MAX_APP_PLAINTEXT (16 KiB): largest plaintext of one write
  MsgHeader,     \* bytes of a handshake message header (4)
  MaxHello,      \* max_payload of the ClientHelloRecordBuffer (64 KiB)
  AlpnOrder      \* the configured protocols, most preferred first

None == -1       \* Option::None where a length is expected

-------------------------------------------------------------------------------
(* The ClientHello.  A client sends one message, hello, in records cut as it *)
(* likes; only its length and what its extensions say matter.                *)

\* ClientHelloRecordBuffer::append_record and try_message: had bytes are
\* buffered, a record of the given type brings n more.
AppendRecord(hello, had, type, n) ==
  LET size == had + n
      total == MsgHeader + hello.len
  IN IF type # "handshake" \/ size > MaxHello THEN "error"
     ELSE IF size < MsgHeader THEN "more"
     ELSE IF hello.msg # "client_hello" \/ total > MaxHello THEN "error"
     ELSE IF size < total THEN "more"
     ELSE IF size > total THEN "error"
     ELSE "message"

\* The value the last extension of that type leaves behind, as parse_extensions
\* assigns it; a malformed one is empty.
LastExt(hello, type, default) ==
  LET found == SelectSeq(hello.exts, LAMBDA e : e.type = type)
  IN IF found = <<>> THEN default ELSE found[Len(found)].list

\* Key shares are collected over all extensions of their type.
KeyShares(hello) ==
  FlattenSeq([i \in 1 .. Len(hello.exts) |->
                IF hello.exts[i].type = "key_share" THEN hello.exts[i].list ELSE <<>>])

\* ClientHello::parse_message: a body that is cut short, or a malformed list of
\* signature algorithms or key shares, is an error; other malformed lists are not.
Parses(hello) ==
  /\ hello.whole
  /\ \A i \in 1 .. Len(hello.exts) :
       hello.exts[i].type \in {"signature_algorithms", "key_share"} => hello.exts[i].good

Signatures(hello) == LastExt(hello, "signature_algorithms", <<>>)
OffersTls13(hello) == Contains(LastExt(hello, "supported_versions", <<>>), "1.3")
OfferedAlpn(hello) == LastExt(hello, "alpn", <<>>)

\* The first element of order that is in list, or the default.
FirstIn(order, list, default) ==
  LET both == {i \in 1 .. Len(order) : Contains(list, order[i])}
  IN IF both = {} THEN default ELSE order[Min(both)]

\* choose_cipher
ChooseCipher(hello) ==
  FirstIn(<<"aes256", "chacha20", "aes128">>, hello.suites, "none")

\* RingSigningKey::choose_scheme: an RSA key takes the client's first choice,
\* the others have one scheme each.
ChooseScheme(alg, offered) ==
  FirstIn(offered, CASE alg = "rsa" -> <<"pss256", "pss384", "pss512">>
                     [] alg = "p256" -> <<"ecdsa256">>
                     [] alg = "p384" -> <<"ecdsa384">>
                     [] alg = "ed25519" -> <<"ed25519">>, "none")

\* prepare_server_handshake succeeds.  The first share of the group counts, and
\* x25519_with_secret refuses a key of another length or a trivial secret.
Prepares(hello, identity) ==
  LET shares == SelectSeq(KeyShares(hello), LAMBDA s : s.group = "x25519")
  IN /\ Parses(hello)
     /\ Signatures(hello) # <<>>
     /\ shares # <<>> /\ shares[1].usable
     /\ OffersTls13(hello) /\ ~hello.long_sid
     /\ ChooseScheme(identity.alg, Signatures(hello)) # "none"

\* As Flight, but the identity is looked up again for the signature.
FlightReload(hello, loaded, current) ==
  [suite |-> ChooseCipher(hello),
   alpn  |-> FirstIn(AlpnOrder, OfferedAlpn(hello), "none"),
   cert  |-> loaded.gen,
   scheme |-> ChooseScheme(loaded.alg, Signatures(hello)),
   signer |-> current]

\* What the flight tells the client: certificate and signature come from the
\* identity that was loaded, whatever is being served by now.
Flight(hello, loaded, current) ==
  [suite |-> ChooseCipher(hello),
   alpn  |-> FirstIn(AlpnOrder, OfferedAlpn(hello), "none"),
   cert  |-> loaded.gen,
   scheme |-> ChooseScheme(loaded.alg, Signatures(hello)),
   signer |-> loaded]

-------------------------------------------------------------------------------
(* RecordKeys.                                                               *)

NewKeys(key) == [key |-> key, seq |-> 0]
Stepped(k) == [k EXCEPT !.seq = @ + 1]

\* RecordKeys::seal; type "zero" stands for a plaintext of zeros only.
SealRecord(k, type, body) ==
  [key |-> k.key, seq |-> k.seq, type |-> type, body |-> body, len |-> Len(body) + 1]

\* The record authenticates; open then fails all the same when it holds zeros only.
Authentic(k, rec) == rec.key = k.key /\ rec.seq = k.seq
Opens(k, rec) == Authentic(k, rec) /\ rec.type # "zero"

\* The bytes of a record on the wire.
UnitsOf(rec) == [i \in 1 .. HeaderLen + rec.len |-> [rec |-> rec, at |-> i]]

-------------------------------------------------------------------------------
(* TlsStream.                                                                *)

NewStream == [read_keys |-> NewKeys("client"), write_keys |-> NewKeys("server"),
              encrypted |-> <<>>, plaintext |-> <<>>, expected |-> None,
              write_buf |-> <<>>, write_pos |-> 0, close_sent |-> FALSE]

Pending(s) == SubSeq(s.write_buf, s.write_pos + 1, Len(s.write_buf))

\* poll_flush_pending: the socket takes k of the pending bytes.
FlushPending(s, k) ==
  IF k = Len(Pending(s)) THEN [s EXCEPT !.write_buf = <<>>, !.write_pos = 0]
  ELSE [s EXCEPT !.write_pos = @ + k]

\* A new record becomes the write buffer.
Buffered(s, type, body) ==
  [s EXCEPT !.write_buf = UnitsOf(SealRecord(s.write_keys, type, body)),
            !.write_pos = 0, !.write_keys = Stepped(@)]

\* One turn of poll_read's loop that needs no input and ends in no error: a
\* header is read, or a complete record of application data is opened.
HeaderReady(s) == s.expected = None /\ Len(s.encrypted) >= HeaderLen
HeaderFits(s) == s.encrypted[1].rec.len <= MaxRecord
HeaderRead(s) == [s EXCEPT !.expected = s.encrypted[1].rec.len]

RecordReady(s) == s.expected # None /\ Len(s.encrypted) >= HeaderLen + s.expected
NextRecord(s) == s.encrypted[1].rec
RecordOpened(s) ==
  [s EXCEPT !.encrypted = SubSeq(@, HeaderLen + s.expected + 1, Len(@)),
            !.expected = None, !.read_keys = Stepped(@),
            !.plaintext = IF NextRecord(s).type = "data" THEN NextRecord(s).body ELSE <<>>]
===============================================================================
