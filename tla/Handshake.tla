------------------------------- MODULE Handshake -------------------------------
(***************************************************************************)
(* The server side of the VLESS-Encryption handshake, as operators:         *)
(*   encryption/handshake.rs, keys.rs and config.rs.                        *)
(* Key exchange and AEAD are perfect and left abstract: a relay, a length   *)
(* or a payload is good or names the error it provokes.                     *)
(***************************************************************************)
EXTENDS Naturals, Sequences

\* EncryptionConfig::parse.  A part of the value after the lifetime is padding
\* (shorter than 20 characters), a key seed of either kind, or neither.
ParseEncryption(c) ==
  LET keys == {i \in 1 .. Len(c.parts) : c.parts[i] # "padding"}
  IN IF c.scheme # "mlkem768x25519plus" THEN "Scheme"
     ELSE IF c.mode \notin {"native", "xorpub", "random"} THEN "Mode"
     ELSE IF c.from \notin 0 .. 65535 \/ c.to \notin 0 .. 65535 THEN "Lifetime"
     ELSE IF \E i \in keys, j \in 1 .. Len(c.parts) : i < j /\ c.parts[j] = "padding"
          THEN "PaddingAfterKey"
     ELSE IF keys = {} \/ \E i \in keys : c.parts[i] \notin {"x25519", "mlkem768"} THEN "Key"
     ELSE "ok"

\* ServerKey::relay_len and ServerKeys::from_seeds: what a client's relay chain
\* is long, a hash of the next key between two relays.
KeyLen(kind) == IF kind = "x25519" THEN 32 ELSE 1088

\* The keys of a configuration, in order.
Keys(c) == SelectSeq(c.parts, LAMBDA p : p # "padding")

RelayLen(keys) ==
  LET sum[k \in 0 .. Len(keys)] == IF k = 0 THEN 0 ELSE sum[k - 1] + KeyLen(keys[k]) + 32
  IN IF keys = <<>> THEN 0 ELSE sum[Len(keys)] - 32

\* process_relays: each relay is decapsulated with its key, then the hash of the
\* next key is compared; relays beyond the buffer would be a Relay error.
ProcessRelays(keys, relays) ==
  LET at[k \in 1 .. Len(keys)] == IF k = 1 THEN 0 ELSE at[k - 1] + KeyLen(keys[k - 1]) + 32
      error(k) ==
        IF at[k] + KeyLen(keys[k]) > RelayLen(keys) THEN "Relay"
        ELSE IF relays[k] = "badkey" THEN "Key"
        ELSE IF k < Len(keys) /\ at[k] + KeyLen(keys[k]) + 32 > RelayLen(keys) THEN "Relay"
        ELSE IF k < Len(keys) /\ relays[k] = "badhash" THEN "RelayHash"
        ELSE "ok"
      bad == {k \in 1 .. Len(keys) : error(k) # "ok"}
  IN IF bad = {} THEN "ok" ELSE error(CHOOSE k \in bad : \A j \in bad : k <= j)

\* handshake up to the first length: the error, or which handshake follows.
\* open_first_length tries both ciphers; 32 announces a ticket.
FirstLength(c, h) ==
  LET relays == ProcessRelays(Keys(c), h.relays)
  IN IF relays # "ok" THEN relays
     ELSE IF ~h.auth THEN "Authentication"
     ELSE IF h.length = 32 THEN (IF c.from = 0 /\ c.to = 0 THEN "ZeroRttDisabled" ELSE "zeroRtt")
     ELSE IF h.length < 1184 + 32 + 16 THEN "PfsLength"
     ELSE "pfs"

-------------------------------------------------------------------------------
(* The ticket cache: a function from tickets to [expires, replay].           *)

\* The lifetimes create_ticket may draw.
Lifetimes(c) ==
  CASE c.to # 0 -> c.from .. c.to
    [] c.to = 0 /\ c.from # 0 -> (c.from \div 2) .. c.from
    [] OTHER -> {0}

\* create_ticket: a ticket of no lifetime is sent but not kept.
CreateTicket(tickets, t, life, now) ==
  IF life = 0 THEN tickets
  ELSE [x \in DOMAIN tickets \cup {t} |->
          IF x = t THEN [expires |-> now + life, replay |-> {}] ELSE tickets[x]]

\* cleanup_tickets
CleanupTickets(tickets, now) ==
  [t \in {x \in DOMAIN tickets : tickets[x].expires > now} |-> tickets[t]]

\* handshake_zero_rtt, under the lock: unknown, already used with this key, or new.
Presented(tickets, t, key) ==
  CASE t \notin DOMAIN tickets -> "ExpiredTicket"
    [] t \in DOMAIN tickets /\ key \in tickets[t].replay -> "Replay"
    [] OTHER -> "ok"

\* As UseTicket, but the key is not remembered.
UseTicketForgets(tickets, t, key) == tickets

\* replay_keys.insert
UseTicket(tickets, t, key) ==
  IF Presented(tickets, t, key) = "ok"
  THEN [tickets EXCEPT ![t].replay = @ \cup {key}] ELSE tickets
===============================================================================
