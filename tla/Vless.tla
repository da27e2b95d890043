--------------------------------- MODULE Vless ---------------------------------
(***************************************************************************)
(* The VLESS codecs, as operators on messages whose fields are what the     *)
(* decoders tell apart:                                                     *)
(*   vless/header.rs, addons.rs, address.rs, validator.rs and xudp.rs.      *)
(* A decoder reads field after field and stops at the first bad one, so a   *)
(* result is the name of the first error, or "ok".                          *)
(*                                                                         *)
(* A raw user id is <<base, hint>>: the hint is the two bytes a client may  *)
(* use for routing.                                                         *)
(***************************************************************************)
EXTENDS Naturals, Sequences

CONSTANT Users   \* configured users in order: a sequence of records [id, flow]

Vision == "xtls-rprx-vision"
NoFlow == ""

\* process_uuid: bytes 6 and 7 are zeroed.
ProcessUuid(id) == <<id[1], 0>>

\* Validator::new and replace: the processed id is the key, and a later user
\* takes the place of an earlier one with the same key.
WithKey(key) == {i \in 1 .. Len(Users) : ProcessUuid(Users[i].id) = key}

\* As GetShared, but a later user does not replace an earlier one.
GetSharedFirst(raw) ==
  LET mine == WithKey(ProcessUuid(raw))
  IN {Users[i] : i \in {j \in mine : \A k \in mine : j <= k}}

\* Validator::get_shared: the matching user, as a set of at most one.
GetShared(raw) ==
  LET mine == WithKey(ProcessUuid(raw))
  IN {Users[i] : i \in {j \in mine : \A k \in mine : k <= j}}

-------------------------------------------------------------------------------
(* Addons: protobuf fields [field, wire, value, len], in the order in which   *)
(* the decoder reads them.  A length "fits" in the message, ends "beyond" it, *)
(* or is so large that the position wraps around in 64 bits: to a place not   *)
(* read from before ("wraps") or to one already read from ("again").          *)

FirstError(errors) ==
  LET bad == {i \in 1 .. Len(errors) : errors[i] # "ok"}
  IN IF bad = {} THEN "ok" ELSE errors[CHOOSE i \in bad : \A j \in bad : i <= j]

Recognized(f) == f.field \in {1, 2} /\ f.wire = 2

\* decode_addons_body: "ok" or the error of the first bad field.  A varint and a
\* length must be readable.  The flow and the seed must lie within the message; a
\* position that wraps passes that test, and the slice then panics.  Any other
\* field is skipped to wherever its length leads; from a place read before, the
\* loop comes back to the same field and never ends.
FieldError(f) == FirstError(<<
    IF f.wire \in {0, 2} /\ f.value # "novarint" THEN "ok" ELSE "BadWire",
    IF Recognized(f) /\ f.len = "beyond" THEN "Truncated" ELSE "ok",
    IF Recognized(f) /\ f.len \in {"wraps", "again"} THEN "Panics" ELSE "ok",
    IF Recognized(f) /\ f.field = 1 /\ f.value = "badutf8" THEN "BadUtf8" ELSE "ok",
    IF f.wire = 2 /\ ~Recognized(f) /\ f.len = "again" THEN "Spins" ELSE "ok">>)

DecodeAddons(fields) == FirstError([i \in 1 .. Len(fields) |-> FieldError(fields[i])])

\* The flow of the message: the last field 1 wins.
Flow(fields) ==
  LET flows == {i \in 1 .. Len(fields) : fields[i].field = 1 /\ fields[i].wire = 2}
  IN IF flows = {} THEN NoFlow
     ELSE fields[CHOOSE i \in flows : \A j \in flows : j <= i].value

\* encode_addons: a Vision message carries its flow, any other is empty.
EncodeAddons(flow) ==
  IF flow # Vision THEN <<>>
  ELSE <<[field |-> 1, wire |-> 2, value |-> Vision, len |-> "fits"]>>

-------------------------------------------------------------------------------
(* The request header [version, id, addons, command, atype, host].           *)

Command(b) == CASE b = 1 -> "tcp" [] b = 2 -> "udp" [] b = 3 -> "mux" [] b = 4 -> "reverse"
                [] OTHER -> "none"

\* read_address_port and parse_port_then_address: types 1 IPv4, 2 domain, 3 IPv6.
AddressError(atype, host) ==
  IF atype \notin 1 .. 3 THEN "UnknownType"
  ELSE IF host = "short" THEN "Underrun"
  ELSE IF atype = 2 /\ host = "empty" THEN "EmptyDomain"
  ELSE IF atype = 2 /\ host = "badutf8" THEN "BadDomainUtf8"
  ELSE "ok"

\* decode_request_header_shared.
DecodeRequestHeader(r) == FirstError(<<
    IF r.version = 0 THEN "ok" ELSE "BadVersion",
    IF GetShared(r.id) # {} THEN "ok" ELSE "AuthFailed",
    DecodeAddons(r.addons),
    IF Command(r.command) # "none" THEN "ok" ELSE "BadCommand",
    IF Command(r.command) # "reverse" THEN "ok" ELSE "ReverseUnsupported",
    IF Command(r.command) \in {"tcp", "udp"} THEN AddressError(r.atype, r.host) ELSE "ok">>)

-------------------------------------------------------------------------------
(* XUDP frames [len, id, status, data, network, atype, host].                *)

Status(b) == CASE b = 1 -> "new" [] b = 2 -> "keep" [] b = 3 -> "end" [] b = 4 -> "keepalive"
               [] OTHER -> "none"

\* read_frame: whether the metadata carries a target.
HasTarget(f) == Status(f.status) = "new" \/ (Status(f.status) = "keep" /\ f.network = 2)

ReadFrame(f) == FirstError(<<
    IF f.len \in 4 .. 512 THEN "ok" ELSE "MetadataLength",
    IF Status(f.status) # "none" THEN "ok" ELSE "Status",
    IF HasTarget(f) /\ f.network # 2 THEN "Network" ELSE "ok",
    IF HasTarget(f) THEN AddressError(f.atype, f.host) ELSE "ok">>)

\* encode_frame for a packet from the target at an IPv4 or IPv6 source.
ReplyFrame(id, atype) ==
  [len |-> 4 + 1 + 3 + (IF atype = 1 THEN 4 ELSE 16), id |-> id, status |-> 2, data |-> TRUE,
   network |-> 2, atype |-> atype, host |-> "good"]
===============================================================================
