----------------------------- MODULE MCDispatcher -----------------------------
(* Instances of Dispatcher for TLC. *)
EXTENDS Dispatcher

Encryption(from, to, parts) ==
  [scheme |-> "mlkem768x25519plus", mode |-> "random", from |-> from, to |-> to, parts |-> parts]

Hello(relays, auth, length) == [relays |-> relays, auth |-> auth, length |-> length]

MCHellos == { Hello(<<"ok", "ok">>, TRUE, 1232), Hello(<<"ok", "ok">>, TRUE, 32),
              Hello(<<"ok", "badkey">>, TRUE, 1232), Hello(<<"badhash", "ok">>, TRUE, 32),
              Hello(<<"ok", "ok">>, FALSE, 32), Hello(<<"ok", "ok">>, TRUE, 1231) }

\* Bob is configured twice, under ids that differ in the routing hint only.
User(id, flow) == [id |-> id, flow |-> flow]
MCUsers == << User(<<"alice", 7>>, NoFlow), User(<<"bob", 5>>, NoFlow), User(<<"bob", 0>>, Vision) >>

Field(field, wire, value, len) == <<[field |-> field, wire |-> wire, value |-> value, len |-> len]>>
FlowField(flow) == Field(1, 2, flow, "fits")
Request(version, id, addons, command, atype, host) ==
  [version |-> version, id |-> id, addons |-> addons, command |-> command,
   atype |-> atype, host |-> host]

MCRequests == {
  Request(0, <<"alice", 3>>, <<>>, 1, 2, "good"), Request(0, <<"alice", 0>>, <<>>, 2, 1, "good"),
  Request(0, <<"alice", 0>>, <<>>, 3, 0, "none"),
  Request(0, <<"bob", 1>>, EncodeAddons(Vision), 1, 3, "good"),
  Request(0, <<"bob", 0>>, EncodeAddons(Vision), 3, 0, "none"),
  Request(1, <<"alice", 0>>, <<>>, 1, 1, "good"), Request(0, <<"eve", 0>>, <<>>, 1, 1, "good"),
  Request(0, <<"bob", 0>>, <<>>, 2, 1, "good"), Request(0, <<"alice", 0>>, FlowField("other"), 1, 1, "good"),
  Request(0, <<"alice", 0>>, <<>>, 4, 1, "good"), Request(0, <<"alice", 0>>, <<>>, 0, 1, "good"),
  Request(0, <<"alice", 0>>, <<>>, 1, 2, "empty"), Request(0, <<"alice", 0>>, <<>>, 2, 9, "good"),
  Request(0, <<"bob", 0>>, Field(1, 2, Vision, "beyond"), 1, 1, "good"),
  Request(0, <<"bob", 0>>, Field(1, 2, Vision, "wraps"), 1, 1, "good"),
  Request(0, <<"bob", 0>>, FlowField(Vision) \o Field(3, 2, "", "beyond"), 1, 1, "good"),
  Request(0, <<"bob", 0>>, FlowField(Vision) \o Field(3, 2, "", "again"), 1, 1, "good"),
  Request(0, <<"bob", 0>>, Field(3, 5, "", "fits") \o FlowField(Vision), 1, 1, "good") }

Frame(status, id, data, network) ==
  [len |-> 12, id |-> id, status |-> status, data |-> data, network |-> network,
   atype |-> 1, host |-> "good"]

Packets(ids) == {Frame(status, id, TRUE, 2) : status \in 1 .. 2, id \in ids}
Ends(ids) == {Frame(3, id, FALSE, 0) : id \in ids}
OddFrames == {Frame(4, 1, FALSE, 0), Frame(2, 1, FALSE, 2), Frame(1, 1, FALSE, 2), Frame(2, 1, TRUE, 0),
              Frame(1, 1, TRUE, 1), Frame(7, 1, FALSE, 0)}

OfCommand(command) == {r \in MCRequests : r.command = command /\ r.id[1] = "alice" /\ Accepts(r)}
Scenario(encryption, n, clients, requests, frames) ==
  [encryption |-> encryption, targets |-> n, starts |-> clients, requests |-> requests, frames |-> frames]

\* Two clients and one permit; the tasks of one encrypted session; handshakes that
\* share the ticket cache; associations of one session, and their channels.
MCScenarios == {
  Scenario(NoEncryption, 1, 2, MCRequests, Packets({1}) \cup OddFrames),
  Scenario(Encryption(0, 0, <<"x25519">>), 2, 1, UNION {OfCommand(c) : c \in 1 .. 3}, {Frame(1, 1, FALSE, 2)}),
  Scenario(Encryption(1, 2, <<"padding", "x25519", "mlkem768">>), 1, 3, {}, {}),
  Scenario(NoEncryption, 2, 1, OfCommand(3), Packets(Ids) \cup Ends(Ids)) }
==============================================================================
