----------------------------- MODULE UplinkStream -----------------------------
(***************************************************************************)
(* What an XHTTP session's uplink promises to the protocol stack behind    *)
(* it: upload packets come out in sequence order, each number once and     *)
(* none left out.  A number is passed only on account of a packet that     *)
(* some POST brought under it, and silently only when that packet is       *)
(* empty; nothing follows the end of the stream.                           *)
(***************************************************************************)
EXTENDS Naturals, Sequences

CONSTANT Packets   \* [seq, len] records, the packets a client may upload

VARIABLES
  offered, \* packets brought by POSTs and not yet used or given up
  nxt,     \* the next sequence number that may enter the stream
  out,     \* the chunks that entered it so far
  taken,   \* how many of them the consumer has started to read
  ended    \* the consumer saw the end of the stream

vars == <<offered, nxt, out, taken, ended>>

Init == offered = {} /\ nxt = 0 /\ out = <<>> /\ taken = 0 /\ ended = FALSE

Offer(c) ==
  /\ offered' = offered \cup {c}
  /\ UNCHANGED <<nxt, out, taken, ended>>

\* Packets are refused, found to be duplicates, or lost with their POST or the
\* session.
Withdraw ==
  /\ offered' \subseteq offered
  /\ UNCHANGED <<nxt, out, taken, ended>>

\* The packet of the next number is used, alone.
Use(c) ==
  /\ c \in offered
  /\ c.seq = nxt
  /\ nxt' = nxt + 1
  /\ offered' \subseteq offered

Deliver(c) ==
  /\ Use(c)
  /\ ~ended
  /\ c.len > 0
  /\ out' = Append(out, c)
  /\ UNCHANGED <<taken, ended>>

\* An empty packet uses up its sequence number and adds nothing.
Skip(c) ==
  /\ Use(c)
  /\ c.len = 0
  /\ UNCHANGED <<out, taken, ended>>

Consume ==
  /\ taken < Len(out)
  /\ taken' = taken + 1
  /\ UNCHANGED <<offered, nxt, out, ended>>

End ==
  /\ taken = Len(out)
  /\ ended' = TRUE
  /\ UNCHANGED <<offered, nxt, out, taken>>

Next ==
  \/ \E c \in Packets : Offer(c) \/ Deliver(c) \/ Skip(c)
  \/ Withdraw \/ Consume \/ End

Spec == Init /\ [][Next]_vars
===============================================================================
