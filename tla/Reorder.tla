-------------------------------- MODULE Reorder --------------------------------
(***************************************************************************)
(* session/reorder.rs: the uplink of one XHTTP session.  Upload requests   *)
(* push numbered packets in any order; packets ahead of next_seq wait in a *)
(* bounded map, and the rest goes in order through a bounded channel to    *)
(* the reader, with the state mutex held across the awaits.                *)
(*                                                                         *)
(* A pusher is a POST handler future, so it can also be dropped at any     *)
(* await when its connection goes away.  The session table               *)
(* closes the uplink when it removes the session.                          *)
(*                                                                         *)
(* The channel is the suffix of `sent' that the reader has not received.   *)
(* A BudgetedBytes carries its Reservation, so the bytes charged are those *)
(* of the packets that exist: Reserved adds them up.                       *)
(***************************************************************************)
EXTENDS Integers, Sequences, FiniteSets, Totals

CONSTANTS
  Pushers,      \* POST handlers in flight
  Top,          \* u64::MAX
  Lens,         \* payload lengths
  MaxPackets,   \* max_packets, after max(1)
  MaxBytes,     \* max_bytes; 0 means no bound
  Depth,        \* channel_depth, after max(1)
  Limit         \* the global budget this session shares; 0 means unlimited

ASSUME ReorderAssumption ==
  /\ Top \in Nat
  /\ Lens \subseteq Nat
  /\ MaxPackets \in Nat \ {0} /\ Depth \in Nat \ {0}
  /\ MaxBytes \in Nat /\ Limit \in Nat
  /\ IsFiniteSet(Pushers)

VARIABLES
  next_seq, sequence_exhausted,
  pending,         \* pending[q]: length of the packet parked under q, or Absent
  pending_bytes, pending_count,
  tx,              \* the real sender exists (not replaced, not dropped)
  listed,          \* the session table still holds the session
  pc, arg, hand,   \* each pusher: where it is, its packet, the chunk it sends
  sent,            \* every chunk put into the channel
  rcvd,            \* how many of them the reader has received
  cur,             \* unread bytes of the chunk received last
  rx,              \* the reader exists
  eof,             \* the reader has seen the end of the stream
  acked,           \* sequence numbers some push answered with 200
  dropped          \* history: a push was dropped while sending a parked packet

state == <<next_seq, sequence_exhausted, pending_bytes, pending_count>>
readerState == <<rcvd, cur, rx, eof>>
vars == <<state, pending, tx, listed, pc, arg, hand, sent, readerState, acked, dropped>>

Seqs == 0 .. Top
Absent == -1
Chunk == [seq : Seqs, len : Lens \cup {0}]
NoChunk == [seq |-> 0, len |-> 0]
NothingPending == [q \in Seqs |-> Absent]

\* The pusher has an Arc of the session; those past "lock" hold the mutex.
Holding == {"sendOwn", "sendPending", "drain"}
InFlight == {"lock"} \cup Holding

TypeOK ==
  /\ next_seq \in Seqs
  /\ sequence_exhausted \in BOOLEAN
  /\ pending \in [Seqs -> Lens \cup {0, Absent}]
  /\ pending_bytes \in Int /\ pending_count \in Int
  /\ tx \in BOOLEAN /\ listed \in BOOLEAN
  /\ pc \in [Pushers -> {"idle", "teardown"} \cup InFlight]
  /\ arg \in [Pushers -> Chunk]
  /\ hand \in [Pushers -> Chunk]
  /\ sent \in Seq(Chunk)
  /\ rcvd \in 0 .. Len(sent)
  /\ cur \in Nat
  /\ rx \in BOOLEAN /\ eof \in BOOLEAN
  /\ acked \subseteq Seqs
  /\ dropped \in BOOLEAN

Init ==
  /\ next_seq = 0
  /\ sequence_exhausted = FALSE
  /\ pending = NothingPending
  /\ pending_bytes = 0 /\ pending_count = 0
  /\ tx = TRUE /\ listed = TRUE
  /\ pc = [p \in Pushers |-> "idle"]
  /\ arg = [p \in Pushers |-> NoChunk]
  /\ hand = [p \in Pushers |-> NoChunk]
  /\ sent = <<>>
  /\ rcvd = 0 /\ cur = 0
  /\ rx = TRUE /\ eof = FALSE
  /\ acked = {}
  /\ dropped = FALSE

-------------------------------------------------------------------------------
Parked == {q \in Seqs : pending[q] # Absent}

Free == \A p \in Pushers : pc[p] \notin Holding

ChannelLen == Len(sent) - rcvd

\* The lengths of the chunks being sent and of the chunks sent.
HandLens == [p \in Pushers |-> hand[p].len]
SentLens == [k \in 1 .. Len(sent) |-> sent[k].len]

\* The chunks in the channel, and the one the reader is still reading.
Buffered == (IF cur > 0 THEN rcvd ELSE rcvd + 1) .. Len(sent)

\* Bytes this session has reserved from the global budget: parked packets, the
\* chunk being sent, the channel, and the chunk the reader is still reading.
Reserved ==
  Total(pending, Parked) + Total(HandLens, Pushers)
  + (IF rx THEN Total(SentLens, Buffered) ELSE 0)

\* reserve_payload: other sessions may have taken any part of the budget that
\* is left, so a non-empty payload can always be refused.
CanReserve(len) == Limit # 0 => Reserved + len <= Limit
CanRefuse(len) == Limit # 0 /\ len > 0

\* As Leave, with the sender kept alive by a forgotten clone of the Arc.
LeaveArc(p, pend, then) ==
  /\ pc' = [pc EXCEPT ![p] = then]
  /\ arg' = [arg EXCEPT ![p] = NoChunk]
  /\ hand' = [hand EXCEPT ![p] = NoChunk]
  /\ pending' = pend
  /\ UNCHANGED tx

\* push returns: the mutex and the Arc are dropped.  When the table no longer
\* has the session, the last push drops the state with it.
Leave(p, pend, then) ==
  LET last == ~listed /\ \A q \in Pushers \ {p} : pc[q] \notin InFlight
  IN  /\ pc' = [pc EXCEPT ![p] = then]
      /\ arg' = [arg EXCEPT ![p] = NoChunk]
      /\ hand' = [hand EXCEPT ![p] = NoChunk]
      /\ pending' = IF last THEN NothingPending ELSE pend
      /\ tx' = (tx /\ ~last)

-------------------------------------------------------------------------------
(* push *)

\* push_uplink found the session in the table.
Start(p, q, len) ==
  /\ pc[p] = "idle"
  /\ listed
  /\ pc' = [pc EXCEPT ![p] = "lock"]
  /\ arg' = [arg EXCEPT ![p] = [seq |-> q, len |-> len]]
  /\ UNCHANGED <<state, pending, tx, listed, hand, sent, readerState, acked, dropped>>

Locks(p) == pc[p] = "lock" /\ Free

\* As Duplicate, with the comparison off by one.
DuplicateOrNext(p) ==
  /\ Locks(p)
  /\ arg[p].seq <= next_seq
  /\ acked' = acked \cup {arg[p].seq}
  /\ Leave(p, pending, "idle")
  /\ UNCHANGED <<state, listed, sent, readerState, dropped>>

Duplicate(p) ==
  /\ Locks(p)
  /\ \/ sequence_exhausted
     \/ arg[p].seq < next_seq
     \/ arg[p].seq > next_seq /\ arg[p].seq \in Parked
  /\ acked' = acked \cup {arg[p].seq}
  /\ Leave(p, pending, "idle")
  /\ UNCHANGED <<state, listed, sent, readerState, dropped>>

\* The packet is ahead of next_seq and not parked yet.
Ahead(p) ==
  /\ Locks(p)
  /\ ~sequence_exhausted
  /\ arg[p].seq > next_seq
  /\ arg[p].seq \notin Parked

PacketsFull == Cardinality(Parked) >= MaxPackets

\* As BytesFull, with the new packet left out of the sum.
BytesFullAlready(len) == MaxBytes # 0 /\ pending_bytes > MaxBytes

BytesFull(len) == MaxBytes # 0 /\ pending_bytes + len > MaxBytes

\* TooManyPending, TooManyPendingBytes: the handler will remove the session.
TooMany(p) ==
  /\ Ahead(p)
  /\ PacketsFull \/ BytesFull(arg[p].len)
  /\ Leave(p, pending, "teardown")
  /\ UNCHANGED <<state, listed, sent, readerState, acked, dropped>>

Park(p) ==
  /\ Ahead(p)
  /\ ~PacketsFull /\ ~BytesFull(arg[p].len)
  /\ CanReserve(arg[p].len)
  /\ pending_bytes' = pending_bytes + arg[p].len
  /\ pending_count' = pending_count + 1
  /\ acked' = acked \cup {arg[p].seq}
  /\ Leave(p, [pending EXCEPT ![arg[p].seq] = arg[p].len], "idle")
  /\ UNCHANGED <<next_seq, sequence_exhausted, listed, sent, readerState, dropped>>

\* The packet is the next one.
IsNext(p) ==
  /\ Locks(p)
  /\ ~sequence_exhausted
  /\ arg[p].seq = next_seq

\* GlobalBufferExceeded
GlobalFull(p) ==
  /\ IsNext(p) \/ (Ahead(p) /\ ~PacketsFull /\ ~BytesFull(arg[p].len))
  /\ CanRefuse(arg[p].len)
  /\ Leave(p, pending, "idle")
  /\ UNCHANGED <<state, listed, sent, readerState, acked, dropped>>

\* The reservation succeeds: send_in_order takes the chunk.
TakeOwn(p) ==
  /\ IsNext(p)
  /\ CanReserve(arg[p].len)
  /\ pc' = [pc EXCEPT ![p] = "sendOwn"]
  /\ hand' = [hand EXCEPT ![p] = arg[p]]
  /\ UNCHANGED <<state, pending, tx, listed, arg, sent, readerState, acked, dropped>>

\* next_seq moves past the chunk in p's hand, or the last number was used.
Advance(p) ==
  IF next_seq = Top
  THEN /\ sequence_exhausted' = TRUE
       /\ acked' = acked \cup {arg[p].seq}
       /\ Leave(p, pending, "idle")
       /\ UNCHANGED next_seq
  ELSE /\ next_seq' = next_seq + 1
       /\ pc' = [pc EXCEPT ![p] = "drain"]
       /\ hand' = [hand EXCEPT ![p] = NoChunk]
       /\ UNCHANGED <<sequence_exhausted, acked, arg, pending, tx>>

Sending(p) == pc[p] \in {"sendOwn", "sendPending"}

\* As SendEmpty, also for a payload that the channel has no room for.
SendEmptyOrFull(p) ==
  /\ Sending(p)
  /\ hand[p].len = 0 \/ ChannelLen = Depth
  /\ Advance(p)
  /\ UNCHANGED <<pending_bytes, pending_count, listed, sent, readerState, dropped>>

\* send_in_order of an empty payload sends nothing.
SendEmpty(p) ==
  /\ Sending(p)
  /\ hand[p].len = 0
  /\ Advance(p)
  /\ UNCHANGED <<pending_bytes, pending_count, listed, sent, readerState, dropped>>

\* The channel is open and has room; with none, the push waits.
Send(p) ==
  /\ Sending(p)
  /\ hand[p].len > 0
  /\ tx /\ rx
  /\ ChannelLen < Depth
  /\ sent' = Append(sent, hand[p])
  /\ Advance(p)
  /\ UNCHANGED <<pending_bytes, pending_count, listed, readerState, dropped>>

\* The other end is gone: Closed, and the chunk is dropped.
SendClosed(p) ==
  /\ Sending(p)
  /\ hand[p].len > 0
  /\ ~(tx /\ rx)
  /\ Leave(p, pending, "idle")
  /\ UNCHANGED <<state, listed, sent, readerState, acked, dropped>>

\* As DrainNext, lowering only the byte counter.
DrainNextUncounted(p) ==
  /\ pc[p] = "drain"
  /\ next_seq \in Parked
  /\ pending_bytes' = pending_bytes - pending[next_seq]
  /\ pending' = [pending EXCEPT ![next_seq] = Absent]
  /\ hand' = [hand EXCEPT ![p] = [seq |-> next_seq, len |-> pending[next_seq]]]
  /\ pc' = [pc EXCEPT ![p] = "sendPending"]
  /\ UNCHANGED <<next_seq, sequence_exhausted, pending_count, tx, listed, arg, sent, readerState, acked, dropped>>

\* The packet after the one just sent was parked: it is next.
DrainNext(p) ==
  /\ pc[p] = "drain"
  /\ next_seq \in Parked
  /\ pending_bytes' = pending_bytes - pending[next_seq]
  /\ pending_count' = pending_count - 1
  /\ pending' = [pending EXCEPT ![next_seq] = Absent]
  /\ hand' = [hand EXCEPT ![p] = [seq |-> next_seq, len |-> pending[next_seq]]]
  /\ pc' = [pc EXCEPT ![p] = "sendPending"]
  /\ UNCHANGED <<next_seq, sequence_exhausted, tx, listed, arg, sent, readerState, acked, dropped>>

\* As DrainDone, without looking for a follower.
DrainDoneAtOnce(p) ==
  /\ pc[p] = "drain"
  /\ acked' = acked \cup {arg[p].seq}
  /\ Leave(p, pending, "idle")
  /\ UNCHANGED <<state, listed, sent, readerState, dropped>>

\* It was not: Accepted.
DrainDone(p) ==
  /\ pc[p] = "drain"
  /\ next_seq \notin Parked
  /\ acked' = acked \cup {arg[p].seq}
  /\ Leave(p, pending, "idle")
  /\ UNCHANGED <<state, listed, sent, readerState, dropped>>

\* The handler's future is dropped at an await, that is, while it waits for the
\* mutex or in the channel's send (which yields when the channel is full, and
\* also when tokio's cooperative budget is used up); a chunk in its hand goes
\* with it.
Cancel(p) ==
  /\ pc[p] = "lock" \/ (Sending(p) /\ hand[p].len > 0)
  /\ Leave(p, pending, "idle")
  /\ dropped' = (dropped \/ pc[p] = "sendPending")
  /\ UNCHANGED <<state, listed, sent, readerState, acked>>

-------------------------------------------------------------------------------
(* close, called when the session leaves the table *)

\* try_lock succeeds: the sender is replaced by a dead one and the parked
\* packets are dropped.  It fails while a push holds the mutex, or was handed
\* it and has not run yet: then nothing happens here.
Close ==
  /\ listed' = FALSE
  /\ \/ Free /\ tx' = FALSE /\ pending' = NothingPending
     \/ (\E p \in Pushers : pc[p] \in InFlight) /\ UNCHANGED <<tx, pending>>
  /\ UNCHANGED <<state, arg, hand, sent, readerState, acked, dropped>>

\* The reaper, the end of the GET, or another POST removes the session.
Remove == listed /\ Close /\ UNCHANGED pc

\* This POST removes it, unless someone did already.
Teardown(p) ==
  /\ pc[p] = "teardown"
  /\ pc' = [pc EXCEPT ![p] = "idle"]
  /\ IF listed THEN Close
     ELSE UNCHANGED <<state, pending, tx, listed, arg, hand, sent, readerState, acked, dropped>>

-------------------------------------------------------------------------------
(* the reader, held by the protocol task *)

\* poll_read: some bytes of the current chunk, or of the next one in the
\* channel.  A chunk that is read to its end is dropped.
Read ==
  /\ rx
  /\ \/ /\ cur > 0
        /\ \E n \in 1 .. cur : cur' = cur - n
        /\ UNCHANGED rcvd
     \/ /\ cur = 0 /\ ChannelLen > 0
        /\ \E n \in 1 .. sent[rcvd + 1].len : cur' = sent[rcvd + 1].len - n
        /\ rcvd' = rcvd + 1
  /\ UNCHANGED <<state, pending, tx, listed, pc, arg, hand, sent, rx, eof, acked, dropped>>

\* The channel is empty and its sender is gone.
ReadEof ==
  /\ rx /\ ~eof
  /\ cur = 0 /\ ChannelLen = 0 /\ ~tx
  /\ eof' = TRUE
  /\ UNCHANGED <<state, pending, tx, listed, pc, arg, hand, sent, rcvd, cur, rx, acked, dropped>>

\* The protocol task ends, at any time; what the channel holds is freed.
DropReader ==
  /\ rx
  /\ rx' = FALSE
  /\ cur' = 0
  /\ UNCHANGED <<state, pending, tx, listed, pc, arg, hand, sent, rcvd, eof, acked, dropped>>

-------------------------------------------------------------------------------
PushStep(p) ==
  \/ Duplicate(p) \/ TooMany(p) \/ Park(p) \/ GlobalFull(p) \/ TakeOwn(p)
  \/ SendEmpty(p) \/ Send(p) \/ SendClosed(p)
  \/ DrainNext(p) \/ DrainDone(p) \/ Teardown(p)

Next ==
  \/ \E p \in Pushers, q \in Seqs, len \in Lens : Start(p, q, len)
  \/ \E p \in Pushers : PushStep(p) \/ Cancel(p)
  \/ Remove
  \/ Read \/ ReadEof \/ DropReader

Spec == Init /\ [][Next]_vars

\* The executor keeps polling a push that can run, tokio's mutex is handed out
\* in arrival order, and the protocol task keeps reading (or ends): its target
\* accepts data.  Nothing is assumed of clients or of the session's removal.
FairSpec ==
  /\ Spec
  /\ \A p \in Pushers : SF_vars(PushStep(p))
  /\ WF_vars(Read \/ ReadEof)

-------------------------------------------------------------------------------
(* properties *)

\* The number of sequence numbers used up so far.
Consumed == IF sequence_exhausted THEN next_seq + 1 ELSE next_seq

\* The packets the session has and has not put into the stream: those of the
\* POSTs in flight, the parked ones, and the one being sent.
Offered ==
  {arg[p] : p \in {r \in Pushers : pc[r] \in InFlight}}
  \cup {[seq |-> q, len |-> pending[q]] : q \in Parked}
  \cup {hand[p] : p \in {r \in Pushers : Sending(r)}}

\* "guarantees the consumer sees bytes in strict seq order": the reader's stream
\* is the ordered, gap-free one of UplinkStream, however pushes, cancelled
\* pushes, close and the reader interleave.  A number is passed over without
\* output only when the packet that came under it is empty.
Stream == INSTANCE UplinkStream WITH
  Packets <- Chunk, offered <- Offered,
  nxt <- Consumed, out <- sent, taken <- rcvd, ended <- eof
StreamSpec == Stream!Spec

\* A packet is never left behind: whenever the mutex is free, the packet that
\* would be next is not sitting in the map ("a missing seq blocks the consumer
\* until it arrives" - it did not arrive).
DrainComplete == Free /\ ~sequence_exhausted => next_seq \notin Parked

\* The out-of-order map, the byte counter that limits it and the channel respect
\* their bounds, whichever way a push ended.
Bounded ==
  /\ Cardinality(Parked) <= MaxPackets
  /\ MaxBytes # 0 => pending_bytes <= MaxBytes
  /\ ChannelLen <= Depth

\* As long as the uplink is open, the two counters read without the mutex (by
\* the byte bound and by the gauges) are the map's contents, also when a push
\* is cancelled half-way through the drain.
CountersExact ==
  tx => /\ pending_count = Cardinality(Parked)
        /\ pending_bytes = Total(pending, Parked)

\* "globalBufferBytes is a hard shared budget for accepted XHTTP upload buffers"
\* (docs/performance-and-availability.md): what the session buffers anywhere
\* between the POST and the protocol reader stays within it.
BudgetHeld == Limit # 0 => Reserved <= Limit

\* A packet answered with 200 is in the stream, parked, or being sent, until
\* the session ends: the client will not send it again.
AcceptedKept ==
  tx /\ rx => \A q \in acked :
    \/ q < Consumed
    \/ q \in Parked
    \/ \E p \in Pushers : pc[p] = "sendPending" /\ hand[p].seq = q

\* No accepted packet is lost as long as no POST is dropped while it drains:
\* duplicates, refusals, teardowns and drops elsewhere never lose one.
AckedKept == ~dropped => AcceptedKept

\* Backpressure is not a deadlock: a push that waits for the mutex or for room
\* in the channel returns once the reader moves on or goes away.
PushReturns == \A p \in Pushers : pc[p] # "idle" ~> pc[p] = "idle"

\* "the reader still ends when all senders drop": also when close found the
\* mutex taken and did nothing, the reader of a removed session reaches EOF.
RemovedEnds == ~listed ~> (eof \/ ~rx)

\* Everything the uplink holds is counted once and within the global budget,
\* whichever way the push that brought it ended.
Accounted == CountersExact /\ BudgetHeld

\* No push waits for ever, and no reader of a removed session.
NobodyStuck == PushReturns /\ RemovedEnds

===============================================================================
