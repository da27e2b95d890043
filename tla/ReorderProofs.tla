----------------------------- MODULE ReorderProofs -----------------------------
(***************************************************************************)
(* The uplink of session/reorder.rs, for any number of concurrent POSTs,   *)
(* any packet lengths, any bounds and any width of the sequence number,    *)
(* with POSTs cancelled at any await, a close at any time and a reader     *)
(* that may go away.                                                       *)
(***************************************************************************)
EXTENDS Reorder, TotalsProofs, TLAPS

\* The mutex is exclusive.
Mutex ==
  \A p, q \in Pushers : pc[p] \in Holding /\ pc[q] \in Holding => p = q

\* What the mutex holder sends is the next packet; it holds the mutex only
\* while there is a next packet.
HandIsNext ==
  \A p \in Pushers :
    /\ pc[p] \in Holding => ~sequence_exhausted
    /\ Sending(p) => hand[p].seq = next_seq

\* While nobody is in the drain loop, the next packet is not parked.
NextNotParked ==
  ~sequence_exhausted /\ (\A p \in Pushers : pc[p] # "drain")
    => pending[next_seq] = Absent

\* The reader saw the end only of a drained channel without a sender.
EofIsFinal == eof => ~tx /\ rcvd = Len(sent)

\* The inductive invariant.
UplinkInv == TypeOK /\ Mutex /\ HandIsNext /\ NextNotParked /\ EofIsFinal

-------------------------------------------------------------------------------
\* Lengths and packets are of the types the definitions expect.
LEMMA Types ==
  /\ Absent \notin Lens
  /\ NoChunk \in Chunk
  /\ NothingPending \in [Seqs -> Lens \cup {0, Absent}]
  /\ 0 \in Seqs
  /\ \A c \in Chunk : c.len \in Nat /\ c.seq \in Seqs
<1>1. Absent \notin Lens /\ 0 \in Seqs
  BY ReorderAssumption DEF Absent, Seqs
<1>2. NoChunk \in Chunk
  BY <1>1 DEF NoChunk, Chunk
<1>3. NothingPending \in [Seqs -> Lens \cup {0, Absent}]
  BY DEF NothingPending
<1>4. ASSUME NEW c \in Chunk PROVE c.len \in Nat /\ c.seq \in Seqs
  <2>1. c.len \in Lens \cup {0} /\ c.seq \in Seqs
    BY DEF Chunk
  <2>2. Lens \cup {0} \subseteq Nat
    BY ReorderAssumption
  <2> QED
    BY <2>1, <2>2
<1> QED
  BY <1>1, <1>2, <1>3, <1>4

\* The fields Leave assigns keep their types.
LEMMA LeaveType ==
  ASSUME TypeOK, NEW p \in Pushers, NEW pend \in [Seqs -> Lens \cup {0, Absent}],
         NEW then \in {"idle", "teardown"}, Leave(p, pend, then)
  PROVE  /\ pc' = [pc EXCEPT ![p] = then]
         /\ pc' \in [Pushers -> {"idle", "teardown"} \cup InFlight]
         /\ arg' \in [Pushers -> Chunk]
         /\ hand' \in [Pushers -> Chunk]
         /\ \A q \in Pushers : q # p => hand'[q] = hand[q]
         /\ pending' \in [Seqs -> Lens \cup {0, Absent}]
         /\ pending' \in {pend, NothingPending}
         /\ tx' \in BOOLEAN
         /\ tx' => tx
  BY Types DEF Leave, TypeOK

\* A fresh uplink satisfies the invariant.
LEMMA UplinkInvInit == Init => UplinkInv
<1> SUFFICES ASSUME Init PROVE UplinkInv
  OBVIOUS
<1>a. /\ sequence_exhausted \in BOOLEAN /\ tx \in BOOLEAN /\ listed \in BOOLEAN
      /\ rx \in BOOLEAN /\ eof \in BOOLEAN /\ dropped \in BOOLEAN
  BY DEF Init
<1>b. sent \in Seq(Chunk) /\ rcvd \in 0 .. Len(sent) /\ cur \in Nat /\ acked \subseteq Seqs
  BY DEF Init
<1>c. /\ next_seq \in Seqs /\ pending_bytes \in Int /\ pending_count \in Int
      /\ pending \in [Seqs -> Lens \cup {0, Absent}]
      /\ pc \in [Pushers -> {"idle", "teardown"} \cup InFlight]
      /\ arg \in [Pushers -> Chunk] /\ hand \in [Pushers -> Chunk]
  BY Types DEF Init, NothingPending
<1>1. TypeOK
  BY <1>a, <1>b, <1>c DEF TypeOK
<1>2. Mutex /\ HandIsNext /\ NextNotParked /\ EofIsFinal
  BY Types DEF Init, Mutex, HandIsNext, NextNotParked, EofIsFinal, Holding, Sending, NothingPending
<1> QED
  BY <1>1, <1>2 DEF UplinkInv

\* A push that returns, or is cancelled, without having moved next_seq or the
\* channel keeps the invariant.
LEMMA LeaveKeeps ==
  ASSUME UplinkInv, NEW p \in Pushers, NEW pend \in [Seqs -> Lens \cup {0, Absent}],
         NEW then \in {"idle", "teardown"}, Leave(p, pend, then),
         pc[p] = "drain" => pending[next_seq] = Absent,
         \A q \in Seqs : pend[q] # Absent => pending[q] # Absent \/ q > next_seq,
         UNCHANGED <<next_seq, sequence_exhausted, sent, readerState>>,
         pending_bytes' \in Int, pending_count' \in Int,
         listed' \in BOOLEAN, dropped' \in BOOLEAN, acked' \subseteq Seqs
  PROVE  UplinkInv'
<1>1. TypeOK'
  BY LeaveType DEF TypeOK, UplinkInv, readerState
<1>2. Mutex' /\ HandIsNext' /\ EofIsFinal'
  BY LeaveType, SMTT(30) DEF UplinkInv, Mutex, HandIsNext, EofIsFinal, Sending, Holding, TypeOK, readerState
<1>3. NextNotParked'
  <2> SUFFICES ASSUME ~sequence_exhausted, \A q \in Pushers : pc'[q] # "drain",
                      pending'[next_seq] # Absent
               PROVE  FALSE
    BY DEF NextNotParked
  <2>1. next_seq \in Seqs
    BY DEF UplinkInv, TypeOK
  <2>2. pending' = pend
    BY LeaveType, <2>1 DEF UplinkInv, NothingPending
  <2>3. pending[next_seq] # Absent
    BY <2>1, <2>2, ReorderAssumption DEF Seqs
  <2>4. \A q \in Pushers : q # p => pc[q] # "drain"
    BY LeaveType DEF UplinkInv, TypeOK
  <2> QED
    BY <2>3, <2>4 DEF UplinkInv, NextNotParked
<1> QED
  BY <1>1, <1>2, <1>3 DEF UplinkInv

\* Every step of a POST, of the reader and of a removal keeps the invariant.
LEMMA UplinkInvStep == UplinkInv /\ [Next]_vars => UplinkInv'
<1> SUFFICES ASSUME UplinkInv, [Next]_vars PROVE UplinkInv'
  OBVIOUS
<1> USE DEF state, readerState
<1>a. TypeOK /\ next_seq \in Seqs /\ pending \in [Seqs -> Lens \cup {0, Absent}]
  BY DEF UplinkInv, TypeOK
<1>1. CASE UNCHANGED vars
  BY <1>1 DEF vars, UplinkInv, TypeOK, Mutex, HandIsNext, NextNotParked, EofIsFinal, Sending
<1>2. ASSUME NEW p \in Pushers, NEW q \in Seqs, NEW len \in Lens, Start(p, q, len)
      PROVE  UplinkInv'
  <2>1. [seq |-> q, len |-> len] \in Chunk
    BY DEF Chunk
  <2> QED
    BY <1>2, <2>1 DEF Start, UplinkInv, TypeOK, Mutex, HandIsNext, NextNotParked, EofIsFinal,
       Sending, Holding, InFlight
<1>3. ASSUME NEW p \in Pushers, Duplicate(p) PROVE UplinkInv'
  <2>1. arg[p].seq \in Seqs
    BY <1>a, Types DEF TypeOK
  <2> QED
    BY <1>3, <1>a, <2>1, LeaveKeeps DEF Duplicate, Locks, TypeOK
<1>4. ASSUME NEW p \in Pushers, TooMany(p) PROVE UplinkInv'
  BY <1>4, <1>a, LeaveKeeps DEF TooMany, Ahead, Locks, TypeOK
<1>5. ASSUME NEW p \in Pushers, Park(p) PROVE UplinkInv'
  <2>1. arg[p].seq \in Seqs /\ arg[p].len \in Nat
    BY <1>a, Types DEF TypeOK
  <2>2. pc[p] = "lock" /\ arg[p].seq > next_seq
    BY <1>5 DEF Park, Ahead, Locks
  <2>3. arg[p].len \in Lens \cup {0}
    BY <1>a DEF TypeOK, Chunk
  <2> DEFINE pend == [pending EXCEPT ![arg[p].seq] = arg[p].len]
  <2>4. pend \in [Seqs -> Lens \cup {0, Absent}]
    BY <1>a, <2>3
  <2>5. \A q \in Seqs : pend[q] # Absent => pending[q] # Absent \/ q > next_seq
    BY <1>a, <2>2
  <2>6. pending_bytes' \in Int /\ pending_count' \in Int
    BY <1>5, <1>a, <2>1 DEF Park, TypeOK
  <2>7. listed' \in BOOLEAN /\ dropped' \in BOOLEAN /\ acked' \subseteq Seqs
    BY <1>5, <1>a, <2>1 DEF Park, TypeOK
  <2>8. Leave(p, pend, "idle") /\ UNCHANGED <<next_seq, sequence_exhausted, sent, readerState>>
    BY <1>5 DEF Park
  <2> HIDE DEF pend
  <2> QED
    BY <2>2, <2>4, <2>5, <2>6, <2>7, <2>8, LeaveKeeps
<1>6. ASSUME NEW p \in Pushers, GlobalFull(p) PROVE UplinkInv'
  BY <1>6, <1>a, LeaveKeeps DEF GlobalFull, IsNext, Ahead, Locks, TypeOK
<1>7. ASSUME NEW p \in Pushers, TakeOwn(p) PROVE UplinkInv'
  BY <1>7 DEF TakeOwn, IsNext, Locks, Free, UplinkInv, TypeOK, Mutex, HandIsNext, NextNotParked,
     EofIsFinal, Sending, Holding, InFlight
<1>8. ASSUME NEW p \in Pushers, SendClosed(p) PROVE UplinkInv'
  BY <1>8, <1>a, LeaveKeeps DEF SendClosed, Sending, TypeOK
<1>9. ASSUME NEW p \in Pushers, DrainDone(p) PROVE UplinkInv'
  <2>1. arg[p].seq \in Seqs
    BY <1>a, Types DEF TypeOK
  <2> QED
    BY <1>9, <1>a, <2>1, LeaveKeeps DEF DrainDone, Parked, TypeOK
<1>10. ASSUME NEW p \in Pushers, Cancel(p) PROVE UplinkInv'
  BY <1>10, <1>a, LeaveKeeps DEF Cancel, Sending, TypeOK
<1>11. ASSUME NEW p \in Pushers, SendEmpty(p) \/ Send(p) PROVE UplinkInv'
  <2>1. Sending(p) /\ Advance(p) /\ sent' \in Seq(Chunk) /\ Len(sent) <= Len(sent')
    BY <1>11, <1>a DEF SendEmpty, Send, TypeOK
  <2>2. UNCHANGED <<pending_bytes, pending_count, listed, readerState, dropped>>
    BY <1>11 DEF SendEmpty, Send
  <2>3. arg[p].seq \in Seqs
    BY <1>a, Types DEF TypeOK
  <2>4. eof' => sent' = sent
    BY <1>11, <2>2 DEF SendEmpty, Send, UplinkInv, EofIsFinal
  <2>5. CASE next_seq = Top
    <3>1. Leave(p, pending, "idle") /\ sequence_exhausted' /\ next_seq' = next_seq
          /\ acked' = acked \cup {arg[p].seq}
      BY <2>1, <2>5 DEF Advance
    <3>2. TypeOK'
      BY <1>a, <2>1, <2>2, <2>3, <3>1, LeaveType DEF TypeOK
    <3>3. Mutex' /\ NextNotParked'
      BY <1>a, <3>1, LeaveType DEF UplinkInv, Mutex, NextNotParked, Holding, TypeOK
    <3>4. HandIsNext'
      BY <1>a, <2>1, <3>1, LeaveType DEF UplinkInv, Mutex, HandIsNext, Sending, Holding, TypeOK
    <3>5. EofIsFinal'
      BY <1>a, <2>2, <2>4, <3>1, LeaveType DEF UplinkInv, EofIsFinal
    <3> QED
      BY <3>2, <3>3, <3>4, <3>5 DEF UplinkInv
  <2>6. CASE next_seq # Top
    <3>1. /\ next_seq' = next_seq + 1
          /\ pc' = [pc EXCEPT ![p] = "drain"]
          /\ hand' = [hand EXCEPT ![p] = NoChunk]
          /\ UNCHANGED <<sequence_exhausted, acked, arg, pending, tx>>
      BY <2>1, <2>6 DEF Advance
    <3>2. next_seq' \in Seqs
      BY <1>a, <2>6, <3>1, ReorderAssumption DEF Seqs
    <3>3. TypeOK'
      BY <1>a, <2>1, <2>2, <3>1, <3>2, Types DEF TypeOK, InFlight, Holding
    <3>4. Mutex' /\ HandIsNext' /\ NextNotParked'
      BY <1>a, <2>1, <3>1 DEF UplinkInv, Mutex, HandIsNext, NextNotParked, Sending, Holding, TypeOK
    <3>5. EofIsFinal'
      BY <2>2, <2>4, <3>1 DEF UplinkInv, EofIsFinal
    <3> QED
      BY <3>3, <3>4, <3>5 DEF UplinkInv
  <2> QED
    BY <2>5, <2>6
<1>12. ASSUME NEW p \in Pushers, DrainNext(p) PROVE UplinkInv'
  <2>0. Lens \cup {0} \subseteq Int
    BY ReorderAssumption
  <2>1. pending[next_seq] \in Lens \cup {0} /\ pending[next_seq] \in Int
    BY <1>12, <1>a, <2>0 DEF DrainNext, Parked
  <2>2. [seq |-> next_seq, len |-> pending[next_seq]] \in Chunk
    BY <1>a, <2>1 DEF Chunk
  <2>3. TypeOK'
    BY <1>12, <1>a, <2>1, <2>2 DEF DrainNext, TypeOK, InFlight, Holding
  <2>4. Mutex' /\ HandIsNext' /\ EofIsFinal'
    BY <1>12, <1>a DEF DrainNext, UplinkInv, Mutex, HandIsNext, EofIsFinal, Sending, Holding, TypeOK
  <2>5. NextNotParked'
    BY <1>12, <1>a DEF DrainNext, NextNotParked
  <2> QED
    BY <2>3, <2>4, <2>5 DEF UplinkInv
<1>13. ASSUME Close, UNCHANGED pc \/ (\E p \in Pushers : pc[p] = "teardown" /\ pc' = [pc EXCEPT ![p] = "idle"])
       PROVE  UplinkInv'
  <2>a. pc' \in [Pushers -> {"idle", "teardown"} \cup InFlight]
    BY <1>13, <1>a DEF TypeOK
  <2>b. tx' \in BOOLEAN /\ (tx' => tx)
    <3>1. CASE tx' = FALSE
      BY <3>1
    <3>2. CASE UNCHANGED <<tx, pending>>
      BY <3>2, <1>a DEF TypeOK
    <3> QED
      BY <1>13, <3>1, <3>2, Zenon DEF Close
  <2>c. pending' \in [Seqs -> Lens \cup {0, Absent}]
    BY <1>13, <1>a, Types, Zenon DEF Close, TypeOK
  <2>d. listed' \in BOOLEAN
    BY <1>13, Zenon DEF Close
  <2>1. TypeOK' /\ (tx' => tx)
    BY <1>13, <1>a, <2>a, <2>b, <2>c, <2>d DEF Close, TypeOK
  <2>2. Mutex' /\ HandIsNext' /\ EofIsFinal'
    BY <1>13, <1>a, <2>1 DEF Close, UplinkInv, Mutex, HandIsNext, EofIsFinal, Sending, Holding, TypeOK
  <2>3. NextNotParked'
    BY <1>13, <1>a, <2>1 DEF Close, UplinkInv, NextNotParked, NothingPending, TypeOK
  <2> QED
    BY <2>1, <2>2, <2>3 DEF UplinkInv
<1>14. CASE Remove
  BY <1>13, <1>14 DEF Remove
<1>15. ASSUME NEW p \in Pushers, Teardown(p) PROVE UplinkInv'
  <2>1. CASE listed
    BY <1>13, <1>15, <2>1 DEF Teardown
  <2>2. CASE ~listed
    BY <1>15, <1>a, <2>2 DEF Teardown, UplinkInv, TypeOK, Mutex, HandIsNext, NextNotParked,
       EofIsFinal, Sending, Holding
  <2> QED
    BY <2>1, <2>2
<1>16. CASE Read
  <2>1. rcvd < Len(sent) => sent[rcvd + 1] \in Chunk
    BY <1>a DEF TypeOK
  <2>2. rcvd < Len(sent) => sent[rcvd + 1].len \in Nat
    BY <2>1, Types
  <2>3. TypeOK'
    BY <1>16, <1>a, <2>2 DEF Read, ChannelLen, TypeOK
  <2>4. Mutex' /\ HandIsNext' /\ NextNotParked' /\ EofIsFinal'
    BY <1>16, <1>a DEF Read, ChannelLen, UplinkInv, Mutex, HandIsNext, NextNotParked, EofIsFinal, Sending, TypeOK
  <2> QED
    BY <2>3, <2>4 DEF UplinkInv
<1>17. CASE ReadEof \/ DropReader
  <2>a. eof' \in BOOLEAN /\ rx' \in BOOLEAN
    BY <1>17, <1>a, Zenon DEF ReadEof, DropReader, TypeOK
  <2>1. TypeOK'
    BY <1>17, <1>a, <2>a DEF ReadEof, DropReader, TypeOK
  <2>2. Mutex' /\ HandIsNext' /\ NextNotParked'
    BY <1>17 DEF ReadEof, DropReader, UplinkInv, Mutex, HandIsNext, NextNotParked, Sending
  <2>3. EofIsFinal'
    <3>1. CASE ReadEof
      <4>1. rcvd = Len(sent) /\ ~tx
        BY <3>1, <1>a DEF ReadEof, ChannelLen, TypeOK
      <4> QED
        BY <3>1, <4>1 DEF ReadEof, EofIsFinal
    <3>2. CASE DropReader
      BY <3>2 DEF DropReader, UplinkInv, EofIsFinal
    <3> QED
      BY <1>17, <3>1, <3>2
  <2> QED
    BY <2>1, <2>2, <2>3 DEF UplinkInv
<1> QED
  BY <1>1, <1>2, <1>3, <1>4, <1>5, <1>6, <1>7, <1>8, <1>9, <1>10, <1>11, <1>12, <1>14, <1>15,
     <1>16, <1>17 DEF Next, PushStep

\* The invariant holds in every reachable state.
LEMMA UplinkInvariant == Spec => []UplinkInv
  BY UplinkInvInit, UplinkInvStep, PTL DEF Spec

\* reorder.rs: every field of the uplink keeps its type; next_seq never passes
\* u64::MAX and the reader never receives more than was sent.
THEOREM UplinkTypeCorrect == Spec => []TypeOK
<1>1. UplinkInv => TypeOK
  BY DEF UplinkInv
<1> QED
  BY <1>1, UplinkInvariant, PTL

\* push never leaves a deliverable packet in the map: when the mutex is free,
\* the next packet has not arrived.
THEOREM UplinkDrainComplete == Spec => []DrainComplete
<1>1. UplinkInv => DrainComplete
  BY DEF UplinkInv, DrainComplete, NextNotParked, Free, Holding, Parked, TypeOK
<1> QED
  BY <1>1, UplinkInvariant, PTL

-------------------------------------------------------------------------------
(* the reader's stream *)

\* A step that uses no sequence number and leaves the reader alone may only
\* lose packets that were on offer.
LEMMA Withdraws ==
  ASSUME UNCHANGED <<next_seq, sequence_exhausted, sent, readerState>>, Offered' \subseteq Offered
  PROVE  Stream!Withdraw
  BY DEF readerState, Stream!Withdraw, Consumed

\* A push that returns takes its own packet with it, unless it left it in the map.
LEMMA LeaveOffers ==
  ASSUME UplinkInv, NEW p \in Pushers, NEW pend \in [Seqs -> Lens \cup {0, Absent}],
         NEW then \in {"idle", "teardown"}, Leave(p, pend, then),
         \A q \in Seqs : pend[q] # Absent => [seq |-> q, len |-> pend[q]] \in Offered
  PROVE  Offered' \subseteq Offered
<1> SUFFICES ASSUME NEW c \in Offered' PROVE c \in Offered
  OBVIOUS
<1>1. \/ \E r \in Pushers : pc'[r] \in InFlight /\ c = arg'[r]
      \/ \E q \in Seqs : pending'[q] # Absent /\ c = [seq |-> q, len |-> pending'[q]]
      \/ \E r \in Pushers : Sending(r)' /\ c = hand'[r]
  BY DEF Offered, Parked
<1>2. pc' = [pc EXCEPT ![p] = then] /\ arg' = [arg EXCEPT ![p] = NoChunk]
      /\ hand' = [hand EXCEPT ![p] = NoChunk] /\ pending' \in {pend, NothingPending}
  BY DEF Leave
<1>3. CASE \E r \in Pushers : pc'[r] \in InFlight /\ c = arg'[r]
  <2>1. PICK r \in Pushers : pc'[r] \in InFlight /\ c = arg'[r]
    BY <1>3
  <2>2. r # p /\ pc[r] \in InFlight /\ c = arg[r]
    BY <1>2, <2>1 DEF InFlight, Holding, UplinkInv, TypeOK
  <2> QED
    BY <2>2 DEF Offered
<1>4. CASE \E q \in Seqs : pending'[q] # Absent /\ c = [seq |-> q, len |-> pending'[q]]
  BY <1>2, <1>4 DEF NothingPending
<1>5. CASE \E r \in Pushers : Sending(r)' /\ c = hand'[r]
  <2>1. PICK r \in Pushers : Sending(r)' /\ c = hand'[r]
    BY <1>5
  <2>2. r # p /\ Sending(r) /\ c = hand[r]
    BY <1>2, <2>1 DEF Sending, UplinkInv, TypeOK
  <2> QED
    BY <2>2 DEF Offered
<1> QED
  BY <1>1, <1>3, <1>4, <1>5

\* A parked packet is on offer.
LEMMA ParkedOffered ==
  ASSUME NEW q \in Seqs, pending[q] # Absent
  PROVE  [seq |-> q, len |-> pending[q]] \in Offered
  BY DEF Offered, Parked

\* A push's next chunk leaves its hand.
LEMMA AdvanceOffers ==
  ASSUME UplinkInv, NEW p \in Pushers, Sending(p), Advance(p)
  PROVE  Offered' \subseteq Offered
<1>1. CASE next_seq = Top
  <2>1. Leave(p, pending, "idle")
    BY <1>1 DEF Advance
  <2>2. pending \in [Seqs -> Lens \cup {0, Absent}]
    BY DEF UplinkInv, TypeOK
  <2> QED
    BY <2>1, <2>2, LeaveOffers, ParkedOffered
<1>2. CASE next_seq # Top
  <2>1. pc' = [pc EXCEPT ![p] = "drain"] /\ hand' = [hand EXCEPT ![p] = NoChunk]
        /\ UNCHANGED <<arg, pending>>
    BY <1>2 DEF Advance
  <2>2. \A r \in Pushers : pc'[r] \in InFlight => pc[r] \in InFlight
    BY <2>1 DEF Sending, InFlight, Holding, UplinkInv, TypeOK
  <2>3. \A r \in Pushers : Sending(r)' => Sending(r) /\ hand'[r] = hand[r]
    BY <2>1 DEF Sending, UplinkInv, TypeOK
  <2> QED
    BY <2>1, <2>2, <2>3 DEF Offered, Parked
<1> QED
  BY <1>1, <1>2

\* Using up a sequence number adds one to the count, also for the last one.
LEMMA AdvanceConsumes ==
  ASSUME UplinkInv, NEW p \in Pushers, Sending(p), Advance(p)
  PROVE  /\ Consumed = next_seq
         /\ Consumed' = Consumed + 1
<1>1. next_seq \in Int /\ ~sequence_exhausted
  BY DEF UplinkInv, TypeOK, HandIsNext, Sending, Holding, Seqs
<1>2. CASE next_seq = Top
  BY <1>1, <1>2 DEF Advance, Consumed
<1>3. CASE next_seq # Top
  BY <1>1, <1>3 DEF Advance, Consumed
<1> QED
  BY <1>2, <1>3

\* A chunk is sent with the number the stream expects, and only before EOF; an
\* empty packet is skipped; all other steps of the uplink bring a packet, lose
\* packets, or are the reader's.
LEMMA StreamStep == UplinkInv /\ [Next]_vars => [Stream!Next]_(Stream!vars)
<1> SUFFICES ASSUME UplinkInv, [Next]_vars PROVE [Stream!Next]_(Stream!vars)
  OBVIOUS
<1> USE DEF state, readerState
<1>0. pending \in [Seqs -> Lens \cup {0, Absent}]
  BY DEF UplinkInv, TypeOK
<1>1. CASE UNCHANGED vars
  BY <1>1 DEF vars, Stream!vars, Consumed, Offered, Parked, Sending
<1>2. ASSUME NEW p \in Pushers, NEW q \in Seqs, NEW len \in Lens, Start(p, q, len)
      PROVE  \E c \in Chunk : Stream!Offer(c)
  <2> DEFINE c == [seq |-> q, len |-> len]
  <2>1. c \in Chunk
    BY DEF Chunk
  <2>2. pc' = [pc EXCEPT ![p] = "lock"] /\ arg' = [arg EXCEPT ![p] = c] /\ pc[p] = "idle"
        /\ UNCHANGED <<hand, pending>>
    BY <1>2 DEF Start
  <2>3. arg \in [Pushers -> Chunk] /\ DOMAIN pc = Pushers
    BY DEF UplinkInv, TypeOK
  <2>4. {r \in Pushers : Sending(r)}' = {r \in Pushers : Sending(r)}
    BY <2>2, <2>3 DEF Sending
  <2>5. {r \in Pushers : pc[r] \in InFlight}' = {r \in Pushers : pc[r] \in InFlight} \cup {p}
    BY <2>2, <2>3 DEF InFlight, Holding
  <2>6. p \notin {r \in Pushers : pc[r] \in InFlight}
    BY <2>2 DEF InFlight, Holding
  <2>7. {arg[r] : r \in {x \in Pushers : pc[x] \in InFlight}}'
        = {arg[r] : r \in {x \in Pushers : pc[x] \in InFlight}} \cup {c}
    <3>1. arg'[p] = c /\ \A r \in Pushers : r # p => arg'[r] = arg[r]
      BY <2>2, <2>3
    <3> HIDE DEF c
    <3> QED
      BY <2>5, <2>6, <3>1
  <2>8. Offered' = Offered \cup {c}
    <3>1. Parked' = Parked /\ pending' = pending /\ hand' = hand
      BY <2>2 DEF Parked
    <3> HIDE DEF c
    <3> QED
      BY <2>4, <2>7, <3>1 DEF Offered
  <2>9. Stream!Offer(c)
    BY <1>2, <2>8 DEF Start, Stream!Offer, Consumed
  <2> QED
    BY <2>1, <2>9
<1>3. ASSUME NEW p \in Pushers,
             \/ Duplicate(p) \/ TooMany(p) \/ GlobalFull(p)
             \/ SendClosed(p) \/ DrainDone(p) \/ Cancel(p)
      PROVE  Stream!Withdraw
  <2>1. PICK then \in {"idle", "teardown"} : Leave(p, pending, then)
    BY <1>3 DEF Duplicate, TooMany, GlobalFull, SendClosed, DrainDone, Cancel
  <2>2. Offered' \subseteq Offered
    BY <1>0, <2>1, LeaveOffers, ParkedOffered
  <2> QED
    BY <1>3, <2>2, Withdraws DEF Duplicate, TooMany, GlobalFull, SendClosed, DrainDone, Cancel
<1>4. ASSUME NEW p \in Pushers, Park(p) PROVE Stream!Withdraw
  <2> DEFINE pend == [pending EXCEPT ![arg[p].seq] = arg[p].len]
  <2>1. Leave(p, pend, "idle") /\ pc[p] \in InFlight
    BY <1>4 DEF Park, Ahead, Locks, InFlight
  <2>2. arg[p] \in Chunk /\ arg[p].seq \in Seqs /\ arg[p].len \in Lens \cup {0}
        /\ arg[p] = [seq |-> arg[p].seq, len |-> arg[p].len]
    BY DEF UplinkInv, TypeOK, Chunk
  <2>3. arg[p] \in Offered
    BY <2>1 DEF Offered
  <2>4. pend \in [Seqs -> Lens \cup {0, Absent}]
    BY <1>0, <2>2
  <2>5. ASSUME NEW q \in Seqs, pend[q] # Absent PROVE [seq |-> q, len |-> pend[q]] \in Offered
    <3>1. CASE q = arg[p].seq
      BY <1>0, <2>2, <2>3, <3>1
    <3>2. CASE q # arg[p].seq
      BY <1>0, <2>5, <3>2, ParkedOffered
    <3> QED
      BY <3>1, <3>2
  <2> HIDE DEF pend
  <2>6. Offered' \subseteq Offered
    BY <2>1, <2>4, <2>5, LeaveOffers
  <2> QED
    BY <1>4, <2>6, Withdraws DEF Park
<1>5. ASSUME NEW p \in Pushers, TakeOwn(p) PROVE Stream!Withdraw
  <2>1. pc[p] = "lock" /\ pc' = [pc EXCEPT ![p] = "sendOwn"] /\ hand' = [hand EXCEPT ![p] = arg[p]]
        /\ UNCHANGED <<arg, pending>>
    BY <1>5 DEF TakeOwn, IsNext, Locks
  <2>2. \A r \in Pushers : pc'[r] \in InFlight => pc[r] \in InFlight
    BY <2>1 DEF InFlight, Holding, UplinkInv, TypeOK
  <2>3. \A r \in Pushers : Sending(r)' => hand'[r] \in Offered
    BY <2>1 DEF Sending, InFlight, Offered, UplinkInv, TypeOK
  <2>4. Offered' \subseteq Offered
    BY <2>1, <2>2, <2>3 DEF Offered, Parked
  <2> QED
    BY <1>5, <2>4, Withdraws DEF TakeOwn
<1>6. ASSUME NEW p \in Pushers, DrainNext(p) PROVE Stream!Withdraw
  <2> DEFINE c == [seq |-> next_seq, len |-> pending[next_seq]]
  <2>1. pc[p] = "drain" /\ pc' = [pc EXCEPT ![p] = "sendPending"] /\ hand' = [hand EXCEPT ![p] = c]
        /\ arg' = arg /\ pending' = [pending EXCEPT ![next_seq] = Absent]
    BY <1>6 DEF DrainNext
  <2>2. c \in Offered
    BY <1>6, ParkedOffered DEF DrainNext, Parked
  <2>3. \A r \in Pushers : pc'[r] \in InFlight => pc[r] \in InFlight
    BY <2>1 DEF InFlight, Holding, UplinkInv, TypeOK
  <2>4. \A q \in Seqs : pending'[q] # Absent => pending[q] # Absent /\ pending'[q] = pending[q]
    BY <1>0, <2>1
  <2> HIDE DEF c
  <2>5. \A r \in Pushers : Sending(r)' => hand'[r] \in Offered
    BY <2>1, <2>2 DEF Sending, Offered, UplinkInv, TypeOK
  <2>6. Offered' \subseteq Offered
    BY <2>1, <2>3, <2>4, <2>5 DEF Offered, Parked
  <2> QED
    BY <1>6, <2>6, Withdraws DEF DrainNext
<1>7. ASSUME NEW p \in Pushers, SendEmpty(p) \/ Send(p)
      PROVE  \E c \in Chunk : Stream!Skip(c) \/ Stream!Deliver(c)
  <2>1. Sending(p) /\ Advance(p)
    BY <1>7 DEF SendEmpty, Send
  <2>2. Consumed = next_seq /\ Consumed' = Consumed + 1 /\ Offered' \subseteq Offered
    BY <2>1, AdvanceConsumes, AdvanceOffers
  <2>3. hand[p] \in Chunk /\ hand[p].seq = next_seq /\ hand[p] \in Offered
    BY <2>1 DEF UplinkInv, TypeOK, HandIsNext, Offered
  <2>4. Stream!Use(hand[p])
    BY <2>2, <2>3 DEF Stream!Use
  <2>5. CASE SendEmpty(p)
    <3>1. Stream!Skip(hand[p])
      BY <2>4, <2>5 DEF SendEmpty, Stream!Skip
    <3> QED
      BY <2>3, <3>1
  <2>6. CASE Send(p)
    <3>1. ~eof
      BY <2>6 DEF Send, UplinkInv, EofIsFinal
    <3>2. Stream!Deliver(hand[p])
      BY <2>4, <2>6, <3>1 DEF Send, Stream!Deliver
    <3> QED
      BY <2>3, <3>2
  <2> QED
    BY <1>7, <2>5, <2>6
<1>8. CASE Remove \/ \E p \in Pushers : Teardown(p)
  <2>1. UNCHANGED <<next_seq, sequence_exhausted, sent, readerState, arg, hand>>
    BY <1>8 DEF Remove, Teardown, Close
  <2>2. \A r \in Pushers : (pc'[r] \in InFlight => pc[r] \in InFlight) /\ (Sending(r)' => Sending(r))
    BY <1>8 DEF Remove, Teardown, Close, InFlight, Holding, Sending, UplinkInv, TypeOK
  <2>3. pending' \in {pending, NothingPending}
    BY <1>8 DEF Remove, Teardown, Close
  <2>4. \A q \in Seqs : pending'[q] # Absent => pending[q] # Absent /\ pending'[q] = pending[q]
    BY <2>3 DEF NothingPending
  <2>5. Offered' \subseteq Offered
    BY <2>1, <2>2, <2>4 DEF Offered, Parked
  <2> QED
    BY <2>1, <2>5, Withdraws DEF Stream!Next
<1>9. CASE Read \/ ReadEof \/ DropReader
  <2>0. Offered' = Offered /\ Consumed' = Consumed /\ sent' = sent
    BY <1>9 DEF Read, ReadEof, DropReader, Offered, Parked, Sending, Consumed
  <2>1. CASE Read /\ rcvd' = rcvd
    BY <2>0, <2>1 DEF Read, Stream!vars
  <2>2. CASE Read /\ rcvd' = rcvd + 1 /\ ChannelLen > 0
    <3>1. rcvd < Len(sent)
      BY <2>2 DEF ChannelLen, UplinkInv, TypeOK
    <3>2. Stream!Consume
      BY <2>0, <2>2, <3>1 DEF Read, Stream!Consume
    <3> QED
      BY <3>2 DEF Stream!Next
  <2>3. Read => rcvd' = rcvd \/ (rcvd' = rcvd + 1 /\ ChannelLen > 0)
    BY DEF Read
  <2>4. CASE ReadEof
    <3>1. rcvd = Len(sent)
      BY <2>4 DEF ReadEof, ChannelLen, UplinkInv, TypeOK
    <3> QED
      BY <2>0, <2>4, <3>1 DEF ReadEof, Stream!Next, Stream!End
  <2>5. CASE DropReader
    BY <2>0, <2>5 DEF DropReader, Stream!vars
  <2> QED
    BY <1>9, <2>1, <2>2, <2>3, <2>4, <2>5
<1> QED
  BY <1>1, <1>2, <1>3, <1>4, <1>5, <1>6, <1>7, <1>8, <1>9 DEF Next, PushStep, Stream!Next

\* The uplink implements the ordered stream: whatever the POSTs, cancellations
\* and removals do, the protocol reader gets the packets once and in order, a
\* number is passed without output only for an empty packet that came under it,
\* and nothing follows the end.
THEOREM UplinkIsOrdered == Spec => StreamSpec
<1>1. Init => Stream!Init
  <2> SUFFICES ASSUME Init PROVE Stream!Init
    OBVIOUS
  <2>1. \A p \in Pushers : pc[p] \notin InFlight /\ ~Sending(p)
    BY DEF Init, InFlight, Holding, Sending
  <2>2. Parked = {}
    BY DEF Init, NothingPending, Parked
  <2>3. Offered = {}
    BY <2>1, <2>2 DEF Offered
  <2> QED
    BY <2>3 DEF Init, Stream!Init, Consumed
<1> QED
  BY <1>1, UplinkInvariant, StreamStep, PTL DEF Spec, StreamSpec, Stream!Spec

-------------------------------------------------------------------------------
(* the bounds *)

\* The map is finite, its lengths are numbers.
LEMMA ParkedType ==
  ASSUME TypeOK
  PROVE  /\ IsFiniteSet(Parked) /\ Cardinality(Parked) \in Nat
         /\ \A q \in Parked : pending[q] \in Nat
         /\ Total(pending, Parked) \in Nat
<1>1. IsFiniteSet(Seqs)
  BY ReorderAssumption, FS_Interval DEF Seqs
<1>2. IsFiniteSet(Parked)
  BY <1>1, FS_Subset DEF Parked
<1>3. ASSUME NEW q \in Parked PROVE pending[q] \in Nat
  <2>1. pending[q] \in Lens \cup {0}
    BY DEF TypeOK, Parked
  <2>2. Lens \cup {0} \subseteq Nat
    BY ReorderAssumption
  <2> QED
    BY <2>1, <2>2
<1> QED
  BY <1>2, <1>3, FS_CardinalityType, TotalType

\* What a step does to the map: a push parks a packet, the drain takes the next
\* one out, or the map stays or goes with the uplink.
MapKept ==
  /\ UNCHANGED <<pending_bytes, pending_count>>
  /\ tx' => tx
  /\ \/ pending' = pending
     \/ pending' = NothingPending /\ ~tx'

\* A push that leaves drops the map only with the uplink.
LEMMA LeaveMap ==
  ASSUME UplinkInv, NEW p \in Pushers, NEW pend, NEW then, Leave(p, pend, then)
  PROVE  /\ tx' => tx
         /\ pending' = pend \/ (pending' = NothingPending /\ ~tx')
<1> DEFINE last == ~listed /\ \A q \in Pushers \ {p} : pc[q] \notin InFlight
<1>1. /\ pending' = IF last THEN NothingPending ELSE pend
      /\ tx' = (tx /\ ~last)
  BY DEF Leave
<1> HIDE DEF last
<1>2. (tx' => tx) /\ (last => ~tx')
  BY <1>1, Zenon
<1> QED
  BY <1>1, <1>2

LEMMA MapStep ==
  ASSUME UplinkInv, [Next]_vars
  PROVE  MapKept \/ \E p \in Pushers : Park(p) \/ DrainNext(p)
<1> USE DEF state, readerState
<1>1. CASE UNCHANGED vars
  BY <1>1, Zenon DEF vars, MapKept
<1>2. ASSUME NEW p \in Pushers, NEW q \in Seqs, NEW len \in Lens, Start(p, q, len) PROVE MapKept
  BY <1>2, Zenon DEF Start, MapKept
<1>3. ASSUME NEW p \in Pushers, NEW then, Leave(p, pending, then),
             UNCHANGED <<pending_bytes, pending_count>>
      PROVE  MapKept
  BY <1>3, LeaveMap DEF MapKept
<1>4. ASSUME NEW p \in Pushers,
             \/ Duplicate(p) \/ TooMany(p) \/ GlobalFull(p) \/ SendClosed(p)
             \/ DrainDone(p) \/ Cancel(p)
      PROVE  MapKept
  BY <1>3, <1>4 DEF Duplicate, TooMany, GlobalFull, SendClosed, DrainDone, Cancel
<1>5. ASSUME NEW p \in Pushers, TakeOwn(p) PROVE MapKept
  BY <1>5, Zenon DEF TakeOwn, MapKept
<1>6. ASSUME NEW p \in Pushers, SendEmpty(p) \/ Send(p) PROVE MapKept
  <2>1. Advance(p) /\ UNCHANGED <<pending_bytes, pending_count>>
    BY <1>6 DEF SendEmpty, Send
  <2>2. CASE next_seq = Top
    BY <1>3, <2>1, <2>2 DEF Advance
  <2>3. CASE next_seq # Top
    BY <2>1, <2>3 DEF Advance, MapKept
  <2> QED
    BY <2>2, <2>3
<1>7. ASSUME Close PROVE MapKept
  <2>1. UNCHANGED <<pending_bytes, pending_count>>
    BY <1>7 DEF Close
  <2>2. CASE tx' = FALSE /\ pending' = NothingPending
    BY <2>1, <2>2 DEF MapKept
  <2>3. CASE UNCHANGED <<tx, pending>>
    BY <2>1, <2>3 DEF MapKept
  <2> QED
    BY <1>7, <2>2, <2>3 DEF Close
<1>8. CASE Remove
  BY <1>7, <1>8 DEF Remove
<1>9. ASSUME NEW p \in Pushers, Teardown(p) PROVE MapKept
  BY <1>7, <1>9 DEF Teardown, MapKept
<1>10. CASE Read \/ ReadEof \/ DropReader
  BY <1>10, Zenon DEF Read, ReadEof, DropReader, MapKept
<1> QED
  BY <1>1, <1>2, <1>4, <1>5, <1>6, <1>8, <1>9, <1>10 DEF Next, PushStep

\* Parking adds one packet that was not there, or the uplink is gone.
LEMMA ParkStep ==
  ASSUME UplinkInv, NEW p \in Pushers, Park(p)
  PROVE  /\ arg[p].seq \in Seqs \ Parked /\ arg[p].len \in Nat
         /\ tx' => tx
         /\ \/ /\ Parked' = Parked \cup {arg[p].seq}
               /\ pending'[arg[p].seq] = arg[p].len
               /\ \A q \in Parked : pending'[q] = pending[q]
            \/ Parked' = {} /\ ~tx'
<1>1. TypeOK /\ arg[p].seq \in Seqs /\ arg[p].len \in Nat
  BY Types DEF UplinkInv, TypeOK
<1>2. arg[p].len # Absent
  BY <1>1 DEF Absent
<1>3. arg[p].seq \notin Parked
  BY DEF Park, Ahead
<1> DEFINE pend == [pending EXCEPT ![arg[p].seq] = arg[p].len]
<1>4. Leave(p, pend, "idle")
  BY DEF Park
<1>5. pend[arg[p].seq] = arg[p].len /\ \A q \in Seqs \ {arg[p].seq} : pend[q] = pending[q]
  BY <1>1 DEF TypeOK
<1> HIDE DEF pend
<1>6. (tx' => tx) /\ (pending' = pend \/ (pending' = NothingPending /\ ~tx'))
  BY <1>4, LeaveMap
<1>7. CASE pending' = pend
  <2>1. Parked' = Parked \cup {arg[p].seq}
    BY <1>1, <1>2, <1>5, <1>7 DEF Parked
  <2> QED
    BY <1>1, <1>3, <1>5, <1>6, <1>7, <2>1 DEF Parked
<1>8. CASE pending' = NothingPending /\ ~tx'
  BY <1>1, <1>3, <1>6, <1>8 DEF Parked, NothingPending
<1> QED
  BY <1>6, <1>7, <1>8

\* Draining takes one packet out.
LEMMA DrainStep ==
  ASSUME UplinkInv, NEW p \in Pushers, DrainNext(p)
  PROVE  /\ next_seq \in Parked /\ Parked' = Parked \ {next_seq}
         /\ \A q \in Parked' : pending'[q] = pending[q]
         /\ tx' = tx
  BY DEF DrainNext, UplinkInv, TypeOK, Parked

\* The map, the byte counter and the channel keep within their bounds.
LEMMA BoundedStep ==
  ASSUME UplinkInv, Bounded, [Next]_vars
  PROVE  Bounded'
<1>0. TypeOK /\ TypeOK'
  BY UplinkInvStep DEF UplinkInv
<1>1. Cardinality(Parked') \in Nat
  <2>1. (TypeOK => Cardinality(Parked) \in Nat)'
    BY ParkedType, PTL
  <2> QED
    BY <1>0, <2>1
<1>2. Cardinality(Parked') <= MaxPackets /\ (MaxBytes # 0 => pending_bytes' <= MaxBytes)
  <2>1. CASE MapKept
    <3>1. Parked' = Parked \/ Parked' = {}
      BY <2>1 DEF MapKept, Parked, NothingPending
    <3>2. Cardinality(Parked') <= MaxPackets
      BY <3>1, FS_EmptySet, ReorderAssumption DEF Bounded
    <3> QED
      BY <2>1, <3>2 DEF MapKept, Bounded
  <2>2. ASSUME NEW p \in Pushers, Park(p)
        PROVE  Cardinality(Parked') <= MaxPackets /\ (MaxBytes # 0 => pending_bytes' <= MaxBytes)
    <3>1. Cardinality(Parked) < MaxPackets
      BY <1>0, <2>2, ParkedType, ReorderAssumption DEF Park, PacketsFull
    <3>2. Parked' \subseteq Parked \cup {arg[p].seq}
      BY <2>2, ParkStep
    <3>3. IsFiniteSet(Parked \cup {arg[p].seq}) /\ Cardinality(Parked \cup {arg[p].seq}) = Cardinality(Parked) + 1
      BY <1>0, <2>2, ParkedType, ParkStep, FS_AddElement
    <3>4. Cardinality(Parked') <= Cardinality(Parked) + 1
      BY <3>2, <3>3, FS_Subset
    <3>5. MaxBytes # 0 => pending_bytes' <= MaxBytes
      BY <1>0, <2>2, ParkStep, ReorderAssumption DEF Park, BytesFull, TypeOK
    <3> QED
      BY <1>0, <1>1, <3>1, <3>4, <3>5, ParkedType, ReorderAssumption
  <2>3. ASSUME NEW p \in Pushers, DrainNext(p)
        PROVE  Cardinality(Parked') <= MaxPackets /\ (MaxBytes # 0 => pending_bytes' <= MaxBytes)
    <3>1. pending[next_seq] \in Nat /\ pending_bytes' = pending_bytes - pending[next_seq]
      BY <1>0, <2>3, ParkedType DEF DrainNext
    <3>2. Cardinality(Parked') <= Cardinality(Parked)
      BY <1>0, <2>3, DrainStep, ParkedType, FS_Subset
    <3> QED
      BY <1>0, <1>1, <3>1, <3>2, ParkedType, ReorderAssumption, SMTT(30) DEF Bounded, TypeOK
  <2> QED
    BY <2>1, <2>2, <2>3, MapStep
<1>3. ChannelLen' <= Depth
  <2>1. CASE UNCHANGED <<sent, rcvd>>
    BY <2>1 DEF ChannelLen, Bounded
  <2>2. ASSUME NEW p \in Pushers, Send(p) PROVE ChannelLen' <= Depth
    BY <1>0, <2>2, ReorderAssumption DEF Send, ChannelLen, readerState, TypeOK
  <2>3. CASE Read
    BY <1>0, <2>3, ReorderAssumption DEF Read, ChannelLen, Bounded, TypeOK
  <2> QED
    BY <2>1, <2>2, <2>3 DEF Next, PushStep, vars, readerState, Start, Duplicate, TooMany, Park, GlobalFull, TakeOwn,
       SendEmpty, SendClosed, DrainNext, DrainDone, Cancel, Teardown, Remove, Close, ReadEof, DropReader
<1> QED
  BY <1>2, <1>3 DEF Bounded

\* The map never holds more packets or bytes than configured, and the channel no
\* more chunks, whatever order the POSTs come in and however they end.
THEOREM UplinkBounded == Spec => []Bounded
<1>1. Init => Bounded
  <2> SUFFICES ASSUME Init PROVE Bounded
    OBVIOUS
  <2>1. Parked = {} /\ ChannelLen = 0
    BY DEF Init, Parked, NothingPending, ChannelLen
  <2> QED
    BY <2>1, FS_EmptySet, ReorderAssumption DEF Init, Bounded
<1> QED
  BY <1>1, BoundedStep, UplinkInvariant, PTL DEF Spec

-------------------------------------------------------------------------------
(* accepted packets *)

\* A push that sends its own packet sends the next one; what it drains comes after
\* its own.  The sequence is used up only at its last number.
Behind ==
  /\ sequence_exhausted => next_seq = Top
  /\ \A p \in Pushers :
       /\ pc[p] = "sendOwn" => arg[p].seq = next_seq
       /\ pc[p] \in {"sendPending", "drain"} => arg[p].seq < next_seq

\* Leaving keeps the other pushes where they are.
LEMMA LeaveArg ==
  ASSUME TypeOK, NEW p \in Pushers, NEW pend, NEW then \in {"idle", "teardown"}, Leave(p, pend, then)
  PROVE  /\ pc'[p] = then
         /\ \A q \in Pushers \ {p} : pc'[q] = pc[q] /\ arg'[q] = arg[q] /\ hand'[q] = hand[q]
  BY DEF Leave, TypeOK

LEMMA BehindStep ==
  ASSUME UplinkInv, Behind, [Next]_vars
  PROVE  Behind'
<1> USE DEF state, readerState
<1>0. TypeOK /\ Mutex /\ next_seq \in Int /\ Top \in Int /\ \A p \in Pushers : arg[p].seq \in Int
  BY Types, ReorderAssumption DEF UplinkInv, TypeOK, Seqs
<1>1. CASE UNCHANGED vars
  BY <1>1 DEF vars, Behind
<1>2. ASSUME NEW p \in Pushers, NEW q \in Seqs, NEW len \in Lens, Start(p, q, len) PROVE Behind'
  BY <1>0, <1>2 DEF Start, Behind, TypeOK
<1>3. ASSUME NEW p \in Pushers, NEW pend, NEW then \in {"idle", "teardown"}, Leave(p, pend, then),
             UNCHANGED <<next_seq, sequence_exhausted>>
      PROVE  Behind'
  BY <1>0, <1>3, LeaveArg DEF Behind
<1>4. ASSUME NEW p \in Pushers,
             \/ Duplicate(p) \/ TooMany(p) \/ Park(p) \/ GlobalFull(p) \/ SendClosed(p)
             \/ DrainDone(p) \/ Cancel(p)
      PROVE  Behind'
  BY <1>3, <1>4 DEF Duplicate, TooMany, Park, GlobalFull, SendClosed, DrainDone, Cancel
<1>5. ASSUME NEW p \in Pushers, TakeOwn(p) PROVE Behind'
  BY <1>0, <1>5 DEF TakeOwn, IsNext, Behind, TypeOK
<1>6. ASSUME NEW p \in Pushers, SendEmpty(p) \/ Send(p) PROVE Behind'
  <2>1. Sending(p) /\ Advance(p)
    BY <1>6 DEF SendEmpty, Send
  <2>2. CASE next_seq = Top
    <3>1. Leave(p, pending, "idle") /\ next_seq' = Top
      BY <2>1, <2>2 DEF Advance
    <3> QED
      BY <1>0, <2>2, <3>1, LeaveArg DEF Behind
  <2>3. CASE next_seq # Top
    <3>1. /\ next_seq' = next_seq + 1 /\ pc' = [pc EXCEPT ![p] = "drain"]
          /\ UNCHANGED <<sequence_exhausted, arg>>
      BY <2>1, <2>3 DEF Advance
    <3>2. \A q \in Pushers \ {p} : pc'[q] = pc[q] /\ pc[q] \notin Holding
      BY <1>0, <2>1, <3>1 DEF Mutex, Sending, Holding, TypeOK
    <3>3. arg[p].seq < next_seq'
      BY <1>0, <2>1, <3>1 DEF Behind, Sending
    <3>4. ~sequence_exhausted
      BY <2>3 DEF Behind
    <3> QED
      BY <1>0, <3>1, <3>2, <3>3, <3>4 DEF Behind, Holding, TypeOK
  <2> QED
    BY <2>2, <2>3
<1>7. ASSUME NEW p \in Pushers, DrainNext(p) PROVE Behind'
  BY <1>0, <1>7 DEF DrainNext, Behind, TypeOK
<1>8. ASSUME NEW p \in Pushers, Teardown(p) PROVE Behind'
  BY <1>0, <1>8 DEF Teardown, Close, Behind, TypeOK
<1>9. CASE Remove \/ Read \/ ReadEof \/ DropReader
  BY <1>9 DEF Remove, Close, Read, ReadEof, DropReader, Behind
<1> QED
  BY <1>1, <1>2, <1>4, <1>5, <1>6, <1>7, <1>8, <1>9 DEF Next, PushStep

\* The packet q, answered with 200, is where its client left it.
Kept(q) ==
  \/ q < Consumed
  \/ q \in Parked
  \/ \E p \in Pushers : pc[p] = "sendPending" /\ hand[p].seq = q

\* A push that leaves, not while it sends a packet that was parked, loses none.
LEMMA LeaveKept ==
  ASSUME UplinkInv, NEW p \in Pushers, NEW pend, NEW then \in {"idle", "teardown"}, Leave(p, pend, then),
         \A x \in Parked : pend[x] # Absent,
         pc[p] # "sendPending", tx', NEW q \in Seqs, Kept(q), Consumed' = Consumed
  PROVE  Kept(q)'
<1>1. pending' = pend
  BY LeaveMap
<1>2. q \in Parked => q \in Parked'
  BY <1>1 DEF Parked
<1>3. \A x \in Pushers : pc[x] = "sendPending" => pc'[x] = pc[x] /\ hand'[x] = hand[x]
  BY LeaveArg DEF UplinkInv
<1> QED
  BY <1>2, <1>3 DEF Kept

LEMMA KeptStep ==
  ASSUME UplinkInv, Behind, AckedKept, [Next]_vars
  PROVE  AckedKept'
<1> USE DEF state, readerState
<1> SUFFICES ASSUME ~dropped', tx', rx', NEW q \in acked' PROVE Kept(q)'
  BY DEF AckedKept, AcceptedKept, Kept
<1>0. TypeOK /\ Mutex /\ HandIsNext /\ next_seq \in Int /\ Top \in Int /\ acked \subseteq Seqs
      /\ \A p \in Pushers : arg[p].seq \in Seqs /\ arg[p].seq \in Int
  BY Types, ReorderAssumption DEF UplinkInv, TypeOK, Seqs
<1>a. q \in Seqs /\ q \in Int /\ q <= Top
  BY UplinkInvStep, ReorderAssumption DEF UplinkInv, TypeOK, Seqs
<1>b. ~dropped /\ tx /\ rx
  <2>1. tx
    BY MapStep, ParkStep, DrainStep DEF MapKept
  <2>2. (dropped' = dropped /\ rx' = rx) \/ (\E p \in Pushers : Cancel(p)) \/ DropReader
    BY DEF Next, PushStep, vars, Start, Duplicate, TooMany, Park, GlobalFull, TakeOwn, SendEmpty, Send, SendClosed,
       DrainNext, DrainDone, Teardown, Remove, Close, Read, ReadEof
  <2>3. ASSUME NEW p \in Pushers, Cancel(p) PROVE ~dropped /\ rx
    <3>1. dropped' = (dropped \/ pc[p] = "sendPending") /\ rx' = rx
      BY <2>3 DEF Cancel
    <3> QED
      BY <3>1, Zenon
  <2>4. ~DropReader
    BY DEF DropReader
  <2>5. CASE dropped' = dropped /\ rx' = rx
    BY <2>1, <2>5
  <2> QED
    BY <2>1, <2>2, <2>3, <2>4, <2>5
<1>c. q \in acked => Kept(q)
  BY <1>b DEF AckedKept, AcceptedKept, Kept
<1>1. CASE UNCHANGED <<next_seq, sequence_exhausted, pending, pc, hand, acked>>
  BY <1>1, <1>c DEF Kept, Consumed, Parked
<1>2. ASSUME NEW p \in Pushers, NEW x \in Seqs, NEW len \in Lens, Start(p, x, len) PROVE Kept(q)'
  BY <1>0, <1>2, <1>c DEF Start, Kept, Consumed, Parked, TypeOK
<1>3. ASSUME NEW p \in Pushers, Duplicate(p) PROVE Kept(q)'
  <2>1. Consumed' = Consumed /\ Leave(p, pending, "idle") /\ pc[p] = "lock" /\ acked' = acked \cup {arg[p].seq}
    BY <1>3 DEF Duplicate, Locks, Consumed
  <2>2. Kept(arg[p].seq)
    BY <1>0, <1>3, ReorderAssumption DEF Duplicate, Kept, Consumed, Behind, Seqs
  <2> QED
    BY <1>a, <1>c, <2>1, <2>2, LeaveKept DEF Parked
<1>4. ASSUME NEW p \in Pushers, Park(p) PROVE Kept(q)'
  <2> DEFINE pend == [pending EXCEPT ![arg[p].seq] = arg[p].len]
  <2>1. Consumed' = Consumed /\ Leave(p, pend, "idle") /\ pc[p] = "lock" /\ acked' = acked \cup {arg[p].seq}
    BY <1>4 DEF Park, Ahead, Locks, Consumed
  <2>2. CASE q = arg[p].seq
    BY <1>4, <2>2, ParkStep DEF Kept
  <2>3. CASE q # arg[p].seq
    <3>1. \A x \in Parked : pend[x] # Absent
      BY <1>0, <1>4, ParkStep DEF Parked, TypeOK
    <3> HIDE DEF pend
    <3> QED
      BY <1>a, <1>c, <2>1, <2>3, <3>1, LeaveKept
  <2> QED
    BY <2>2, <2>3
<1>5. ASSUME NEW p \in Pushers,
             TooMany(p) \/ GlobalFull(p) \/ SendClosed(p) \/ Cancel(p)
      PROVE  Kept(q)'
  <2>0. UNCHANGED <<next_seq, sequence_exhausted, acked>>
    BY <1>5 DEF TooMany, GlobalFull, SendClosed, Cancel
  <2>1. /\ Consumed' = Consumed /\ acked' = acked
        /\ Leave(p, pending, "idle") \/ Leave(p, pending, "teardown")
    BY <1>5, <2>0 DEF TooMany, GlobalFull, SendClosed, Cancel, Consumed
  <2>2. pc[p] # "sendPending"
    BY <1>5, <1>b DEF TooMany, GlobalFull, IsNext, Ahead, Locks, SendClosed, Cancel
  <2> QED
    BY <1>a, <1>c, <2>1, <2>2, LeaveKept DEF Parked
<1>6. ASSUME NEW p \in Pushers, TakeOwn(p) PROVE Kept(q)'
  BY <1>0, <1>6, <1>c DEF TakeOwn, IsNext, Locks, Kept, Consumed, Parked, TypeOK
<1>7. ASSUME NEW p \in Pushers, SendEmpty(p) \/ Send(p) PROVE Kept(q)'
  <2>1. Sending(p) /\ Advance(p)
    BY <1>7 DEF SendEmpty, Send
  <2>2. Consumed' = Consumed + 1 /\ Consumed = next_seq /\ hand[p].seq = next_seq
    BY <1>0, <2>1, AdvanceConsumes DEF HandIsNext
  <2>3. \A x \in Pushers \ {p} : pc[x] # "sendPending"
    BY <1>0, <2>1 DEF Mutex, Sending, Holding
  <2>4. CASE next_seq = Top
    BY <1>0, <1>a, <2>2, <2>4 DEF Kept
  <2>5. CASE next_seq # Top
    BY <1>0, <1>a, <1>c, <2>1, <2>2, <2>3, <2>5 DEF Advance, Kept, Parked
  <2> QED
    BY <2>4, <2>5
<1>8. ASSUME NEW p \in Pushers, DrainNext(p) PROVE Kept(q)'
  <2>1. Consumed' = Consumed /\ acked' = acked /\ pc[p] = "drain"
    BY <1>8 DEF DrainNext, Consumed
  <2>2. pc'[p] = "sendPending" /\ hand'[p].seq = next_seq
    BY <1>0, <1>8 DEF DrainNext, TypeOK
  <2>3. \A x \in Pushers \ {p} : pc'[x] = pc[x] /\ hand'[x] = hand[x]
    BY <1>0, <1>8 DEF DrainNext, TypeOK
  <2> QED
    BY <1>8, <1>c, <2>1, <2>2, <2>3, DrainStep DEF Kept
<1>9. ASSUME NEW p \in Pushers, DrainDone(p) PROVE Kept(q)'
  <2>1. Consumed' = Consumed /\ Leave(p, pending, "idle") /\ pc[p] = "drain" /\ acked' = acked \cup {arg[p].seq}
    BY <1>9 DEF DrainDone, Consumed
  <2>2. Kept(arg[p].seq)
    BY <1>0, <2>1 DEF Behind, Kept, Consumed
  <2> QED
    BY <1>a, <1>c, <2>1, <2>2, LeaveKept DEF Parked
<1>10. ASSUME Close, UNCHANGED pc \/ (\E p \in Pushers : pc[p] = "teardown" /\ pc' = [pc EXCEPT ![p] = "idle"])
       PROVE  Kept(q)'
  <2>1. UNCHANGED <<pending, hand, acked, next_seq, sequence_exhausted>>
    BY <1>10 DEF Close
  <2> QED
    BY <1>0, <1>10, <1>c, <2>1 DEF Kept, Consumed, Parked, TypeOK
<1>11. CASE Remove
  BY <1>10, <1>11 DEF Remove
<1>12. ASSUME NEW p \in Pushers, Teardown(p) PROVE Kept(q)'
  <2>1. CASE listed
    BY <1>10, <1>12, <2>1 DEF Teardown
  <2>2. CASE ~listed
    BY <1>0, <1>12, <1>c, <2>2 DEF Teardown, Kept, Consumed, Parked, TypeOK
  <2> QED
    BY <2>1, <2>2
<1>13. CASE Read \/ ReadEof \/ DropReader
  BY <1>1, <1>13 DEF Read, ReadEof, DropReader
<1> QED
  BY <1>1, <1>2, <1>3, <1>4, <1>5, <1>6, <1>7, <1>8, <1>9, <1>11, <1>12, <1>13 DEF Next, PushStep, vars

\* A packet answered with 200 is delivered, parked or being sent, whatever order
\* the POSTs arrive in, as long as none is dropped while it drains.
THEOREM UplinkAckedKept == Spec => []AckedKept
<1>1. Init => Behind /\ AckedKept
  BY DEF Init, Behind, AckedKept, AcceptedKept
<1>2. UplinkInv /\ Behind /\ AckedKept /\ [Next]_vars => Behind' /\ AckedKept'
  BY BehindStep, KeptStep
<1> QED
  BY <1>1, <1>2, UplinkInvariant, PTL DEF Spec

-------------------------------------------------------------------------------
(* the counters and the budget *)

\* A push has a chunk in its hand only while it sends; a chunk being read has been
\* received.
HandEmpty ==
  /\ \A p \in Pushers : ~Sending(p) => hand[p].len = 0
  /\ cur > 0 => rcvd > 0

LEMMA HandEmptyStep ==
  ASSUME UplinkInv, HandEmpty, [Next]_vars
  PROVE  HandEmpty'
<1> USE DEF state, readerState
<1>0. TypeOK
  BY DEF UplinkInv
<1>1. CASE UNCHANGED vars
  BY <1>1 DEF vars, HandEmpty, Sending
<1>2. ASSUME NEW p \in Pushers, NEW q \in Seqs, NEW len \in Lens, Start(p, q, len) PROVE HandEmpty'
  BY <1>0, <1>2 DEF Start, HandEmpty, Sending, TypeOK
<1>3. ASSUME NEW p \in Pushers, NEW pend, NEW then \in {"idle", "teardown"}, Leave(p, pend, then),
             UNCHANGED <<rcvd, cur>>
      PROVE  HandEmpty'
  <2>1. hand'[p] = NoChunk
    BY <1>0, <1>3 DEF Leave, TypeOK
  <2>2. hand'[p].len = 0
    BY <2>1 DEF NoChunk
  <2> QED
    BY <1>0, <1>3, <2>2, LeaveArg DEF HandEmpty, Sending
<1>4. ASSUME NEW p \in Pushers,
             \/ Duplicate(p) \/ TooMany(p) \/ Park(p) \/ GlobalFull(p) \/ SendClosed(p)
             \/ DrainDone(p) \/ Cancel(p)
      PROVE  HandEmpty'
  BY <1>3, <1>4 DEF Duplicate, TooMany, Park, GlobalFull, SendClosed, DrainDone, Cancel
<1>5. ASSUME NEW p \in Pushers, TakeOwn(p) PROVE HandEmpty'
  BY <1>0, <1>5 DEF TakeOwn, HandEmpty, Sending, TypeOK
<1>6. ASSUME NEW p \in Pushers, SendEmpty(p) \/ Send(p) PROVE HandEmpty'
  <2>1. Advance(p) /\ UNCHANGED <<rcvd, cur>>
    BY <1>6 DEF SendEmpty, Send
  <2>2. CASE next_seq = Top
    BY <1>3, <2>1, <2>2 DEF Advance
  <2>3. CASE next_seq # Top
    <3>1. hand' = [hand EXCEPT ![p] = NoChunk] /\ pc' = [pc EXCEPT ![p] = "drain"]
      BY <2>1, <2>3 DEF Advance
    <3>2. hand'[p].len = 0 /\ \A q \in Pushers \ {p} : hand'[q] = hand[q] /\ pc'[q] = pc[q]
      BY <1>0, <3>1 DEF NoChunk, TypeOK
    <3> QED
      BY <1>0, <2>1, <3>2 DEF HandEmpty, Sending
  <2> QED
    BY <2>2, <2>3
<1>7. ASSUME NEW p \in Pushers, DrainNext(p) PROVE HandEmpty'
  BY <1>0, <1>7 DEF DrainNext, HandEmpty, Sending, TypeOK
<1>8. ASSUME NEW p \in Pushers, Teardown(p) PROVE HandEmpty'
  BY <1>0, <1>8 DEF Teardown, Close, HandEmpty, Sending, TypeOK
<1>9. CASE Read
  BY <1>0, <1>9 DEF Read, HandEmpty, Sending, TypeOK
<1>10. CASE Remove \/ ReadEof \/ DropReader
  BY <1>10 DEF Remove, Close, ReadEof, DropReader, HandEmpty, Sending
<1> QED
  BY <1>1, <1>2, <1>4, <1>5, <1>6, <1>7, <1>8, <1>9, <1>10 DEF Next, PushStep

\* Parking adds the packet's length to the map's, draining takes it away.
LEMMA ParkTotal ==
  ASSUME UplinkInv, NEW p \in Pushers, Park(p)
  PROVE  \/ /\ Total(pending', Parked') = Total(pending, Parked) + arg[p].len
            /\ Cardinality(Parked') = Cardinality(Parked) + 1
         \/ Total(pending', Parked') = 0 /\ ~tx'
<1>0. TypeOK /\ IsFiniteSet(Parked) /\ (\A q \in Parked : pending[q] \in Nat)
  BY ParkedType DEF UplinkInv
<1>1. CASE Parked' = {} /\ ~tx'
  <2>1. \A q \in {} : pending'[q] \in Int /\ pending'[q] <= 0
    OBVIOUS
  <2>2. Total(pending', {}) = 0
    BY <2>1, TotalZero
  <2> QED
    BY <1>1, <2>2
<1>2. CASE /\ Parked' = Parked \cup {arg[p].seq} /\ pending'[arg[p].seq] = arg[p].len
           /\ \A q \in Parked : pending'[q] = pending[q]
  <2>1. arg[p].seq \notin Parked /\ arg[p].len \in Nat
    BY ParkStep
  <2>2. Total(pending', Parked \cup {arg[p].seq}) = Total(pending', Parked) + pending'[arg[p].seq]
    <3>1. pending'[arg[p].seq] \in Nat /\ \A q \in Parked : pending'[q] \in Int
      BY <1>0, <1>2, <2>1
    <3>2. IsFiniteSet(Parked) /\ arg[p].seq \notin Parked
      BY <1>0, <2>1
    <3> QED
      BY ONLY <3>1, <3>2, TotalAdd
  <2>3. Total(pending', Parked) = Total(pending, Parked)
    <3>1. \A q \in Parked : pending'[q] = pending[q]
      BY <1>2
    <3> QED
      BY ONLY <3>1, TotalSame
  <2>4. Cardinality(Parked \cup {arg[p].seq}) = Cardinality(Parked) + 1
    BY <1>0, <2>1, FS_AddElement
  <2> QED
    BY <1>2, <2>2, <2>3, <2>4
<1> QED
  BY <1>1, <1>2, ParkStep

LEMMA DrainTotal ==
  ASSUME UplinkInv, NEW p \in Pushers, DrainNext(p)
  PROVE  /\ Total(pending', Parked') = Total(pending, Parked) - pending[next_seq]
         /\ Cardinality(Parked') = Cardinality(Parked) - 1
<1>0. TypeOK /\ IsFiniteSet(Parked) /\ (\A q \in Parked : pending[q] \in Nat) /\ Total(pending, Parked) \in Nat
  BY ParkedType DEF UplinkInv
<1>1. next_seq \in Parked /\ Parked' = Parked \ {next_seq} /\ (\A q \in Parked' : pending'[q] = pending[q])
  BY DrainStep
<1>2. IsFiniteSet(Parked') /\ Cardinality(Parked') = Cardinality(Parked) - 1
  BY <1>0, <1>1, FS_RemoveElement
<1>3. Total(pending', Parked') = Total(pending, Parked')
  BY <1>1, TotalSame
<1>4. Parked = Parked' \cup {next_seq} /\ next_seq \notin Parked' /\ pending[next_seq] \in Nat
      /\ \A q \in Parked' : pending[q] \in Int
  BY <1>0, <1>1
<1>5. Total(pending, Parked' \cup {next_seq}) = Total(pending, Parked') + pending[next_seq]
  BY <1>2, <1>4, TotalAdd
<1>6. Total(pending, Parked') \in Nat
  BY <1>2, <1>4, TotalType
<1> QED
  BY <1>2, <1>3, <1>4, <1>5, <1>6

\* The counters follow the map.
LEMMA CountersStep ==
  ASSUME UplinkInv, CountersExact, [Next]_vars
  PROVE  CountersExact'
<1>0. TypeOK
  BY DEF UplinkInv
<1>1. CASE MapKept
  BY <1>1 DEF MapKept, CountersExact, Parked
<1>2. ASSUME NEW p \in Pushers, Park(p) PROVE CountersExact'
  <2> SUFFICES ASSUME tx'
               PROVE  pending_count' = Cardinality(Parked') /\ pending_bytes' = Total(pending', Parked')
    BY DEF CountersExact
  <2>1. tx
    BY <1>2, ParkStep
  <2>2. pending_count' = pending_count + 1 /\ pending_bytes' = pending_bytes + arg[p].len
    BY <1>2 DEF Park
  <2> QED
    BY <1>2, <2>1, <2>2, ParkTotal DEF CountersExact
<1>3. ASSUME NEW p \in Pushers, DrainNext(p) PROVE CountersExact'
  <2> SUFFICES ASSUME tx
               PROVE  pending_count' = Cardinality(Parked') /\ pending_bytes' = Total(pending', Parked')
    BY <1>3, DrainStep DEF CountersExact
  <2>1. pending_count' = pending_count - 1 /\ pending_bytes' = pending_bytes - pending[next_seq]
    BY <1>3 DEF DrainNext
  <2> QED
    BY <1>3, <2>1, DrainTotal DEF CountersExact
<1> QED
  BY <1>1, <1>2, <1>3, MapStep

\* The bytes of the three places are natural numbers.
LEMMA PlaceTypes ==
  ASSUME TypeOK, HandEmpty
  PROVE  /\ Total(pending, Parked) \in Nat
         /\ \A p \in Pushers : HandLens[p] \in Nat /\ HandLens[p] = hand[p].len
         /\ Total(HandLens, Pushers) \in Nat
         /\ IsFiniteSet(Buffered)
         /\ \A k \in Buffered : k \in 1 .. Len(sent) /\ SentLens[k] \in Nat /\ SentLens[k] = sent[k].len
         /\ Total(SentLens, Buffered) \in Nat
<1>1. \A p \in Pushers : HandLens[p] \in Nat /\ HandLens[p] = hand[p].len
  BY Types DEF HandLens, TypeOK
<1>2. Total(HandLens, Pushers) \in Nat
  <2>1. IsFiniteSet(Pushers) /\ \A p \in Pushers : HandLens[p] \in Int
    BY <1>1, ReorderAssumption
  <2> QED
    BY <2>1, TotalType
<1>3. Len(sent) \in Nat /\ rcvd \in Nat /\ cur \in Nat
  BY DEF TypeOK
<1>4. IsFiniteSet(Buffered)
  BY <1>3, FS_Interval DEF Buffered
<1>5. ASSUME NEW k \in Buffered PROVE k \in 1 .. Len(sent) /\ SentLens[k] \in Nat /\ SentLens[k] = sent[k].len
  <2>1. k \in 1 .. Len(sent)
    BY <1>3 DEF Buffered, HandEmpty
  <2>2. sent[k] \in Chunk
    BY <2>1 DEF TypeOK
  <2> QED
    BY <2>1, <2>2, Types DEF SentLens
<1>6. Total(SentLens, Buffered) \in Nat
  <2>1. \A k \in Buffered : SentLens[k] \in Int
    BY <1>5
  <2> QED
    BY <1>4, <2>1, TotalType
<1> QED
  BY <1>1, <1>2, <1>4, <1>5, <1>6, ParkedType

\* One push changes the chunk in its hand.
LEMMA HandStep ==
  ASSUME TypeOK, HandEmpty, TypeOK', HandEmpty', NEW p \in Pushers,
         \A q \in Pushers \ {p} : hand'[q] = hand[q]
  PROVE  Total(HandLens', Pushers) = Total(HandLens, Pushers) - hand[p].len + hand'[p].len
<1>0. (\A q \in Pushers : HandLens[q] \in Nat /\ HandLens[q] = hand[q].len)
      /\ \A q \in Pushers : HandLens'[q] \in Nat /\ HandLens'[q] = hand'[q].len
  BY Types DEF HandLens, TypeOK
<1>1. IsFiniteSet(Pushers) /\ HandLens[p] \in Nat /\ HandLens'[p] \in Nat
      /\ \A q \in Pushers \ {p} : HandLens[q] \in Int /\ HandLens'[q] = HandLens[q]
  BY <1>0, ReorderAssumption
<1>2. Total(HandLens', Pushers) = Total(HandLens, Pushers) - HandLens[p] + HandLens'[p]
  BY ONLY <1>1, p \in Pushers, TotalReplace
<1> QED
  BY <1>0, <1>2

\* What the reader's side holds, and what a step may change of it.
Queued == IF rx THEN Total(SentLens, Buffered) ELSE 0

LEMMA PlacesAddUp ==
  TypeOK /\ HandEmpty =>
    /\ Total(pending, Parked) \in Nat /\ Total(HandLens, Pushers) \in Nat /\ Queued \in Nat
    /\ Reserved = Total(pending, Parked) + Total(HandLens, Pushers) + Queued
  BY PlaceTypes DEF Queued, Reserved

LEMMA QueueSame ==
  ASSUME TypeOK, HandEmpty, UNCHANGED <<sent, rcvd, cur, rx>>
  PROVE  Queued' = Queued
<1>1. SentLens' = SentLens /\ Buffered' = Buffered
  BY DEF SentLens, Buffered
<1> QED
  BY <1>1 DEF Queued

LEMMA QueueSend ==
  ASSUME TypeOK, HandEmpty, TypeOK', HandEmpty', rx, NEW c \in Chunk,
         sent' = Append(sent, c), UNCHANGED readerState
  PROVE  Queued' = Queued + c.len
<1>0. Len(sent) \in Nat /\ rcvd \in 0 .. Len(sent) /\ cur \in Nat /\ Len(sent') = Len(sent) + 1
      /\ sent'[Len(sent) + 1] = c /\ (\A k \in 1 .. Len(sent) : sent'[k] = sent[k]) /\ c.len \in Nat
  BY Types DEF TypeOK
<1>1. Buffered' = Buffered \cup {Len(sent) + 1} /\ Len(sent) + 1 \notin Buffered
  BY <1>0 DEF Buffered, readerState
<1>2. SentLens'[Len(sent) + 1] = c.len /\ \A k \in 1 .. Len(sent) : SentLens'[k] = SentLens[k]
  BY <1>0 DEF SentLens
<1>3. IsFiniteSet(Buffered) /\ (\A k \in Buffered : SentLens'[k] = SentLens[k] /\ SentLens'[k] \in Int)
      /\ SentLens'[Len(sent) + 1] \in Nat
  BY <1>0, <1>2, PlaceTypes
<1>4. Total(SentLens', Buffered \cup {Len(sent) + 1}) = Total(SentLens', Buffered) + SentLens'[Len(sent) + 1]
  BY ONLY <1>1, <1>3, TotalAdd
<1>5. Total(SentLens', Buffered) = Total(SentLens, Buffered)
  BY ONLY <1>3, TotalSame
<1>6. Total(SentLens', Buffered') = Total(SentLens, Buffered) + c.len
  BY ONLY <1>1, <1>2, <1>4, <1>5
<1> QED
  BY <1>6 DEF Queued, readerState

\* Reading, and dropping the reader, only free.
LEMMA QueueShrinks ==
  ASSUME TypeOK, HandEmpty, TypeOK', HandEmpty', Read \/ DropReader
  PROVE  Queued' <= Queued
<1>0. Queued \in Nat
  BY PlaceTypes DEF Queued
<1>1. CASE DropReader
  BY <1>0, <1>1 DEF DropReader, Queued
<1>2. CASE Read
  <2>1. Len(sent) \in Nat /\ rcvd \in 0 .. Len(sent) /\ cur \in Nat /\ rcvd' \in Nat /\ cur' \in Nat
        /\ sent' = sent /\ rx' = rx
    BY <1>2 DEF Read, TypeOK
  <2>2. Buffered' \subseteq Buffered
    BY <1>2, <2>1 DEF Read, Buffered
  <2>3. SentLens' = SentLens
    BY <2>1 DEF SentLens
  <2>4. IsFiniteSet(Buffered) /\ (\A k \in Buffered : SentLens[k] \in Int)
        /\ \A k \in Buffered' : SentLens[k] \in Int /\ SentLens[k] <= SentLens[k]
    BY <2>2, PlaceTypes
  <2>5. Total(SentLens, Buffered') <= Total(SentLens, Buffered)
    BY ONLY <2>2, <2>4, TotalMonotone
  <2> QED
    BY <1>0, <2>1, <2>3, <2>5 DEF Queued
<1> QED
  BY <1>1, <1>2

\* A push that leaves gives up what it had in its hand.
LEMMA HandFreed ==
  ASSUME TypeOK, HandEmpty, TypeOK', HandEmpty', NEW p \in Pushers,
         hand' = [hand EXCEPT ![p] = NoChunk]
  PROVE  /\ Total(HandLens', Pushers) = Total(HandLens, Pushers) - hand[p].len
         /\ hand[p].len \in Nat
<1>1. hand'[p] = NoChunk /\ \A q \in Pushers \ {p} : hand'[q] = hand[q]
  BY DEF TypeOK
<1>2. hand'[p].len = 0
  BY <1>1 DEF NoChunk
<1>3. hand[p].len \in Nat /\ Total(HandLens, Pushers) \in Nat
  BY PlaceTypes
<1>4. Total(HandLens', Pushers) = Total(HandLens, Pushers) - hand[p].len + hand'[p].len
  BY <1>1, HandStep
<1> QED
  BY <1>2, <1>3, <1>4

\* Apart from a packet taken from its POST or from the map, the chunks on their way
\* to the reader do not grow: a chunk sent moves from the hand to the channel.
LEMMA FlowStep ==
  ASSUME UplinkInv, HandEmpty, [Next]_vars, UplinkInv', HandEmpty',
         \A p \in Pushers : ~TakeOwn(p) /\ ~DrainNext(p)
  PROVE  Total(HandLens', Pushers) + Queued' <= Total(HandLens, Pushers) + Queued
<1> USE DEF state, readerState
<1> DEFINE Less == Total(HandLens', Pushers) + Queued' <= Total(HandLens, Pushers) + Queued
<1>0. TypeOK /\ TypeOK' /\ Total(HandLens, Pushers) \in Nat /\ Queued \in Nat
  BY PlaceTypes DEF UplinkInv, Queued
<1>a. (TypeOK /\ HandEmpty =>
         /\ Total(pending, Parked) \in Nat /\ Total(HandLens, Pushers) \in Nat /\ Queued \in Nat
         /\ Reserved = Total(pending, Parked) + Total(HandLens, Pushers) + Queued)'
  BY PlacesAddUp, PTL
<1>b. Queued' \in Nat
  BY <1>0, <1>a
<1>1. CASE UNCHANGED <<hand, sent, rcvd, cur, rx>>
  <2>1. HandLens' = HandLens
    BY <1>1 DEF HandLens
  <2> QED
    BY <1>0, <1>1, <2>1, QueueSame
<1>2. ASSUME NEW p \in Pushers, hand' = [hand EXCEPT ![p] = NoChunk], UNCHANGED <<sent, rcvd, cur, rx>>
      PROVE  Less
  <2>1. Queued' = Queued
    BY <1>0, <1>2, QueueSame
  <2>2. Total(HandLens', Pushers) = Total(HandLens, Pushers) - hand[p].len /\ hand[p].len \in Nat
    BY <1>0, <1>2, HandFreed
  <2> QED
    BY <1>0, <2>1, <2>2
<1>3. ASSUME NEW p \in Pushers,
             \/ Duplicate(p) \/ TooMany(p) \/ Park(p) \/ GlobalFull(p) \/ SendClosed(p)
             \/ DrainDone(p) \/ Cancel(p)
      PROVE  Less
  <2> HIDE DEF Less
  <2> QED
    BY <1>2, <1>3 DEF Duplicate, TooMany, Park, GlobalFull, SendClosed, DrainDone, Cancel, Leave
<1>4. ASSUME NEW p \in Pushers, Advance(p)
      PROVE  /\ Total(HandLens', Pushers) = Total(HandLens, Pushers) - hand[p].len
             /\ hand[p].len \in Nat
  <2>1. CASE next_seq = Top
    BY <1>0, <1>4, <2>1, HandFreed DEF Advance, Leave
  <2>2. CASE next_seq # Top
    BY <1>0, <1>4, <2>2, HandFreed DEF Advance
  <2> QED
    BY <2>1, <2>2
<1>5. ASSUME NEW p \in Pushers, SendEmpty(p) PROVE Less
  <2>1. Queued' = Queued /\ Advance(p) /\ hand[p].len = 0
    BY <1>0, <1>5, QueueSame DEF SendEmpty
  <2> QED
    BY <1>0, <1>4, <2>1
<1>6. ASSUME NEW p \in Pushers, Send(p) PROVE Less
  <2>1. hand[p] \in Chunk /\ rx /\ sent' = Append(sent, hand[p]) /\ UNCHANGED readerState /\ Advance(p)
    BY <1>0, <1>6 DEF Send, TypeOK
  <2>2. Queued' = Queued + hand[p].len
    BY <1>0, <2>1, QueueSend
  <2> QED
    BY <1>0, <1>4, <2>1, <2>2
<1>7. CASE Read \/ DropReader
  <2>1. HandLens' = HandLens
    BY <1>7 DEF Read, DropReader, HandLens
  <2>2. Queued' <= Queued
    BY <1>0, <1>7, QueueShrinks
  <2> QED
    BY <1>0, <1>b, <2>1, <2>2
<1> HIDE DEF Less
<1>8. ASSUME NEW p \in Pushers, PushStep(p) \/ Cancel(p) PROVE Less
  BY <1>1, <1>3, <1>5, <1>6, <1>8 DEF PushStep, Teardown, Close, Less
<1>9. Less
  BY <1>1, <1>7, <1>8 DEF Next, vars, Start, Remove, Close, ReadEof, Less
<1> QED
  BY <1>9 DEF Less

\* Everything reserved fits the budget.
LEMMA BudgetStep ==
  ASSUME UplinkInv, HandEmpty, BudgetHeld, [Next]_vars
  PROVE  BudgetHeld'
<1> DEFINE P == Total(pending, Parked)  H == Total(HandLens, Pushers)
<1>0. UplinkInv' /\ HandEmpty'
  BY UplinkInvStep, HandEmptyStep
<1>1. P \in Nat /\ H \in Nat /\ Queued \in Nat /\ Reserved = P + H + Queued
  BY PlaceTypes DEF UplinkInv, Queued, Reserved
<1>2. P' \in Nat /\ H' \in Nat /\ Queued' \in Nat /\ Reserved' = P' + H' + Queued'
  <2>1. (TypeOK /\ HandEmpty =>
           /\ Total(pending, Parked) \in Nat /\ Total(HandLens, Pushers) \in Nat /\ Queued \in Nat
           /\ Reserved = Total(pending, Parked) + Total(HandLens, Pushers) + Queued)'
    BY PlacesAddUp, PTL
  <2> QED
    BY <1>0, <2>1 DEF UplinkInv
<1>3. \A p \in Pushers : arg[p].len \in Nat /\ hand[p].len \in Nat
  BY Types DEF UplinkInv, TypeOK
<1>4. ASSUME NEW p \in Pushers, Park(p) PROVE BudgetHeld'
  <2>1. P' = P + arg[p].len \/ P' = 0
    BY <1>4, ParkTotal
  <2>2. hand' = [hand EXCEPT ![p] = NoChunk] /\ UNCHANGED readerState /\ UNCHANGED sent
    BY <1>4 DEF Park, Leave
  <2>3. H' = H - hand[p].len
    BY <1>0, <2>2, HandFreed DEF UplinkInv
  <2>4. Queued' = Queued
    BY <2>2, QueueSame DEF UplinkInv, readerState
  <2>5. Limit # 0 => Reserved + arg[p].len <= Limit
    BY <1>4 DEF Park, CanReserve
  <2> HIDE DEF P, H
  <2> QED
    BY <1>1, <1>2, <1>3, <2>1, <2>3, <2>4, <2>5, ReorderAssumption DEF BudgetHeld
<1>5. ASSUME NEW p \in Pushers, DrainNext(p) PROVE BudgetHeld'
  <2>1. P' = P - pending[next_seq] /\ pending[next_seq] \in Nat
    BY <1>5, DrainTotal, DrainStep, ParkedType DEF UplinkInv
  <2>2. hand'[p] = [seq |-> next_seq, len |-> pending[next_seq]] /\ \A q \in Pushers \ {p} : hand'[q] = hand[q]
    BY <1>5 DEF DrainNext, UplinkInv, TypeOK
  <2>3. hand'[p].len = pending[next_seq] /\ hand[p].len = 0
    BY <1>5, <2>2 DEF DrainNext, HandEmpty, Sending
  <2>4. H' = H - hand[p].len + hand'[p].len
    BY <1>0, <2>2, HandStep DEF UplinkInv
  <2>5. Queued' = Queued
    BY <1>5, QueueSame DEF UplinkInv, DrainNext, readerState
  <2> HIDE DEF P, H
  <2> QED
    BY <1>1, <1>2, <2>1, <2>3, <2>4, <2>5 DEF BudgetHeld
<1>6. ASSUME NEW p \in Pushers, TakeOwn(p) PROVE BudgetHeld'
  <2>1. P' = P
    BY <1>6 DEF TakeOwn, Parked
  <2>2. hand'[p] = arg[p] /\ \A q \in Pushers \ {p} : hand'[q] = hand[q]
    BY <1>6 DEF TakeOwn, UplinkInv, TypeOK
  <2>3. hand'[p].len = arg[p].len /\ hand[p].len = 0
    BY <1>6, <2>2 DEF TakeOwn, IsNext, Locks, HandEmpty, Sending
  <2>4. H' = H - hand[p].len + hand'[p].len
    BY <1>0, <2>2, HandStep DEF UplinkInv
  <2>5. Queued' = Queued
    BY <1>6, QueueSame DEF UplinkInv, TakeOwn, readerState
  <2>6. Limit # 0 => Reserved + arg[p].len <= Limit
    BY <1>6 DEF TakeOwn, CanReserve
  <2> HIDE DEF P, H
  <2> QED
    BY <1>1, <1>2, <1>3, <2>1, <2>3, <2>4, <2>5, <2>6 DEF BudgetHeld
<1>7. CASE MapKept /\ \A p \in Pushers : ~TakeOwn(p) /\ ~DrainNext(p)
  <2>1. P' <= P
    <3>1. CASE pending' = pending
      BY <1>1, <3>1 DEF Parked
    <3>2. CASE pending' = NothingPending
      <4>1. \A q \in Parked' : pending'[q] \in Int /\ pending'[q] <= 0
        BY <3>2 DEF Parked, NothingPending
      <4>2. Total(pending', Parked') = 0
        BY ONLY <4>1, TotalZero
      <4> QED
        BY <1>1, <4>2
    <3> QED
      BY <1>7, <3>1, <3>2 DEF MapKept
  <2>2. H' + Queued' <= H + Queued
    BY <1>0, <1>7, FlowStep
  <2> HIDE DEF P, H
  <2>3. Reserved \in Int /\ Reserved' \in Int /\ Limit \in Int
    BY <1>1, <1>2, ReorderAssumption
  <2>4. Reserved' <= Reserved
    <3>1. \A a, b, c, d, e, g \in Nat : a <= d /\ b + c <= e + g => a + b + c <= d + e + g
      OBVIOUS
    <3> QED
      BY ONLY <1>1, <1>2, <2>1, <2>2, <3>1
  <2> QED
    BY <2>3, <2>4 DEF BudgetHeld
<1> QED
  BY <1>4, <1>5, <1>6, <1>7, MapStep

\* The counters read without the mutex are the map's contents while the uplink is
\* open, and all the session buffers stays within the global budget, however its
\* POSTs, cancellations, reader and removal interleave.
THEOREM UplinkAccounted == Spec => []Accounted
<1>1. Init => HandEmpty /\ CountersExact /\ BudgetHeld
  <2> SUFFICES ASSUME Init PROVE HandEmpty /\ CountersExact /\ BudgetHeld
    OBVIOUS
  <2>1. Parked = {}
    BY DEF Init, Parked, NothingPending
  <2>2. \A p \in Pushers : HandLens[p] \in Int /\ HandLens[p] <= 0
    BY DEF Init, HandLens, NoChunk
  <2>3. Buffered = {}
    BY DEF Init, Buffered
  <2>4. Total(HandLens, Pushers) = 0
    BY <2>2, TotalZero
  <2>5. Total(pending, Parked) = 0 /\ Total(SentLens, Buffered) = 0
    <3>1. \A q \in Parked : pending[q] \in Int /\ pending[q] <= 0
      BY <2>1
    <3>2. \A k \in Buffered : SentLens[k] \in Int /\ SentLens[k] <= 0
      BY <2>3
    <3>3. Total(pending, Parked) = 0
      BY ONLY <3>1, TotalZero
    <3>4. Total(SentLens, Buffered) = 0
      BY ONLY <3>2, TotalZero
    <3> QED
      BY <3>3, <3>4
  <2>6. HandEmpty
    BY DEF Init, HandEmpty, NoChunk
  <2>7. CountersExact
    <3>1. Cardinality(Parked) = 0
      BY <2>1, FS_EmptySet
    <3> QED
      BY <2>5, <3>1 DEF Init, CountersExact
  <2>8. Reserved = 0
    BY <2>4, <2>5 DEF Reserved
  <2> QED
    BY <2>6, <2>7, <2>8, ReorderAssumption DEF BudgetHeld
<1>2. UplinkInv /\ HandEmpty /\ CountersExact /\ BudgetHeld /\ [Next]_vars
        => HandEmpty' /\ CountersExact' /\ BudgetHeld'
  BY HandEmptyStep, CountersStep, BudgetStep
<1>3. CountersExact /\ BudgetHeld => Accounted
  BY DEF Accounted
<1> QED
  BY <1>1, <1>2, <1>3, UplinkInvariant, PTL DEF Spec
===============================================================================
