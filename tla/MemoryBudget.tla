----------------------------- MODULE MemoryBudget -----------------------------
(***************************************************************************)
(* buffer.rs: MemoryBudget::try_reserve, a compare-and-swap loop over one  *)
(* shared AtomicU64, and the RAII Reservation that gives the bytes back.   *)
(*                                                                         *)
(* A caller is one upload payload: it reserves once, the reservation lives *)
(* while the payload is buffered, and the caller may start over once it    *)
(* was dropped.  Every atomic memory access is a step of its own.          *)
(***************************************************************************)
EXTENDS Integers, FiniteSets, Totals

CONSTANTS
  Callers,   \* payloads that may be alive at the same time
  Sizes,     \* payload lengths, in bytes
  Limits,    \* values limit_bytes may be configured to
  Top        \* u64::MAX

\* A limit of u64::MAX is left out: there saturating_add returns the limit
\* itself and the refusal test can never be true.
ASSUME BudgetAssumption ==
  /\ Top \in Nat
  /\ Limits \subseteq 0 .. (Top - 1)
  /\ Sizes \subseteq 0 .. Top
  /\ IsFiniteSet(Callers)

VARIABLES
  limit,  \* BudgetInner::limit, set once; 0 means unlimited
  used,   \* BudgetInner::used
  pc,     \* "idle", "loop" (inside try_reserve), "live" (Reservation exists)
  cur,    \* try_reserve's local copy of used
  want,   \* the bytes argument of the call in progress
  held    \* Reservation::bytes, 0 when there is none

vars == <<limit, used, pc, cur, want, held>>

TypeOK ==
  /\ limit \in Limits
  /\ used \in 0 .. Top
  /\ pc \in [Callers -> {"idle", "loop", "live"}]
  /\ cur \in [Callers -> 0 .. Top]
  /\ want \in [Callers -> 0 .. Top]
  /\ held \in [Callers -> 0 .. Top]

Init ==
  /\ limit \in Limits
  /\ used = 0
  /\ pc = [c \in Callers |-> "idle"]
  /\ cur = [c \in Callers |-> 0]
  /\ want = [c \in Callers |-> 0]
  /\ held = [c \in Callers |-> 0]

-------------------------------------------------------------------------------
\* u64::saturating_add
SatAdd(x, y) == IF x + y > Top THEN Top ELSE x + y

\* u64 subtraction as fetch_sub does it
WrapSub(x, y) == (x - y) % (Top + 1)

\* Limited budget: the first load of used.
Load(c, b) ==
  /\ limit # 0
  /\ pc[c] = "idle"
  /\ pc' = [pc EXCEPT ![c] = "loop"]
  /\ want' = [want EXCEPT ![c] = b]
  /\ cur' = [cur EXCEPT ![c] = used]
  /\ UNCHANGED <<limit, used, held>>

\* Unlimited budget: one unconditional fetch_add, which wraps.
FetchAdd(c, b) ==
  /\ limit = 0
  /\ pc[c] = "idle"
  /\ pc' = [pc EXCEPT ![c] = "live"]
  /\ used' = (used + b) % (Top + 1)
  /\ held' = [held EXCEPT ![c] = b]
  /\ UNCHANGED <<limit, cur, want>>

\* The value last seen leaves no room: try_reserve returns None.
Refuse(c) ==
  /\ pc[c] = "loop"
  /\ SatAdd(cur[c], want[c]) > limit
  /\ pc' = [pc EXCEPT ![c] = "idle"]
  /\ UNCHANGED <<limit, used, cur, want, held>>

\* As try_reserve, but with a plain store in place of the compare-exchange.
SwapUnchecked(c) ==
  /\ pc[c] = "loop"
  /\ SatAdd(cur[c], want[c]) <= limit
  /\ used' = SatAdd(cur[c], want[c])
  /\ pc' = [pc EXCEPT ![c] = "live"]
  /\ held' = [held EXCEPT ![c] = want[c]]
  /\ UNCHANGED <<limit, cur, want>>

\* As try_reserve, but testing the limit before the addition.
SwapLate(c) ==
  /\ pc[c] = "loop"
  /\ cur[c] <= limit
  /\ used = cur[c]
  /\ used' = SatAdd(cur[c], want[c])
  /\ pc' = [pc EXCEPT ![c] = "live"]
  /\ held' = [held EXCEPT ![c] = want[c]]
  /\ UNCHANGED <<limit, cur, want>>

\* compare_exchange_weak succeeds: nobody changed used since it was read.
Swap(c) ==
  /\ pc[c] = "loop"
  /\ SatAdd(cur[c], want[c]) <= limit
  /\ used = cur[c]
  /\ used' = SatAdd(cur[c], want[c])
  /\ pc' = [pc EXCEPT ![c] = "live"]
  /\ held' = [held EXCEPT ![c] = want[c]]
  /\ UNCHANGED <<limit, cur, want>>

\* compare_exchange_weak fails and reports the current value.  (A spurious
\* failure reports cur itself, which changes nothing.)
Retry(c) ==
  /\ pc[c] = "loop"
  /\ SatAdd(cur[c], want[c]) <= limit
  /\ used # cur[c]
  /\ cur' = [cur EXCEPT ![c] = used]
  /\ UNCHANGED <<limit, used, pc, want, held>>

\* impl Drop for Reservation
Drop(c) ==
  /\ pc[c] = "live"
  /\ pc' = [pc EXCEPT ![c] = "idle"]
  /\ used' = WrapSub(used, held[c])
  /\ held' = [held EXCEPT ![c] = 0]
  /\ UNCHANGED <<limit, cur, want>>

Next ==
  \E c \in Callers :
    \/ \E b \in Sizes : Load(c, b) \/ FetchAdd(c, b)
    \/ Refuse(c) \/ Swap(c) \/ Retry(c) \/ Drop(c)

Spec == Init /\ [][Next]_vars

-------------------------------------------------------------------------------
\* "concurrent callers cannot collectively overshoot the ceiling": the
\* reservations alive at any moment, added up, stay within a limit that is set.
Granted == Total(held, Callers)

NoOvershoot == limit # 0 => Granted <= limit

\* The counter is exactly the bytes of the live reservations, modulo its width,
\* and they stay within the limit: no interleaving of loads, swaps and drops loses
\* or duplicates a charge, or lets one through that another has taken the room of.
ExactAccounting == used = Granted % (Top + 1) /\ NoOvershoot

\* Implementing the atomic budget: a successful compare-exchange is the instant
\* the grant happens.
Atomic == INSTANCE ByteBudget

\* The lock-free try_reserve and Reservation::drop are indistinguishable from
\* one indivisible test-and-add and one indivisible subtraction.
AtomicSpec == Atomic!Spec
===============================================================================
