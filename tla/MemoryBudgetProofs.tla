-------------------------- MODULE MemoryBudgetProofs --------------------------
(***************************************************************************)
(* The compare-and-swap loop of buffer.rs implements the atomic budget,    *)
(* for any number of callers, any payload sizes and any limit.             *)
(***************************************************************************)
EXTENDS MemoryBudget, TotalsProofs, TLAPS

\* What the refinement needs of a state: types, that a caller without a live
\* reservation holds no bytes, and that one inside the loop asks for a payload.
BudgetInv ==
  /\ TypeOK
  /\ \A c \in Callers : pc[c] # "live" => held[c] = 0
  /\ \A c \in Callers : pc[c] = "loop" => want[c] \in Sizes

\* The arithmetic of the counter stays within its width.
LEMMA CounterTypes ==
  ASSUME NEW x \in 0 .. Top, NEW y \in 0 .. Top
  PROVE  /\ WrapSub(x, y) \in 0 .. Top
         /\ SatAdd(x, y) \in 0 .. Top
         /\ (x + y) % (Top + 1) \in 0 .. Top
  BY BudgetAssumption DEF WrapSub, SatAdd

\* A saturating addition that stays below u64::MAX is the plain one, and the
\* wrapping one.
LEMMA SatAddExact ==
  ASSUME NEW x \in 0 .. Top, NEW y \in 0 .. Top, NEW z \in Limits, SatAdd(x, y) <= z
  PROVE  /\ SatAdd(x, y) = x + y
         /\ (x + y) % (Top + 1) = x + y
  BY BudgetAssumption DEF SatAdd

\* Initially nobody holds anything.
LEMMA BudgetInvInit == Init => BudgetInv
  BY BudgetAssumption DEF Init, BudgetInv, TypeOK

\* Every memory access of try_reserve and of Reservation::drop keeps it so.
LEMMA BudgetInvStep == BudgetInv /\ [Next]_vars => BudgetInv'
<1> SUFFICES ASSUME BudgetInv, [Next]_vars PROVE BudgetInv'
  OBVIOUS
<1> USE DEF BudgetInv, TypeOK
<1>1. CASE UNCHANGED vars
  BY <1>1 DEF vars
<1>2. ASSUME NEW c \in Callers, NEW b \in Sizes, Load(c, b) PROVE BudgetInv'
  BY <1>2, BudgetAssumption DEF Load
<1>3. ASSUME NEW c \in Callers, NEW b \in Sizes, FetchAdd(c, b) PROVE BudgetInv'
  <2>1. b \in 0 .. Top
    BY BudgetAssumption
  <2>2. (used + b) % (Top + 1) \in 0 .. Top
    BY <2>1, CounterTypes
  <2> QED
    BY <1>3, <2>1, <2>2 DEF FetchAdd
<1>4. ASSUME NEW c \in Callers, Refuse(c) PROVE BudgetInv'
  BY <1>4 DEF Refuse
<1>5. ASSUME NEW c \in Callers, Swap(c) PROVE BudgetInv'
  <2>1. SatAdd(cur[c], want[c]) \in 0 .. Top
    BY CounterTypes
  <2> QED
    BY <1>5, <2>1 DEF Swap
<1>6. ASSUME NEW c \in Callers, Retry(c) PROVE BudgetInv'
  BY <1>6 DEF Retry
<1>7. ASSUME NEW c \in Callers, Drop(c) PROVE BudgetInv'
  <2>1. WrapSub(used, held[c]) \in 0 .. Top
    BY CounterTypes
  <2> QED
    BY <1>7, <2>1, BudgetAssumption DEF Drop
<1> QED
  BY <1>1, <1>2, <1>3, <1>4, <1>5, <1>6, <1>7 DEF Next

\* buffer.rs: every field of the budget and of its callers keeps its type; the
\* counter stays a u64.
THEOREM BudgetTypeCorrect == Spec => []TypeOK
<1>1. Spec => []BudgetInv
  BY BudgetInvInit, BudgetInvStep, PTL DEF Spec
<1>2. BudgetInv => TypeOK
  BY DEF BudgetInv
<1> QED
  BY <1>1, <1>2, PTL

\* Each step is a step of the atomic budget or leaves it alone: only Swap and
\* FetchAdd grant, and Drop releases.
LEMMA AtomicStep == BudgetInv /\ [Next]_vars => [Atomic!Next]_(Atomic!vars)
<1> SUFFICES ASSUME BudgetInv, [Next]_vars PROVE [Atomic!Next]_(Atomic!vars)
  OBVIOUS
<1> USE DEF BudgetInv, TypeOK, Atomic!vars
<1>1. CASE UNCHANGED vars
  BY <1>1 DEF vars
<1>2. ASSUME NEW c \in Callers, NEW b \in Sizes, Load(c, b)
      PROVE  UNCHANGED Atomic!vars
  BY <1>2 DEF Load
<1>3. ASSUME NEW c \in Callers, NEW b \in Sizes, FetchAdd(c, b)
      PROVE  Atomic!Reserve(c, b)
  BY <1>3 DEF FetchAdd, Atomic!Reserve
<1>4. ASSUME NEW c \in Callers, Refuse(c) PROVE UNCHANGED Atomic!vars
  BY <1>4 DEF Refuse
<1>5. ASSUME NEW c \in Callers, Swap(c)
      PROVE  \E b \in Sizes : Atomic!Reserve(c, b)
  <2>1. /\ SatAdd(used, want[c]) = used + want[c]
        /\ (used + want[c]) % (Top + 1) = used + want[c]
    BY <1>5, SatAddExact DEF Swap
  <2>2. want[c] \in Sizes
    BY <1>5 DEF Swap
  <2>3. Atomic!Reserve(c, want[c])
    BY <1>5, <2>1 DEF Swap, Atomic!Reserve
  <2> QED
    BY <2>2, <2>3
<1>6. ASSUME NEW c \in Callers, Retry(c) PROVE UNCHANGED Atomic!vars
  BY <1>6 DEF Retry
<1>7. ASSUME NEW c \in Callers, Drop(c) PROVE Atomic!Release(c)
  BY <1>7 DEF Drop, WrapSub, Atomic!Release
<1> QED
  BY <1>1, <1>2, <1>3, <1>4, <1>5, <1>6, <1>7 DEF Next, Atomic!Next

\* The lock-free program implements the atomic budget: a grant is one step that
\* adds the payload to the counter only if the sum stays within the limit.
THEOREM BudgetIsAtomic == Spec => AtomicSpec
<1>1. Init => Atomic!Init
  BY DEF Init, Atomic!Init
<1>2. Spec => []BudgetInv
  BY BudgetInvInit, BudgetInvStep, PTL DEF Spec
<1> QED
  BY <1>1, <1>2, AtomicStep, PTL DEF Spec, AtomicSpec, Atomic!Spec

-------------------------------------------------------------------------------
(* the counter and the reservations *)

\* Remainders of the counter's width M.
LEMMA Remainder ==
  ASSUME NEW M \in Nat, M > 0, NEW q \in Int, NEW r \in 0 .. M - 1
  PROVE  (M * q + r) % M = r
  BY Z3

LEMMA Quotient ==
  ASSUME NEW M \in Nat, M > 0, NEW x \in Int
  PROVE  /\ x \div M \in Int
         /\ x % M \in 0 .. M - 1
         /\ x = M * (x \div M) + (x % M)
  BY Z3

\* Adding to a wrapped counter is adding before it wraps.
LEMMA AddWrapped ==
  ASSUME NEW M \in Nat, M > 0, NEW x \in Int, NEW d \in Int
  PROVE  ((x % M) + d) % M = (x + d) % M
<1> DEFINE q == x \div M  y == (x % M) + d  k == y \div M  r == y % M
<1>1. q \in Int /\ x % M \in Int /\ x = M * q + (x % M)
  BY Quotient
<1>2. y \in Int
  BY <1>1
<1>3. k \in Int /\ r \in 0 .. M - 1 /\ y = M * k + r
  BY <1>2, Quotient
<1>4. x + d = M * q + y
  BY <1>1
<1> HIDE DEF q, y, k, r
<1>5. M * q + (M * k + r) = M * (q + k) + r
  BY <1>1, <1>3
<1>6. x + d = M * (q + k) + r /\ q + k \in Int
  BY <1>1, <1>3, <1>4, <1>5
<1>7. (x + d) % M = r
  BY <1>3, <1>6, Remainder
<1> QED
  BY <1>7 DEF r, y

\* What is reserved is a natural number, and changes as one caller's part does.
LEMMA GrantedType == TypeOK => Granted \in Nat
  BY TotalType, BudgetAssumption DEF TypeOK, Granted

LEMMA GrantedStep ==
  ASSUME TypeOK, NEW c \in Callers, NEW b \in 0 .. Top,
         held'[c] = b, \A y \in Callers \ {c} : held'[y] = held[y]
  PROVE  Granted' = Granted - held[c] + b
<1>1. held[c] \in Nat /\ held'[c] \in Nat
  BY BudgetAssumption DEF TypeOK
<1>2. \A y \in Callers \ {c} : held[y] \in Int /\ held'[y] = held[y]
  BY BudgetAssumption DEF TypeOK
<1>3. Total(held', Callers) = Total(held, Callers) - held[c] + held'[c]
  BY <1>1, <1>2, TotalReplace, BudgetAssumption
<1> QED
  BY <1>3 DEF Granted

\* The inductive invariant of the accounting.
AccountInv == BudgetInv /\ ExactAccounting

\* With a limit, nothing wraps: the counter is the sum itself.
LEMMA LimitedExact ==
  ASSUME TypeOK, ExactAccounting, limit # 0
  PROVE  used = Granted
<1>1. Top + 1 \in Nat /\ Top + 1 > 0 /\ Granted \in 0 .. (Top + 1) - 1
  BY GrantedType, BudgetAssumption DEF ExactAccounting, NoOvershoot, TypeOK
<1>2. ((Top + 1) * 0 + Granted) % (Top + 1) = Granted
  BY <1>1, Remainder
<1> QED
  BY <1>1, <1>2 DEF ExactAccounting

\* A change of the counter by d, wrapped, and of the reservations by d.
LEMMA CountedStep ==
  ASSUME TypeOK, ExactAccounting, NEW d \in Int,
         Granted' = Granted + d, used' = (used + d) % (Top + 1)
  PROVE  used' = Granted' % (Top + 1)
<1>1. Top + 1 \in Nat /\ Top + 1 > 0 /\ Granted \in Int
  BY GrantedType, BudgetAssumption
<1>2. ((Granted % (Top + 1)) + d) % (Top + 1) = (Granted + d) % (Top + 1)
  BY <1>1, AddWrapped
<1> QED
  BY <1>2 DEF ExactAccounting

LEMMA AccountInvStep == AccountInv /\ [Next]_vars => AccountInv'
<1> SUFFICES ASSUME AccountInv, [Next]_vars PROVE ExactAccounting'
  BY BudgetInvStep DEF AccountInv
<1>0. TypeOK /\ ExactAccounting /\ Granted \in Nat
  BY GrantedType DEF AccountInv, BudgetInv
<1>1. CASE UNCHANGED <<limit, used, held>>
  BY <1>0, <1>1 DEF ExactAccounting, NoOvershoot, Granted
<1>2. ASSUME NEW c \in Callers, NEW b \in Sizes, FetchAdd(c, b) PROVE ExactAccounting'
  <2>1. b \in 0 .. Top /\ b \in Int /\ held[c] = 0
    BY <1>2, BudgetAssumption DEF AccountInv, BudgetInv, FetchAdd
  <2>2. Granted' = Granted + b
    BY <1>0, <1>2, <2>1, GrantedStep DEF FetchAdd, TypeOK
  <2>3. used' = Granted' % (Top + 1)
    BY <1>0, <1>2, <2>1, <2>2, CountedStep DEF FetchAdd
  <2> QED
    BY <1>2, <2>3 DEF FetchAdd, ExactAccounting, NoOvershoot
<1>3. ASSUME NEW c \in Callers, Swap(c) PROVE ExactAccounting'
  <2>1. used' = used + want[c] /\ used' = (used + want[c]) % (Top + 1) /\ used' <= limit
    BY <1>0, <1>3, SatAddExact DEF Swap, TypeOK
  <2>2. want[c] \in 0 .. Top /\ want[c] \in Int /\ held[c] = 0
    BY <1>0, <1>3, BudgetAssumption DEF AccountInv, BudgetInv, Swap, TypeOK
  <2>3. Granted' = Granted + want[c]
    BY <1>0, <1>3, <2>2, GrantedStep DEF Swap, TypeOK
  <2>4. used' = Granted' % (Top + 1)
    BY <1>0, <2>1, <2>2, <2>3, CountedStep
  <2>5. NoOvershoot'
    BY <1>0, <1>3, <2>1, <2>3, LimitedExact DEF Swap, NoOvershoot
  <2> QED
    BY <2>4, <2>5 DEF ExactAccounting
<1>4. ASSUME NEW c \in Callers, Drop(c) PROVE ExactAccounting'
  <2>1. held[c] \in Nat /\ -held[c] \in Int /\ 0 \in 0 .. Top
    BY <1>0, BudgetAssumption DEF TypeOK
  <2>2. Granted' = Granted + (-held[c])
    BY <1>0, <1>4, <2>1, GrantedStep DEF Drop, TypeOK
  <2>3. used' = (used + (-held[c])) % (Top + 1)
    BY <1>0, <1>4, <2>1, BudgetAssumption DEF Drop, WrapSub, TypeOK
  <2>4. used' = Granted' % (Top + 1)
    BY <1>0, <2>1, <2>2, <2>3, CountedStep
  <2>5. NoOvershoot'
    BY <1>0, <1>4, <2>1, <2>2, BudgetAssumption DEF Drop, ExactAccounting, NoOvershoot, TypeOK
  <2> QED
    BY <2>4, <2>5 DEF ExactAccounting
<1> QED
  BY <1>1, <1>2, <1>3, <1>4 DEF Next, vars, Load, Refuse, Retry

\* buffer.rs: whatever the callers' loads, swaps and drops interleave to, the
\* counter is the bytes of the live reservations modulo 2^64, and under a limit
\* they never exceed it.
THEOREM BudgetExactAccounting == Spec => []ExactAccounting
<1>1. Init => AccountInv
  <2> SUFFICES ASSUME Init PROVE AccountInv
    OBVIOUS
  <2>1. Granted = 0
    BY TotalZero DEF Init, Granted
  <2>2. Top + 1 \in Nat /\ Top + 1 > 0 /\ 0 \in 0 .. (Top + 1) - 1 /\ (Top + 1) * 0 + 0 = 0
    BY BudgetAssumption
  <2>3. 0 % (Top + 1) = 0
    BY <2>2, Remainder
  <2> QED
    BY <2>1, <2>3, BudgetInvInit, BudgetAssumption DEF Init, AccountInv, ExactAccounting, NoOvershoot
<1>2. AccountInv => ExactAccounting
  BY DEF AccountInv
<1> QED
  BY <1>1, <1>2, AccountInvStep, PTL DEF Spec
===============================================================================
