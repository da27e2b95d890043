------------------------------ MODULE ByteBudget ------------------------------
(***************************************************************************)
(* What the process-wide upload budget promises: a reservation is granted  *)
(* in one indivisible step, only while the sum of everything granted stays *)
(* inside the limit, and is handed back in one step.  MemoryBudget is the  *)
(* lock-free program that implements it.                                   *)
(***************************************************************************)
EXTENDS Integers

CONSTANTS
  Callers,   \* the reservation attempts that can be alive at the same time
  Sizes,     \* payload lengths
  Limits,    \* the ceilings it may be created with
  Top        \* largest value of the counter, which wraps

VARIABLES
  limit,     \* the ceiling; 0 means unlimited
  used,      \* bytes charged against the ceiling
  held       \* held[c]: bytes of the reservation c owns, 0 when it owns none

vars == <<limit, used, held>>

Init ==
  /\ limit \in Limits
  /\ used = 0
  /\ held = [c \in Callers |-> 0]

\* Grant b bytes to c.
Reserve(c, b) ==
  /\ held[c] = 0
  /\ limit # 0 => used + b <= limit
  /\ used' = (used + b) % (Top + 1)
  /\ held' = [held EXCEPT ![c] = b]
  /\ UNCHANGED limit

\* Hand back what c owns.
Release(c) ==
  /\ used' = (used - held[c]) % (Top + 1)
  /\ held' = [held EXCEPT ![c] = 0]
  /\ UNCHANGED limit

Next ==
  \E c \in Callers :
    \/ \E b \in Sizes : Reserve(c, b)
    \/ Release(c)

Spec == Init /\ [][Next]_vars
===============================================================================
