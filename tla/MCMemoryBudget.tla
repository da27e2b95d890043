---------------------------- MODULE MCMemoryBudget ----------------------------
(* Instances of MemoryBudget for TLC. *)
EXTENDS MemoryBudget

\* An empty payload, and two sizes that fit the limit of 3 only in part; three of
\* the larger one wrap a counter that ends at 4.
MCSizes == {0, 1, 2}
MCLimits == {0, 3}
===============================================================================
