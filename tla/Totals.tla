-------------------------------- MODULE Totals --------------------------------
(***************************************************************************)
(* The sum of a length over a set, counted unit by unit: the pairs <<x, k>> *)
(* with k at most f[x].  An x whose length is not positive adds nothing.   *)
(* What the code keeps as a running total is compared with it.             *)
(***************************************************************************)
EXTENDS Integers, FiniteSets

Units(f, S) == UNION {{x} \X (1 .. f[x]) : x \in S}

Total(f, S) == Cardinality(Units(f, S))
===============================================================================
