------------------------------- MODULE MCReorder -------------------------------
(* Instances of Reorder for TLC. *)
EXTENDS Reorder, TLC

\* Empty packets, and ones of which one fills MCReorder.cfg's byte bound and its
\* channel and two its budget, and that can be read in two pieces.
MCLens == {0, 2}

\* Pushers are interchangeable.
Symm == Permutations(Pushers)
===============================================================================
