---------------------------- MODULE MCSessionTable ----------------------------
(* Instances of SessionTable for TLC. *)
EXTENDS SessionTable, TLC

CONSTANTS i1, i2, h1, h2

\* One id; two ids in different shards.
OneId == i1 :> h1
TwoShards == (i1 :> h1) @@ (i2 :> h2)

\* Session objects and request slots of a kind are interchangeable.
Symm == Permutations(Sessions) \cup Permutations(Posts) \cup Permutations(Gets)
===============================================================================
