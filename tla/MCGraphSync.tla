---------------------------- MODULE MCGraphSync ----------------------------
(* A finite instance of GraphSync for TLC: items and processes can be      *)
(* exchanged among themselves.                                             *)
EXTENDS GraphSync, TLC

Symmetry == Permutations(Items) \union Permutations(Syncs)
=============================================================================
