--------------------------- MODULE MCObjectStore ---------------------------
(* A finite instance of ObjectStore for TLC.  The ingesters can be          *)
(* exchanged for one another, and so can the writers.                      *)
EXTENDS ObjectStore, TLC

Symmetry == Permutations(Ingesters) \union Permutations(Writers)
=============================================================================
