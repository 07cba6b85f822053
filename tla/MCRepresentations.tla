------------------------- MODULE MCRepresentations -------------------------
(* Finite instances of Representations for TLC. *)
EXTENDS Representations, TLC

\* Ingesting processes are interchangeable, and so are contents.
Symmetry == Permutations(Ingesters) \union Permutations(Versions)

=============================================================================
