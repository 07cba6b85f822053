--------------------------- MODULE MCMaintenance ----------------------------
(* Finite instances of Maintenance for TLC. *)
EXTENDS Maintenance

\* Object 1 may be published again, in quarantine or after a restore.
FirstTwice == [o \in Objects |-> IF o = 1 THEN 2 ELSE 1]

=============================================================================
