------------------------------ MODULE MCBackup ------------------------------
(* Finite instances of Backup for TLC. *)
EXTENDS Backup

\* Object 2, the last entry of every operation, may be published again.
SecondTwice == [o \in Objects |-> IF o = 2 THEN 2 ELSE 1]

=============================================================================
