----------------------------- MODULE MCJobQueue -----------------------------
(* A finite instance of JobQueue for TLC. *)
EXTENDS JobQueue

\* Every claim ranges over all jobs (kind = None).
OnePool == {Jobs}

=============================================================================
