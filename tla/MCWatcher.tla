----------------------------- MODULE MCWatcher -----------------------------
(* Finite instances of Watcher for TLC. *)
EXTENDS Watcher, TLC

\* Watching processes are interchangeable (safety runs only).
WatcherSymmetry == Permutations(Watchers)

=============================================================================
