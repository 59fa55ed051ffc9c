----------------------------- MODULE MCExecutor -----------------------------
(* Executor for TLC: files, run slots and cron IDs are interchangeable.            *)
EXTENDS Executor, TLC

Symmetry == Permutations(Files) \cup Permutations(Runs) \cup Permutations(Ids)

=============================================================================
