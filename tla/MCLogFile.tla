----------------------------- MODULE MCLogFile -----------------------------
(* Small instances of the log for TLC. *)
EXTENDS LogFile, TLC

\* Threads differ only in name.
ThreadSymmetry == Permutations(Threads)

============================================================================
