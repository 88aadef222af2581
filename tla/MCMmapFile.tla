----------------------------- MODULE MCMmapFile -----------------------------
(* MmapFile for TLC: threads are interchangeable. *)
EXTENDS MmapFile, TLC

Symmetry == Permutations(Threads)
=============================================================================
