--------------------------- MODULE MCWriterQueue ---------------------------
(* Instances of WriterQueue for TLC. *)
EXTENDS WriterQueue, TLC

\* Writers are interchangeable in the safety runs.
WriterSymmetry == Permutations(Writers)

============================================================================
