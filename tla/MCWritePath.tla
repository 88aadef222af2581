---------------------------- MODULE MCWritePath ----------------------------
(* Instances of WritePath for TLC. *)
EXTENDS WritePath, TLC

WriterSymmetry == Permutations(Writers)

============================================================================
