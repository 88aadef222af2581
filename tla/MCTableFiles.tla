---------------------------- MODULE MCTableFiles ----------------------------
(* Small instances of TableFiles for TLC.                                  *)
EXTENDS TableFiles, TLC

ContentsDef == <<{1}, {0, 1}, {}>>
LevelOfDef  == [c \in Callers |-> 0]
=============================================================================
