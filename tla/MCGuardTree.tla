----------------------------- MODULE MCGuardTree -----------------------------
(* A small instance of GuardTree for TLC.                                  *)
EXTENDS GuardTree, TLC

GuardFromDef == 1 :> 0
=============================================================================
