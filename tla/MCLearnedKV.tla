----------------------------- MODULE MCLearnedKV -----------------------------
(***************************************************************************)
(* Instance of LearnedKV for TLC.  Values are interchangeable: the module  *)
(* only copies and compares them.                                          *)
(***************************************************************************)
EXTENDS LearnedKV, TLC

ValueSymmetry == Permutations(Values)
=============================================================================
