---------------------------- MODULE MCLearnedKVBg ----------------------------
(***************************************************************************)
(* Instance of LearnedKVBg for TLC.  Values are interchangeable.           *)
(***************************************************************************)
EXTENDS LearnedKVBg, TLC

ValueSymmetry == Permutations(Values)
=============================================================================
