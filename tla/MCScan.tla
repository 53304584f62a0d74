------------------------------- MODULE MCScan -------------------------------
(***************************************************************************)
(* Instance of Scan for TLC; ErrBound and the key set make the model miss. *)
(***************************************************************************)
EXTENDS Scan, TLC

ValueSymmetry == Permutations(Values)

=============================================================================
