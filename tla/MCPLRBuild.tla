----------------------------- MODULE MCPLRBuild -----------------------------
(***************************************************************************)
(* Instance of PLRBuild for TLC: every ascending sequence of at most       *)
(* MaxLength keys below KeyBound, with the positions 0, 1, 2, ... that     *)
(* garbage collection gives them.                                          *)
(***************************************************************************)
EXTENDS PLRBuild, FiniteSets, SequencesExt

CONSTANTS KeyBound, MaxLength

KeySets == {S \in SUBSET (0..(KeyBound - 1)) : Cardinality(S) <= MaxLength}

MCInputs ==
    {<< SetToSortSeq(S, <), [k \in 1..Cardinality(S) |-> k - 1] >> : S \in KeySets}
=============================================================================
