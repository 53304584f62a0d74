----------------------------- MODULE MCPagedPLR -----------------------------
(***************************************************************************)
(* Instance of PagedPLR for TLC: every ascending sequence of at most       *)
(* MaxLength keys below KeyBound with record numbers 0, 1, 2, ..., queried *)
(* for every key below KeyBound.                                           *)
(***************************************************************************)
EXTENDS PagedPLR, FiniteSets

CONSTANTS KeyBound, MaxLength

KeySets == {S \in SUBSET (0..(KeyBound - 1)) : Cardinality(S) <= MaxLength}

Sorted(S) ==
    [j \in 1..Cardinality(S) |-> CHOOSE k \in S : Cardinality({m \in S : m < k}) = j - 1]

MCInputs == {<< Sorted(S), [k \in 1..Cardinality(S) |-> k - 1] >> : S \in KeySets}

MCQueried == 0..(KeyBound - 1)
=============================================================================
