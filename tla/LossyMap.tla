------------------------------ MODULE LossyMap ------------------------------
(***************************************************************************)
(* What LearnedKV promises to a client when the learned index is off and   *)
(* nothing fails: a map from keys to values in which a put may, besides    *)
(* storing its own pair, drop the pair with the largest key.               *)
(***************************************************************************)
EXTENDS Integers

CONSTANTS Keys, Values, NotFound, Ok

VARIABLES
    dict,   \* key -> value, or NotFound
    reply   \* what the last call returned

vars == << dict, reply >>

Init ==
    /\ dict = [k \in Keys |-> NotFound]
    /\ reply = Ok

Stored == {k \in Keys : dict[k] # NotFound}

Put(k, v) ==
    /\ dict' = [dict EXCEPT ![k] = v]
    /\ reply' = Ok

\* A put that has to make room first
PutCollecting(k, v) ==
    /\ \E max \in Stored :
        /\ \A m \in Stored : m <= max
        /\ dict' = [dict EXCEPT ![max] = NotFound, ![k] = v]
    /\ reply' = Ok

Get(k) ==
    /\ reply' = dict[k]
    /\ UNCHANGED dict

Next ==
    \E k \in Keys :
        \/ \E v \in Values : Put(k, v) \/ PutCollecting(k, v)
        \/ Get(k)

Spec == Init /\ [][Next]_vars
=============================================================================
