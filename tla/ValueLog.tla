------------------------------ MODULE ValueLog ------------------------------
(***************************************************************************)
(* What garbage collection reads out of a value log, a sequence of records *)
(* [key, val] in the order in which they were written.                     *)
(***************************************************************************)
EXTENDS Integers, Sequences, FiniteSets

LogKeys(log) == {log[j].key : j \in DOMAIN log}

\* Position (1-based) of the last record of a key in the log
LastIndex(log, k) ==
    CHOOSE j \in DOMAIN log :
        /\ log[j].key = k
        /\ \A m \in DOMAIN log : m > j => log[m].key # k

\* valid_map: reading the log front to back leaves each key's last value.
ValidValue(log, k) == log[LastIndex(log, k)].val

\* Mutant of Survivors: the loop runs to end().
SurvivorsToEnd(log) == LogKeys(log)

\* Mutant of Survivors: the loop starts at begin() + 1 as well.
SurvivorsFromSecond(log) ==
    {k \in LogKeys(log) : \E m, n \in LogKeys(log) : n < k /\ k < m}

\* The loop over the sorted valid_vec runs to end() - 1.
Survivors(log) == {k \in LogKeys(log) : \E m \in LogKeys(log) : k < m}

SortedSeqs(S) ==
    {s \in [1..Cardinality(S) -> S] :
        /\ \A k \in S : \E j \in 1..Cardinality(S) : s[j] = k
        /\ \A j, m \in 1..Cardinality(S) : j < m => s[j] < s[m]}

\* The records of the keys in s, each with its last value in the log
Pairs(log, s) == [j \in 1..Len(s) |-> [key |-> s[j], val |-> ValidValue(log, s[j])]]
=============================================================================
