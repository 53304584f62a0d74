--------------------------- MODULE PiecewiseLinear ---------------------------
(***************************************************************************)
(* The learned index of LearnedKV as pure operators: the greedy piecewise  *)
(* linear model that garbage collection builds over the sorted keys        *)
(* (build_piecewise_linear_regression), the position it predicts for a key *)
(* (query_model) and the window of the key array that get searches.        *)
(*                                                                         *)
(* A segment's slope rise/run and intercept base/run are kept as exact     *)
(* fractions over one denominator run > 0, where the code holds doubles.   *)
(* x is the sequence of keys, y the sequence of their record numbers; the  *)
(* code's vectors are 0-based, the sequences here 1-based.                 *)
(***************************************************************************)
EXTENDS Integers, Sequences

CONSTANTS
    ErrBound,   \* ERR_BOUND, in records
    MaxInt      \* the largest value of a C int

ASSUME ErrBoundAssumption == ErrBound \in Nat \ {0}
ASSUME MaxIntAssumption == MaxInt \in Nat

Segment == [start : Nat, rise : Int, run : Nat \ {0}, base : Int]

\* Mutant of Line: the difference of the keys taken the wrong way round.
LineBackwards(x, y, i, j) ==
    [start |-> x[i],
     rise  |-> y[j] - y[i],
     run   |-> x[i] - x[j],
     base  |-> y[i] * x[j] - x[i] * y[j]]

(***************************************************************************)
(* The line through points i and j, as the segment that starts at point i. *)
(***************************************************************************)
Line(x, y, i, j) ==
    [start |-> x[i],
     rise  |-> y[j] - y[i],
     run   |-> x[j] - x[i],
     base  |-> y[i] * x[j] - x[i] * y[j]]

\* slope * key + intercept, times run
Scaled(seg, key) == seg.rise * key + seg.base

\* Mutant of Misses: the absolute value forgotten.
MissesBelowOnly(seg, key, pos) ==
    pos * seg.run - Scaled(seg, key) > ErrBound * seg.run

\* |slope * key + intercept - pos| > err
Misses(seg, key, pos) ==
    \/ Scaled(seg, key) - pos * seg.run > ErrBound * seg.run
    \/ pos * seg.run - Scaled(seg, key) > ErrBound * seg.run

\* Mutant of Extend: last_start is not moved to the new segment's first key.
ExtendKeepingStart(st, x, y, i) ==
    IF Misses(st.seg, x[i], y[i])
    THEN [model |-> Append(st.model, st.seg),
          seg |-> [Line(x, y, i, i + 1) EXCEPT !.start = st.seg.start]]
    ELSE st

(***************************************************************************)
(* One iteration of the loop, on the state <<segments pushed, current      *)
(* segment>>: a key the current segment misses closes it and starts the    *)
(* next one, through that key and its successor.                           *)
(***************************************************************************)
Extend(st, x, y, i) ==
    IF Misses(st.seg, x[i], y[i])
    THEN [model |-> Append(st.model, st.seg), seg |-> Line(x, y, i, i + 1)]
    ELSE st

\* Mutant of Close: no corner case for the last key.
CloseWithoutCorner(st, x, y) == Append(st.model, st.seg)

(***************************************************************************)
(* After the loop the current segment is pushed; if it misses the last     *)
(* key, which the loop never looks at, the last two keys get a segment of  *)
(* their own.                                                              *)
(***************************************************************************)
Close(st, x, y) ==
    LET n == Len(x) IN
    IF Misses(st.seg, x[n], y[n])
    THEN st.model \o << st.seg, Line(x, y, n - 1, n) >>
    ELSE Append(st.model, st.seg)

\* The state of the loop when it has looked at keys 1 to i
BuildLoop(x, y) ==
    LET loop[i \in 2..Len(x)] ==
            IF i = 2 THEN [model |-> << >>, seg |-> Line(x, y, 1, 2)]
            ELSE Extend(loop[i - 1], x, y, i)
    IN  loop

\* The model over at least two keys
BuildModel(x, y) ==
    Close(BuildLoop(x, y)[IF Len(x) = 2 THEN 2 ELSE Len(x) - 1], x, y)

(***************************************************************************)
(* The linear search of query_model settles on segment c: it passed every  *)
(* earlier segment, and stops at c because c starts at the key, c is the   *)
(* last one, or the next one starts above the key.                         *)
(***************************************************************************)
IsChosen(model, key, c) ==
    /\ \A j \in 1..(c - 1) : model[j].start < key
    /\ model[c].start <= key
    /\ \/ model[c].start = key
       \/ c = Len(model)
       \/ model[c + 1].start > key

\* The double slope * key + intercept converted to int: a value out of range
\* becomes the smallest int, and any negative prediction is returned as 0.
ToPosition(seg, key) ==
    LET v == Scaled(seg, key) IN
    IF v < 0 \/ v >= (MaxInt + 1) * seg.run THEN 0 ELSE v \div seg.run

QueryModel(model, key) ==
    LET chosen == {c \in DOMAIN model : IsChosen(model, key, c)} IN
    IF chosen = {} THEN 0
    ELSE ToPosition(model[CHOOSE c \in chosen : TRUE], key)

(***************************************************************************)
(* The records of the key array that get compares with the key, given a    *)
(* predicted position: 0-based, from pos - ErrBound up to but excluding    *)
(* pos + ErrBound.                                                         *)
(***************************************************************************)
WindowStart(pos) == IF pos < ErrBound THEN 0 ELSE pos - ErrBound
Window(pos) == WindowStart(pos)..(pos + ErrBound - 1)
=============================================================================
