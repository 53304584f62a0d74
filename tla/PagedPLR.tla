------------------------------ MODULE PagedPLR ------------------------------
(***************************************************************************)
(* The learned index of learnedKV_PLR+.h: a greedy piecewise linear model  *)
(* over page numbers instead of record numbers, and the binary search of   *)
(* its query_model, both step by step.  Every behaviour builds one model   *)
(* from an input of Inputs and then answers queries.                       *)
(*                                                                         *)
(* Segments and the line through two points are those of PiecewiseLinear;  *)
(* left, right and segment_idx are 0-based as in the code.                 *)
(***************************************************************************)
EXTENDS PiecewiseLinear

CONSTANTS
    PageSize,   \* PAGE_SIZE, by which the record numbers are divided
    Inputs,     \* the pairs <<x, y>> the builder may be called with
    Queried     \* the keys query_model is called with

\* What garbage collection passes: distinct keys in ascending order and their
\* record numbers, small enough for query_model's int.
IsInput(p) ==
    /\ p[1] \in Seq(Nat) /\ p[2] \in Seq(Nat) /\ Len(p[1]) = Len(p[2])
    /\ \A j \in 1..Len(p[2]) : p[2][j] + (ErrBound + 1) * PageSize <= MaxInt
    /\ \A j \in 1..Len(p[1]), k \in 1..Len(p[1]) : j < k => p[1][j] < p[1][k]

ASSUME PageSizeAssumption == PageSize \in Nat \ {0}
ASSUME InputsAssumption == \A p \in Inputs : IsInput(p)
ASSUME QueriedAssumption == Queried \subseteq Nat

VARIABLES
    x, y,           \* the arguments of the builder
    i,              \* 1-based index of the key the loop looks at next
    seg,            \* current_seg; last_start always equals its start
    model,          \* the segments pushed so far
    pc,             \* "start", "loop", "rejected"; "ready", "search", "found"
    key,            \* the argument of query_model
    left, right,    \* the part of model still searched
    segment_idx

build == << x, y, i, seg, model >>
search == << key, left, right, segment_idx >>
vars == << build, pc, search >>

\* page_positions
Pages == [j \in 1..Len(y) |-> y[j] \div PageSize]

Init ==
    /\ \E p \in Inputs : x = p[1] /\ y = p[2]
    /\ i = 3
    /\ seg = [start |-> 0, rise |-> 0, run |-> 1, base |-> 0]
    /\ model = << >>
    /\ pc = "start"
    /\ key = 0 /\ left = 0 /\ right = 0 /\ segment_idx = 0
-----------------------------------------------------------------------------
(***************************************************************************)
(* build_piecewise_linear_regression.                                      *)
(***************************************************************************)
\* Fewer than two keys: return -1, no model is written.
Reject ==
    /\ pc = "start"
    /\ Len(x) < 2
    /\ pc' = "rejected"
    /\ UNCHANGED << build, search >>

Begin ==
    /\ pc = "start"
    /\ Len(x) >= 2
    /\ seg' = Line(x, Pages, 1, 2)
    /\ pc' = "loop"
    /\ UNCHANGED << x, y, i, model, search >>

\* The segment's line stays within the error bound of the next key.
Keep ==
    /\ pc = "loop" /\ i <= Len(x)
    /\ ~Misses(seg, x[i], Pages[i])
    /\ i' = i + 1
    /\ UNCHANGED << x, y, seg, model, pc, search >>

\* Mutant of Cut: last_start keeps the start of the segment that was pushed.
CutKeepingStart ==
    /\ pc = "loop" /\ i <= Len(x)
    /\ Misses(seg, x[i], Pages[i])
    /\ model' = Append(model, seg)
    /\ seg' = [Line(x, Pages, i - 1, i) EXCEPT !.start = seg.start]
    /\ i' = i + 1
    /\ UNCHANGED << x, y, pc, search >>

\* Mutant of Cut: the slope is left as it was.
CutKeepingSlope ==
    /\ pc = "loop" /\ i <= Len(x)
    /\ Misses(seg, x[i], Pages[i])
    /\ model' = Append(model, seg)
    /\ seg' = [seg EXCEPT !.start = x[i - 1]]
    /\ i' = i + 1
    /\ UNCHANGED << x, y, pc, search >>

\* A missed key closes the segment; the next one starts at the key before it
\* and goes through both.
Cut ==
    /\ pc = "loop" /\ i <= Len(x)
    /\ Misses(seg, x[i], Pages[i])
    /\ model' = Append(model, seg)
    /\ seg' = Line(x, Pages, i - 1, i)
    /\ i' = i + 1
    /\ UNCHANGED << x, y, pc, search >>

\* Push the last segment and write both files.  When the key array cannot be
\* opened the model is written all the same.
Finish ==
    /\ pc = "loop" /\ i > Len(x)
    /\ model' = Append(model, seg)
    /\ pc' = "ready"
    /\ UNCHANGED << x, y, i, seg, search >>

\* The model file cannot be opened: nothing is written.
FinishFails ==
    /\ pc = "loop" /\ i > Len(x)
    /\ pc' = "rejected"
    /\ UNCHANGED << build, search >>
-----------------------------------------------------------------------------
(***************************************************************************)
(* query_model.                                                            *)
(***************************************************************************)
\* Without a model file the call returns -1 and changes nothing.
Query(k) ==
    /\ pc = "ready"
    /\ pc' = "search"
    /\ key' = k
    /\ left' = 0 /\ right' = Len(model) - 1 /\ segment_idx' = 0
    /\ UNCHANGED build

Mid == left + (right - left) \div 2

GoLeft ==
    /\ pc = "search" /\ left <= right
    /\ key < model[Mid + 1].start
    /\ right' = Mid - 1
    /\ UNCHANGED << build, pc, key, left, segment_idx >>

\* Mutant of GoRight: the segment in the middle is searched again.
GoRightStaying ==
    /\ pc = "search" /\ left <= right
    /\ key >= model[Mid + 1].start
    /\ segment_idx' = Mid
    /\ left' = Mid
    /\ UNCHANGED << build, pc, key, right >>

\* Mutant of GoRight: the segment found is not remembered.
GoRightForgetting ==
    /\ pc = "search" /\ left <= right
    /\ key >= model[Mid + 1].start
    /\ left' = Mid + 1
    /\ UNCHANGED << build, pc, key, right, segment_idx >>

GoRight ==
    /\ pc = "search" /\ left <= right
    /\ key >= model[Mid + 1].start
    /\ segment_idx' = Mid
    /\ left' = Mid + 1
    /\ UNCHANGED << build, pc, key, right >>

SearchEnds ==
    /\ pc = "search" /\ left > right
    /\ pc' = "found"
    /\ UNCHANGED << build, search >>

\* Mutant of Estimate: the page number is not converted to a position.
EstimateOfPage ==
    LET s == model[segment_idx + 1]
        v == Scaled(s, key)
    IN  IF v < 0 \/ v >= (MaxInt + 1) * s.run THEN 0 ELSE v \div s.run

\* The position query_model returns, from the middle of the predicted page: a
\* value out of range becomes the smallest int, a negative one 0.
Estimate ==
    LET s == model[segment_idx + 1]
        v == Scaled(s, key) * PageSize + (PageSize \div 2) * s.run
    IN  IF v < 0 \/ v >= (MaxInt + 1) * s.run THEN 0 ELSE v \div s.run

Return ==
    /\ pc = "found"
    /\ pc' = "ready"
    /\ key' = 0 /\ left' = 0 /\ right' = 0 /\ segment_idx' = 0
    /\ UNCHANGED build

SearchStep == GoLeft \/ GoRight \/ SearchEnds

Next ==
    \/ Reject \/ Begin \/ Keep \/ Cut \/ Finish \/ FinishFails
    \/ (\E k \in Queried : Query(k)) \/ SearchStep \/ Return

\* The thread that called query_model keeps running.
Spec == Init /\ [][Next]_vars /\ WF_vars(SearchStep)
-----------------------------------------------------------------------------
(***************************************************************************)
(* Properties.                                                             *)
(***************************************************************************)
Built == pc \in {"ready", "search", "found"}

\* Type invariant of the builder and of the search.
TypeOK ==
    /\ IsInput(<< x, y >>)
    /\ i \in Nat \ {0, 1, 2}
    /\ seg \in Segment
    /\ model \in Seq(Segment)
    /\ pc \in {"start", "loop", "rejected", "ready", "search", "found"}
    /\ key \in Nat /\ left \in Nat /\ right \in Nat \cup {-1}
    /\ segment_idx \in Nat

\* The segments built so far, the open one included
Segments == IF pc = "loop" THEN Append(model, seg) ELSE model

\* k falls to segment c: c starts at or below it and the next one above it.
FallsTo(k, c) ==
    /\ Segments[c].start <= k
    /\ c < Len(Segments) => k < Segments[c + 1].start

\* Every key the builder is through with lies within ErrBound pages of the
\* segment it falls to.  The segment after a cut starts one key earlier than the
\* key that was missed, so that key changes its segment when it is already done
\* with; and the loop reaches the last key, unlike that of learnedKV.h.
PageErrorBounded ==
    pc = "loop" \/ Built =>
        \A c \in DOMAIN Segments, k \in 1..(i - 1) :
            FallsTo(x[k], c) => ~Misses(Segments[c], x[k], Pages[k])

\* The segments start at ascending keys, the first one at the smallest key: what
\* the binary search needs.
SegmentsOrdered ==
    pc = "loop" \/ Built =>
        /\ Segments # << >>
        /\ Segments[1].start = x[1]
        /\ \A c, d \in DOMAIN Segments : c < d => Segments[c].start < Segments[d].start

\* The binary search finds the segment the key falls to, and the first segment
\* for a key below all of them.
SearchFindsSegment ==
    pc = "found" =>
        \/ segment_idx + 1 \in DOMAIN model /\ FallsTo(key, segment_idx + 1)
        \/ segment_idx = 0 /\ key < model[1].start

\* For a stored key query_model returns a position within ErrBound pages and a
\* half of its record: the bound is one of pages, while get searches ErrBound
\* records to either side.
EstimateWithinPages ==
    pc = "found" =>
        \A k \in DOMAIN x :
            x[k] = key =>
                /\ Estimate - y[k] <= ErrBound * PageSize + PageSize \div 2
                /\ y[k] - Estimate <= ErrBound * PageSize + PageSize \div 2

\* The binary search ends.
SearchTerminates == pc = "search" ~> pc = "found"
=============================================================================
