------------------------------ MODULE PLRBuild ------------------------------
(***************************************************************************)
(* build_piecewise_linear_regression step by step: the vector it reads     *)
(* (x, y), the segments already pushed, the segment being extended and the *)
(* loop index.  last_start of the code always equals seg.start and is not  *)
(* a variable of its own.  Every run starts from one input of Inputs.      *)
(***************************************************************************)
EXTENDS PiecewiseLinear

CONSTANT Inputs     \* the pairs <<x, y>> the builder may be called with

\* What garbage collection passes: distinct keys in ascending order, one
\* position for each, small enough for an int (put asserts that there are fewer
\* than 10^8 records).
IsInput(p) ==
    /\ p[1] \in Seq(Nat) /\ p[2] \in Seq(Nat) /\ Len(p[1]) = Len(p[2])
    /\ \A j \in 1..Len(p[2]) : p[2][j] + ErrBound <= MaxInt
    /\ \A j \in 1..Len(p[1]), k \in 1..Len(p[1]) : j < k => p[1][j] < p[1][k]

ASSUME InputsAssumption == \A p \in Inputs : IsInput(p)

VARIABLES
    x, y,       \* the arguments
    i,          \* 1-based index of the key the loop looks at next
    seg,        \* prev_seg
    model,      \* the segments pushed so far
    pc          \* "start", "loop", "done" or "rejected"

vars == << x, y, i, seg, model, pc >>

NoSegment == [start |-> 0, rise |-> 0, run |-> 1, base |-> 0]

Init ==
    /\ \E p \in Inputs : x = p[1] /\ y = p[2]
    /\ i = 3
    /\ seg = NoSegment
    /\ model = << >>
    /\ pc = "start"

\* Fewer than two keys: return -1, the files stay as they are.
Reject ==
    /\ pc = "start"
    /\ Len(x) < 2
    /\ pc' = "rejected"
    /\ UNCHANGED << x, y, i, seg, model >>

Begin ==
    /\ pc = "start"
    /\ Len(x) >= 2
    /\ seg' = Line(x, y, 1, 2)
    /\ pc' = "loop"
    /\ UNCHANGED << x, y, i, model >>

LoopIteration ==
    /\ pc = "loop"
    /\ i < Len(x)
    /\ LET st == Extend([model |-> model, seg |-> seg], x, y, i) IN
        /\ model' = st.model
        /\ seg' = st.seg
    /\ i' = i + 1
    /\ UNCHANGED << x, y, pc >>

\* Mutant of Finish: the loop ends one key early.
FinishOneEarly ==
    /\ pc = "loop"
    /\ i >= Len(x) - 1
    /\ model' = Close([model |-> model, seg |-> seg], x, y)
    /\ pc' = "done"
    /\ UNCHANGED << x, y, i, seg >>

\* Push the last segment, treat the corner case and write both files.
Finish ==
    /\ pc = "loop"
    /\ i >= Len(x)
    /\ model' = Close([model |-> model, seg |-> seg], x, y)
    /\ pc' = "done"
    /\ UNCHANGED << x, y, i, seg >>

\* The function has returned.
Returned == pc \in {"done", "rejected"} /\ UNCHANGED vars

Next == Reject \/ Begin \/ LoopIteration \/ Finish \/ Returned

Spec == Init /\ [][Next]_vars
-----------------------------------------------------------------------------
\* Type invariant of the builder's local state.
TypeOK ==
    /\ IsInput(<< x, y >>)
    /\ i \in Nat
    /\ seg \in Segment
    /\ model \in Seq(Segment)
    /\ pc \in {"start", "loop", "done", "rejected"}

\* The segments built so far, the open one included.
Segments == IF pc = "loop" THEN Append(model, seg) ELSE model

\* The keys with which the builder is through.
Seen == IF pc = "loop" /\ i <= Len(x) THEN 1..(i - 1) ELSE 1..Len(x)

\* Key number k falls to segment c of s: c starts at or below it and the next
\* segment starts above it.
FallsTo(s, k, c) ==
    /\ s[c].start <= x[k]
    /\ c < Len(s) => x[k] < s[c + 1].start

\* Every key the builder is through with lies within ErrBound of the segment
\* it falls to, in the middle of the loop as well as at its end: the greedy
\* cut and the corner case for the last key leave no key uncovered.
ErrorBounded ==
    pc \in {"loop", "done"} =>
        \A c \in 1..Len(Segments), k \in Seen :
            FallsTo(Segments, k, c) => ~Misses(Segments[c], x[k], y[k])

\* The segments start at ascending keys, the first one at the smallest key:
\* what the forward search of query_model needs to stop at the right one.
SegmentsOrdered ==
    pc \in {"loop", "done"} =>
        /\ Len(Segments) > 0
        /\ Segments[1].start = x[1]
        /\ \A c, d \in 1..Len(Segments) :
                c < d => Segments[c].start < Segments[d].start

\* After the build, the search of get for a stored key ends at its record: the
\* position query_model returns is within ErrBound of it, and the one record
\* that the half-open window leaves out is the one at which a search without a
\* hit stops.
LookupLeadsToRecord ==
    pc = "done" =>
        \A k \in 1..Len(x) :
            LET pos == QueryModel(model, x[k]) IN
            y[k] \in Window(pos) \cup {pos + ErrBound}

\* The function BuildModel, which the store's module uses as one step, computes
\* what the loop computes.
LoopComputesBuildModel == pc = "done" => model = BuildModel(x, y)
=============================================================================
