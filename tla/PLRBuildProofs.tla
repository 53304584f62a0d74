--------------------------- MODULE PLRBuildProofs ---------------------------
(***************************************************************************)
(* Proofs about the builder of the learned index, for every input and      *)
(* every error bound.  The loop computes the states of BuildLoop one by    *)
(* one; what they are like is shown in PiecewiseLinearProofs.              *)
(***************************************************************************)
EXTENDS PLRBuild, PiecewiseLinearProofs

State == [model |-> model, seg |-> seg]

\* The inductive invariant: the loop is where BuildLoop is.
Inv ==
    /\ TypeOK
    /\ pc = "start" => i = 3 /\ model = << >>
    /\ pc = "loop" =>
         /\ Len(x) >= 2 /\ i >= 3
         /\ i <= Len(x) \/ (Len(x) = 2 /\ i = 3)
         /\ State = BuildLoop(x, y)[i - 1]
    /\ pc = "done" => Len(x) >= 2 /\ model = BuildModel(x, y)

LEMMA InputPoints ==
    ASSUME TypeOK
    PROVE  /\ Points(x, y) /\ Len(x) \in Nat /\ i \in Nat
           /\ \A k \in 1..Len(x) : y[k] + ErrBound <= MaxInt
<1>1. x \in Seq(Nat) /\ y \in Seq(Nat) /\ Len(x) = Len(y) /\ Len(x) \in Nat
  BY DEF TypeOK, IsInput
<1>2. \A k \in 1..Len(x) : y[k] \in Nat
  BY <1>1
<1> QED BY <1>1, <1>2 DEF TypeOK, IsInput, Points

LEMMA InitInv == Init => Inv
<1> SUFFICES ASSUME Init PROVE Inv
  OBVIOUS
<1> USE DEF Init
<1>1. IsInput(<< x, y >>)
  BY InputsAssumption DEF IsInput
<1>2. seg \in Segment
  BY DEF NoSegment, Segment
<1> QED BY <1>1, <1>2 DEF Inv, TypeOK

LEMMA BeginInv == ASSUME Inv, Begin PROVE Inv'
<1>1. /\ pc = "start" /\ Len(x) >= 2 /\ seg' = Line(x, y, 1, 2) /\ pc' = "loop"
      /\ x' = x /\ y' = y /\ i' = i /\ model' = model /\ i = 3 /\ model = << >>
  BY DEF Begin, Inv
<1>2. TypeOK /\ Points(x, y) /\ Len(x) \in Nat
  BY InputPoints DEF Inv
<1>3. Line(x, y, 1, 2) \in Segment
  <2>1. 1 \in 1..Len(x) /\ 2 \in 1..Len(x)
    BY <1>1, <1>2
  <2> QED BY <1>2, <2>1, LineProperties
<1>4. TypeOK'
  <2>1. IsInput(<< x', y' >>)
    BY <1>1, <1>2 DEF TypeOK
  <2> QED BY <1>1, <1>2, <1>3, <2>1 DEF TypeOK
<1>5. State' = BuildLoop(x', y')[i' - 1]
  <2>1. BuildLoop(x, y)[2] = [model |-> << >>, seg |-> Line(x, y, 1, 2)]
    BY <1>1, <1>2, LoopSteps
  <2>2. i' - 1 = 2 /\ State' = [model |-> << >>, seg |-> Line(x, y, 1, 2)]
    BY <1>1 DEF State
  <2> QED BY <1>1, <2>1, <2>2
<1>6. Len(x) = 2 \/ 3 <= Len(x)
  BY <1>1, <1>2, TwoOrMore
<1> QED BY <1>1, <1>2, <1>4, <1>5, <1>6 DEF Inv

\* A state of BuildLoop has the types of the builder's variables.
LEMMA StateType ==
    ASSUME NEW xs, NEW ys, Points(xs, ys), NEW st, NEW n \in Nat, LoopState(st, xs, ys, n)
    PROVE  st.model \in Seq(Segment) /\ st.seg \in Segment
BY OpenSegment DEF LoopState

LEMMA LoopIterationInv == ASSUME Inv, LoopIteration PROVE Inv'
<1> DEFINE st == Extend(State, x, y, i)
<1>1. /\ pc = "loop" /\ i < Len(x) /\ model' = st.model /\ seg' = st.seg /\ i' = i + 1
      /\ x' = x /\ y' = y /\ pc' = pc /\ Len(x) >= 2 /\ i >= 3
      /\ State = BuildLoop(x, y)[i - 1]
  BY DEF LoopIteration, State, Inv
<1>2. TypeOK /\ Points(x, y) /\ Len(x) \in Nat /\ i \in Nat
  BY InputPoints DEF Inv
<1>3. /\ i \in 3..(Len(x) - 1) /\ i \in 3..Len(x) /\ i \in 2..Len(x) /\ i <= Len(x) - 1
      /\ i' - 1 = i /\ i' \in Nat /\ i' >= 3 /\ i' <= Len(x)
  BY <1>1, <1>2
<1>4. st = BuildLoop(x, y)[i]
  BY <1>1, <1>2, <1>3, LoopSteps
<1>5. LoopState(st, x, y, i)
  BY <1>1, <1>2, <1>3, <1>4, LoopStates
<1>6. st = [model |-> st.model, seg |-> st.seg]
  <2>1. State.model = model /\ State.seg = seg /\ State = [model |-> State.model, seg |-> State.seg]
    BY DEF State
  <2>2. CASE Misses(State.seg, x[i], y[i])
    BY <2>2 DEF Extend
  <2>3. CASE ~Misses(State.seg, x[i], y[i])
    BY <2>1, <2>3 DEF Extend
  <2> QED BY <2>2, <2>3
<1> HIDE DEF st
<1>7. st.model \in Seq(Segment) /\ st.seg \in Segment
  BY <1>2, <1>5, StateType
<1>8. TypeOK'
  <2>1. IsInput(<< x', y' >>)
    BY <1>1, <1>2 DEF TypeOK
  <2> QED BY <1>1, <1>2, <1>3, <1>7, <2>1 DEF TypeOK
<1>9. State' = BuildLoop(x', y')[i' - 1]
  <2>1. State' = st
    BY <1>1, <1>6 DEF State
  <2> QED BY <1>1, <1>3, <1>4, <2>1
<1> QED BY <1>1, <1>3, <1>8, <1>9 DEF Inv

LEMMA FinishInv == ASSUME Inv, Finish PROVE Inv'
<1> DEFINE last == IF Len(x) = 2 THEN 2 ELSE Len(x) - 1
<1>1. /\ pc = "loop" /\ i >= Len(x) /\ model' = Close(State, x, y) /\ pc' = "done"
      /\ x' = x /\ y' = y /\ i' = i /\ seg' = seg /\ Len(x) >= 2 /\ i >= 3
      /\ i <= Len(x) \/ (Len(x) = 2 /\ i = 3)
      /\ State = BuildLoop(x, y)[i - 1]
  BY DEF Finish, State, Inv
<1>2. TypeOK /\ Points(x, y) /\ Len(x) \in Nat /\ i \in Nat
  BY InputPoints DEF Inv
<1>3. i - 1 = last
  <2>1. ASSUME NEW n \in Nat, NEW j \in Nat, n >= 2, j >= n, j >= 3, j <= n \/ (n = 2 /\ j = 3)
        PROVE  j - 1 = IF n = 2 THEN 2 ELSE n - 1
    BY <2>1
  <2> QED BY <1>1, <1>2, <2>1
<1>4. model' = BuildModel(x, y)
  BY <1>1, <1>3 DEF BuildModel
<1>5. BuildModel(x, y) \in Seq(Segment)
  BY <1>1, <1>2, BuildModelModels DEF Models
<1>6. TypeOK'
  <2>1. IsInput(<< x', y' >>)
    BY <1>1, <1>2 DEF TypeOK
  <2> QED BY <1>1, <1>2, <1>4, <1>5, <2>1 DEF TypeOK
<1> QED BY <1>1, <1>4, <1>6 DEF Inv

LEMMA NextInv == Inv /\ [Next]_vars => Inv'
<1> SUFFICES ASSUME Inv, [Next]_vars PROVE Inv'
  OBVIOUS
<1>1. CASE Reject
  <2>1. IsInput(<< x', y' >>)
    BY <1>1 DEF Reject, Inv, TypeOK
  <2> QED BY <1>1, <2>1 DEF Reject, Inv, TypeOK
<1>2. CASE UNCHANGED vars
  <2>1. IsInput(<< x', y' >>)
    BY <1>2 DEF vars, Inv, TypeOK
  <2> QED BY <1>2, <2>1 DEF vars, Inv, TypeOK, State
<1> QED BY <1>1, <1>2, BeginInv, LoopIterationInv, FinishInv DEF Next, Returned

\* Type correctness of the builder's state (build_piecewise_linear_regression):
\* in particular no segment ever has a zero or negative run, so no division by
\* zero in the slope.
THEOREM TypeCorrect == Spec => []TypeOK
<1>1. Inv => TypeOK
  BY DEF Inv
<1> QED BY <1>1, InitInv, NextInv, PTL DEF Spec

\* The loop of build_piecewise_linear_regression computes the function that the
\* store's module takes as one step of garbage collection.
THEOREM LoopCorrect == Spec => []LoopComputesBuildModel
<1>1. Inv => LoopComputesBuildModel
  BY DEF Inv, LoopComputesBuildModel
<1> QED BY <1>1, InitInv, NextInv, PTL DEF Spec

\* The segments built so far are a model of the keys the builder is through with.
LEMMA SegmentsModel ==
    ASSUME Inv, pc \in {"loop", "done"}
    PROVE  Points(x, y) /\ Models(Segments, x, y, Seen)
<1>1. TypeOK /\ Points(x, y) /\ Len(x) \in Nat /\ i \in Nat
  BY InputPoints DEF Inv
<1>2. CASE pc = "loop"
  <2>1. /\ Len(x) >= 2 /\ i >= 3 /\ State = BuildLoop(x, y)[i - 1]
        /\ i <= Len(x) \/ (Len(x) = 2 /\ i = 3)
    BY <1>2 DEF Inv
  <2>2. i - 1 \in 2..Len(x) /\ (i - 1 = 2 \/ i - 1 <= Len(x) - 1)
    BY <1>1, <2>1
  <2>3. LoopState(State, x, y, i - 1)
    BY <1>1, <2>1, <2>2, LoopStates
  <2>4. State.model = model /\ State.seg = seg
    BY DEF State
  <2>5. Segments = Append(model, seg) /\ Seen = 1..(i - 1)
    BY <1>1, <1>2, <2>1 DEF Segments, Seen
  <2> QED BY <1>1, <2>3, <2>4, <2>5 DEF LoopState
<1>3. CASE pc = "done"
  <2>1. Segments = BuildModel(x, y) /\ Seen = 1..Len(x) /\ Len(x) >= 2
    BY <1>3 DEF Inv, Segments, Seen
  <2> QED BY <1>1, <2>1, BuildModelModels
<1> QED BY <1>2, <1>3

\* The learned index's error bound: at every iteration and at the end, every
\* key the builder is through with is predicted within ErrBound records.
THEOREM ErrorBound == Spec => []ErrorBounded
<1>1. Inv => ErrorBounded
  <2> SUFFICES ASSUME Inv, pc \in {"loop", "done"},
                      NEW c \in 1..Len(Segments), NEW k \in Seen, FallsTo(Segments, k, c)
               PROVE  ~Misses(Segments[c], x[k], y[k])
    BY DEF ErrorBounded
  <2>1. Covered(Segments, x, y, Seen)
    BY SegmentsModel DEF Models
  <2>2. Fall(Segments, x, k, c)
    BY DEF Fall, FallsTo
  <2> QED BY <2>1, <2>2 DEF Covered
<1> QED BY <1>1, InitInv, NextInv, PTL DEF Spec

\* The segments are in the order query_model's forward search relies on.
THEOREM Order == Spec => []SegmentsOrdered
<1>1. Inv => SegmentsOrdered
  BY SegmentsModel DEF SegmentsOrdered, Models, Ordered
<1> QED BY <1>1, InitInv, NextInv, PTL DEF Spec

\* What get can rely on: its search for a stored key ends at the key's record.
THEOREM LookupWindow == Spec => []LookupLeadsToRecord
<1>1. Inv => LookupLeadsToRecord
  <2> SUFFICES ASSUME Inv, pc = "done", NEW k \in 1..Len(x)
               PROVE  y[k] \in Window(QueryModel(model, x[k]))
                                 \cup {QueryModel(model, x[k]) + ErrBound}
    BY DEF LookupLeadsToRecord
  <2>1. Points(x, y) /\ Models(model, x, y, 1..Len(x))
    BY SegmentsModel DEF Segments, Seen
  <2>2. y[k] + ErrBound <= MaxInt
    BY InputPoints DEF Inv
  <2> QED BY <2>1, <2>2, LookupInModel
<1> QED BY <1>1, InitInv, NextInv, PTL DEF Spec
=============================================================================
