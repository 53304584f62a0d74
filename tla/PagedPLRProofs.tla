--------------------------- MODULE PagedPLRProofs ---------------------------
(***************************************************************************)
(* Proofs about the paged learned index, for every input, page size and    *)
(* error bound: what the builder builds, and what the binary search and    *)
(* the conversion back to a record position make of it.                    *)
(***************************************************************************)
EXTENDS PagedPLR, PiecewiseLinearProofs

LEMMA PagesTyped ==
    ASSUME TypeOK
    PROVE  /\ Len(x) \in Nat /\ Len(y) = Len(x) /\ DOMAIN Pages = 1..Len(x)
           /\ \A j \in 1..Len(x) : y[j] \in Nat /\ Pages[j] \in Nat
           /\ \A j \in 1..Len(x) : Pages[j] = y[j] \div PageSize
           /\ Points(x, Pages)
<1>1. Len(x) \in Nat /\ Len(y) = Len(x) /\ y \in Seq(Nat)
  BY DEF TypeOK, IsInput
<1>2. \A j \in 1..Len(x) : y[j] \in Nat /\ Pages[j] = y[j] \div PageSize
  BY <1>1 DEF Pages
<1>3. \A j \in 1..Len(x) : y[j] \div PageSize \in Nat
  BY <1>2, PageSizeAssumption, Quotient
<1>4. /\ x \in Seq(Nat)
      /\ \A j \in 1..Len(x), k \in 1..Len(x) : j < k => x[j] < x[k]
  BY DEF TypeOK, IsInput
<1>5. Points(x, Pages)
  BY <1>1, <1>2, <1>3, <1>4 DEF Points, Pages
<1> QED BY <1>1, <1>2, <1>3, <1>5 DEF Pages

-----------------------------------------------------------------------------
(***************************************************************************)
(* The inductive invariant: what the builder has built, what its loop      *)
(* knows about the open segment, and what the binary search has ruled out. *)
(***************************************************************************)
\* The open segment goes through two neighbours below the next key.
LoopInv ==
    /\ pc = "start" => i = 3 /\ model = << >>
    /\ pc = "loop" =>
         /\ Len(x) >= 2 /\ i <= Len(x) + 1
         /\ \E s \in 1..(Len(x) - 1) : s + 1 < i /\ seg = Line(x, Pages, s, s + 1)
         /\ Models(Append(model, seg), x, Pages, 1..(i - 1))
    /\ Built => i = Len(x) + 1 /\ Models(model, x, Pages, 1..Len(x))

\* Everything left of left starts at or below the key, everything right of
\* right above it, and segment_idx is the last one left of left.
SearchInv ==
    pc \in {"search", "found"} =>
        /\ left <= right + 1 /\ right + 1 <= Len(model)
        /\ \A c \in 1..left : model[c].start <= key
        /\ \A c \in (right + 2)..Len(model) : key < model[c].start
        /\ segment_idx = IF left = 0 THEN 0 ELSE left - 1
        /\ pc = "found" => left = right + 1

Inv == TypeOK /\ LoopInv /\ SearchInv

LEMMA InitInv == Init => Inv
<1> SUFFICES ASSUME Init PROVE Inv
  OBVIOUS
<1> USE DEF Init
<1>1. TypeOK
  <2>1. IsInput(<< x, y >>)
    BY InputsAssumption DEF IsInput
  <2>2. seg \in Segment
    BY DEF Segment
  <2> QED BY <2>1, <2>2 DEF TypeOK
<1>2. LoopInv /\ SearchInv
  BY DEF LoopInv, SearchInv, Built
<1> QED BY <1>1, <1>2 DEF Inv

\* What the invariant says inside the loop, with the open segment's first key
\* s named.
LEMMA InLoop ==
    ASSUME Inv, pc = "loop"
    PROVE  \E s \in 1..(Len(x) - 1) :
              /\ s + 1 < i /\ seg = Line(x, Pages, s, s + 1)
              /\ s \in 1..Len(x) /\ s + 1 \in 1..Len(x)
              /\ seg \in Segment /\ seg.start = x[s]
<1>1. PICK s \in 1..(Len(x) - 1) : s + 1 < i /\ seg = Line(x, Pages, s, s + 1)
  BY DEF Inv, LoopInv
<1>2. Len(x) \in Nat /\ s \in 1..Len(x) /\ s + 1 \in 1..Len(x) /\ s < s + 1
  BY PagesTyped DEF Inv
<1> QED BY <1>1, <1>2, PagesTyped, LineProperties DEF Inv
-----------------------------------------------------------------------------
(***************************************************************************)
(* The builder's steps.                                                    *)
(***************************************************************************)
LEMMA BeginInv == ASSUME Inv, Begin PROVE Inv'
<1> DEFINE e == Line(x, Pages, 1, 2)
<1>1. /\ pc = "start" /\ pc' = "loop" /\ seg' = e /\ Len(x) >= 2
      /\ x' = x /\ y' = y /\ i' = i /\ model' = model /\ UNCHANGED search
  BY DEF Begin
<1>2. TypeOK /\ i = 3 /\ model = << >>
  BY <1>1 DEF Inv, LoopInv
<1>3. Len(x) \in Nat /\ 1 \in 1..Len(x) /\ 2 \in 1..Len(x) /\ 1 \in 1..(Len(x) - 1)
  BY <1>1, <1>2, PagesTyped
<1>4. e \in Segment /\ Models(Append(<< >>, e), x, Pages, 1..2)
  BY <1>1, <1>2, <1>3, PagesTyped, LineProperties, FirstSegment
<1>5. Pages' = Pages
  BY <1>1 DEF Pages
<1>6. e = Line(x, Pages, 1, 1 + 1)
  OBVIOUS
<1> HIDE DEF e
<1>7. TypeOK'
  <2>1. IsInput(<< x', y' >>)
    BY <1>1, <1>2 DEF TypeOK
  <2> QED BY <1>1, <1>2, <1>4, <2>1 DEF TypeOK, search
<1>8. Models(Append(model, seg), x, Pages, 1..(i - 1))'
  <2>1. Append(model', seg') = Append(<< >>, e) /\ i' - 1 = 2
    BY <1>1, <1>2
  <2> QED BY <1>1, <1>4, <1>5, <2>1
<1>9. \E s \in 1..(Len(x') - 1) : s + 1 < i' /\ seg' = Line(x', Pages', s, s + 1)
  <2>1. 1 \in 1..(Len(x') - 1) /\ 1 + 1 < i' /\ seg' = Line(x', Pages', 1, 1 + 1)
    BY <1>1, <1>2, <1>3, <1>5, <1>6
  <2> QED BY <2>1, Zenon
<1>10. LoopInv'
  <2>1. Len(x') >= 2 /\ i' <= Len(x') + 1
    BY <1>1, <1>2, <1>3
  <2> QED BY <1>1, <1>8, <1>9, <2>1 DEF LoopInv, Built
<1>11. SearchInv'
  BY <1>1 DEF SearchInv
<1> QED BY <1>7, <1>10, <1>11 DEF Inv

LEMMA KeepInv == ASSUME Inv, Keep PROVE Inv'
<1> DEFINE S == Append(model, seg)
<1>1. /\ pc = "loop" /\ pc' = "loop" /\ i <= Len(x) /\ i' = i + 1
      /\ ~Misses(seg, x[i], Pages[i])
      /\ model' = model /\ seg' = seg /\ x' = x /\ y' = y /\ UNCHANGED search
  BY DEF Keep
<1>2. PICK s \in 1..(Len(x) - 1) :
        /\ s + 1 < i /\ seg = Line(x, Pages, s, s + 1) /\ seg.start = x[s]
        /\ s \in 1..Len(x)
  BY <1>1, InLoop
<1>3. TypeOK /\ Len(x) \in Nat /\ i \in 3..Len(x) /\ i \in 1..Len(x) /\ i \in Nat
  BY <1>1, PagesTyped DEF Inv, TypeOK
<1>4. Pages' = Pages
  BY <1>1 DEF Pages
<1>5. TypeOK'
  <2>1. IsInput(<< x', y' >>)
    BY <1>1, <1>3 DEF TypeOK
  <2> QED BY <1>1, <1>3, <2>1 DEF TypeOK, search
<1>6. Models(S, x, Pages, 1..(i - 1))
  BY <1>1 DEF Inv, LoopInv
<1>7. S[Len(S)] = seg
  <2>1. model \in Seq(Segment) /\ seg \in Segment
    BY <1>3 DEF TypeOK
  <2> QED BY <2>1, AppendSegment
<1> HIDE DEF S
<1>8. Models(S, x, Pages, 1..i)
  <2>1. s \in 1..(i - 1) /\ i \in 2..Len(x)
    BY <1>2, <1>3
  <2> QED BY <1>1, <1>2, <1>3, <1>6, <1>7, <2>1, PagesTyped, KeepSegment
<1>9. Models(Append(model, seg), x, Pages, 1..(i - 1))'
  <2>1. Append(model', seg') = S /\ i' - 1 = i
    BY <1>1, <1>3 DEF S
  <2> QED BY <1>1, <1>4, <1>8, <2>1
<1>10. LoopInv'
  <2>1. \E r \in 1..(Len(x') - 1) : r + 1 < i' /\ seg' = Line(x', Pages', r, r + 1)
    <3>1. s \in 1..(Len(x') - 1) /\ s + 1 < i' /\ seg' = Line(x', Pages', s, s + 1)
      BY <1>1, <1>2, <1>3, <1>4
    <3> QED BY <3>1, Zenon
  <2>2. Len(x') >= 2 /\ i' <= Len(x') + 1
    BY <1>1, <1>3
  <2> QED BY <1>1, <1>9, <2>1, <2>2 DEF LoopInv, Built
<1>11. SearchInv'
  BY <1>1 DEF SearchInv
<1> QED BY <1>5, <1>10, <1>11 DEF Inv

LEMMA CutInv == ASSUME Inv, Cut PROVE Inv'
<1> DEFINE S == Append(model, seg)
           e == Line(x, Pages, i - 1, i)
<1>1. /\ pc = "loop" /\ pc' = "loop" /\ i <= Len(x) /\ i' = i + 1
      /\ model' = S /\ seg' = e /\ x' = x /\ y' = y /\ UNCHANGED search
  BY DEF Cut
<1>2. PICK s \in 1..(Len(x) - 1) : s + 1 < i /\ seg.start = x[s] /\ s \in 1..Len(x)
  BY <1>1, InLoop
<1>3. TypeOK /\ Len(x) \in Nat /\ i \in 3..Len(x) /\ i \in Nat
  BY <1>1, PagesTyped DEF Inv, TypeOK
<1>4. i \in 1..Len(x) /\ i - 1 \in 1..Len(x) /\ i - 1 < i /\ i - 1 \in 1..(Len(x) - 1)
  BY <1>3
<1>5. /\ e \in Segment /\ e.start = x[i - 1]
      /\ ~Misses(e, x[i - 1], Pages[i - 1]) /\ ~Misses(e, x[i], Pages[i])
  BY <1>3, <1>4, PagesTyped, LineProperties
<1>6. Pages' = Pages
  BY <1>1 DEF Pages
<1>7. Models(S, x, Pages, 1..(i - 1))
  BY <1>1 DEF Inv, LoopInv
<1>8. Len(S) = Len(model) + 1 /\ Len(model) \in Nat /\ S[Len(S)] = seg
  <2>1. model \in Seq(Segment) /\ seg \in Segment
    BY <1>3 DEF TypeOK
  <2> QED BY <2>1, AppendSegment
<1>9. e = Line(x, Pages, i - 1, (i - 1) + 1)
  BY <1>3
<1> HIDE DEF S, e
<1>10. Models(Append(S, e), x, Pages, 1..i)
  <2>0. Points(x, Pages)
    BY <1>3, PagesTyped
  <2>1. S[Len(S)].start < x[i - 1]
    <3>1. s < i - 1
      BY <1>2, <1>3
    <3> QED BY <1>2, <1>4, <1>8, <2>0, <3>1, KeysAscending
  <2>2. \A k \in (i - 1)..i : ~Misses(e, x[k], Pages[k])
    <3>1. \A k \in (i - 1)..i : k = i - 1 \/ k = i
      BY <1>3
    <3> QED BY <1>5, <3>1
  <2>3. Models(S, x, Pages, 1..((i - 1) - 1))
    <3>1. 1..((i - 1) - 1) \subseteq 1..(i - 1)
      BY <1>3
    <3> QED BY <1>7, <3>1 DEF Models, Covered
  <2> QED BY <1>4, <1>5, <2>0, <2>1, <2>2, <2>3, PushSegment
<1>11. TypeOK'
  <2>1. IsInput(<< x', y' >>)
    BY <1>1, <1>3 DEF TypeOK
  <2>2. i' \in Nat \ {0, 1, 2} /\ seg' \in Segment /\ model' \in Seq(Segment)
    BY <1>1, <1>3, <1>5, <1>7 DEF Models
  <2> QED BY <1>1, <1>3, <2>1, <2>2 DEF TypeOK, search
<1>12. Models(Append(model, seg), x, Pages, 1..(i - 1))'
  <2>1. Append(model', seg') = Append(S, e) /\ i' - 1 = i
    BY <1>1, <1>3
  <2> QED BY <1>1, <1>6, <1>10, <2>1
<1>13. LoopInv'
  <2>1. \E r \in 1..(Len(x') - 1) : r + 1 < i' /\ seg' = Line(x', Pages', r, r + 1)
    <3>1. /\ i - 1 \in 1..(Len(x') - 1) /\ (i - 1) + 1 < i'
          /\ seg' = Line(x', Pages', i - 1, (i - 1) + 1)
      BY <1>1, <1>3, <1>4, <1>6, <1>9
    <3> QED BY <3>1, Zenon
  <2>2. Len(x') >= 2 /\ i' <= Len(x') + 1
    BY <1>1, <1>3
  <2> QED BY <1>1, <1>12, <2>1, <2>2 DEF LoopInv, Built
<1>14. SearchInv'
  BY <1>1 DEF SearchInv
<1> QED BY <1>11, <1>13, <1>14 DEF Inv

LEMMA FinishInv == ASSUME Inv, Finish PROVE Inv'
<1>1. /\ pc = "loop" /\ pc' = "ready" /\ i > Len(x) /\ i' = i
      /\ model' = Append(model, seg) /\ seg' = seg /\ x' = x /\ y' = y
      /\ UNCHANGED search
  BY DEF Finish
<1>2. TypeOK /\ Len(x) \in Nat /\ i = Len(x) + 1 /\ i \in Nat
  <2>1. TypeOK /\ i <= Len(x) + 1
    BY <1>1 DEF Inv, LoopInv
  <2>2. Len(x) \in Nat /\ i \in Nat
    BY <2>1, PagesTyped DEF TypeOK
  <2> QED BY <1>1, <2>1, <2>2
<1>3. Models(Append(model, seg), x, Pages, 1..Len(x))
  <2>1. i - 1 = Len(x)
    BY <1>2
  <2> QED BY <1>1, <2>1 DEF Inv, LoopInv
<1>4. Pages' = Pages
  BY <1>1 DEF Pages
<1>5. TypeOK'
  <2>1. IsInput(<< x', y' >>)
    BY <1>1, <1>2 DEF TypeOK
  <2>2. model' \in Seq(Segment)
    BY <1>1, <1>3 DEF Models
  <2> QED BY <1>1, <1>2, <2>1, <2>2 DEF TypeOK, search
<1>6. Models(model, x, Pages, 1..Len(x))'
  BY <1>1, <1>3, <1>4
<1>7. LoopInv'
  BY <1>1, <1>2, <1>6 DEF LoopInv
<1>8. SearchInv'
  BY <1>1 DEF SearchInv
<1> QED BY <1>5, <1>7, <1>8 DEF Inv
-----------------------------------------------------------------------------
(***************************************************************************)
(* The search's steps.                                                     *)
(***************************************************************************)
\* The search changes nothing that the builder has built.
LEMMA BuildKept ==
    ASSUME Inv, Built, pc' \in {"ready", "search", "found"}, UNCHANGED build
    PROVE  LoopInv' /\ IsInput(<< x', y' >>)
<1>1. x' = x /\ y' = y /\ i' = i /\ seg' = seg /\ model' = model
  BY DEF build
<1>2. Pages' = Pages
  BY <1>1 DEF Pages
<1>3. i = Len(x) + 1 /\ Models(model, x, Pages, 1..Len(x))
  BY DEF Inv, LoopInv
<1>4. Models(model, x, Pages, 1..Len(x))'
  BY <1>1, <1>2, <1>3
<1>5. IsInput(<< x', y' >>)
  BY <1>1 DEF Inv, TypeOK
<1> QED BY <1>1, <1>3, <1>4, <1>5 DEF LoopInv

\* What the invariant says during a search.
LEMMA InSearch ==
    ASSUME Inv, pc \in {"search", "found"}
    PROVE  /\ Built /\ model \in Seq(Segment) /\ Len(model) \in Nat /\ Len(model) > 0
           /\ \A c \in 1..Len(model) : model[c] \in Segment /\ model[c].start \in Nat
           /\ Ordered(model) /\ model[1].start = x[1] /\ Covered(model, x, Pages, 1..Len(x))
           /\ key \in Nat /\ left \in Nat /\ right \in Nat \cup {-1}
<1>1. Built
  BY DEF Built
<1>2. Models(model, x, Pages, 1..Len(x))
  BY <1>1 DEF Inv, LoopInv
<1>3. model \in Seq(Segment) /\ Len(model) > 0
  BY <1>2 DEF Models
<1> QED BY <1>1, <1>2, <1>3, SegmentStarts DEF Models, Inv, TypeOK

LEMMA QueryInv == ASSUME Inv, NEW k \in Queried, Query(k) PROVE Inv'
<1>1. /\ pc = "ready" /\ pc' = "search" /\ key' = k
      /\ left' = 0 /\ right' = Len(model) - 1 /\ segment_idx' = 0 /\ UNCHANGED build
  BY DEF Query
<1>2. Built /\ LoopInv' /\ IsInput(<< x', y' >>)
  <2>1. Built
    BY <1>1 DEF Built
  <2> QED BY <1>1, <2>1, BuildKept
<1>3. Len(model) \in Nat /\ Len(model) > 0
  BY <1>2 DEF Inv, LoopInv, Models
<1>4. TypeOK'
  <2>1. k \in Nat /\ right' \in Nat
    BY <1>1, <1>3, QueriedAssumption
  <2> QED BY <1>1, <1>2, <2>1 DEF Inv, TypeOK, build
<1>5. SearchInv'
  BY <1>1, <1>3 DEF SearchInv, build
<1> QED BY <1>2, <1>4, <1>5 DEF Inv

\* The middle lies between both ends.
LEMMA MidBetween ==
    ASSUME NEW l \in Nat, NEW r \in Nat, l <= r
    PROVE  l + (r - l) \div 2 \in l..r
OBVIOUS

LEMMA MidInside ==
    ASSUME Inv, pc = "search", left <= right
    PROVE  /\ right \in Nat /\ Mid \in left..right /\ Mid \in Nat
           /\ Mid + 1 \in 1..Len(model) /\ right + 1 <= Len(model)
<1>1. left \in Nat /\ right \in Nat \cup {-1} /\ Len(model) \in Nat
  BY InSearch
<1>2. right \in Nat
  BY <1>1
<1>3. Mid \in left..right
  BY <1>1, <1>2, MidBetween DEF Mid
<1>4. right + 1 <= Len(model)
  BY DEF Inv, SearchInv
<1> QED BY <1>1, <1>2, <1>3, <1>4

LEMMA GoLeftInv == ASSUME Inv, GoLeft PROVE Inv'
<1>1. /\ pc = "search" /\ pc' = "search" /\ left <= right
      /\ key < model[Mid + 1].start /\ right' = Mid - 1
      /\ UNCHANGED build /\ key' = key /\ left' = left /\ segment_idx' = segment_idx
      /\ model' = model
  BY DEF GoLeft, build
<1>2. LoopInv' /\ IsInput(<< x', y' >>)
  BY <1>1, BuildKept DEF Built
<1>3. /\ right \in Nat /\ Mid \in left..right /\ Mid \in Nat /\ left \in Nat
      /\ Mid + 1 \in 1..Len(model) /\ right + 1 <= Len(model)
      /\ Len(model) \in Nat /\ key \in Nat /\ Ordered(model)
      /\ \A c \in 1..Len(model) : model[c].start \in Nat
  BY <1>1, MidInside, InSearch
<1>4. TypeOK'
  <2>1. right' \in Nat \cup {-1}
    BY <1>1, <1>3
  <2> QED BY <1>1, <1>2, <2>1 DEF Inv, TypeOK, build
<1>5. \A c \in (right' + 2)..Len(model) : key < model[c].start
  <2> TAKE c \in (right' + 2)..Len(model)
  <2>1. c \in 1..Len(model) /\ Mid + 1 <= c
    BY <1>1, <1>3
  <2>2. model[Mid + 1].start <= model[c].start
    <3>1. CASE c = Mid + 1
      BY <3>1, <2>1, <1>3
    <3>2. CASE Mid + 1 < c
      BY <3>2, <2>1, <1>3 DEF Ordered
    <3> QED BY <3>1, <3>2, <2>1, <1>3
  <2> QED BY <1>1, <1>3, <2>1, <2>2, SMTT(60)
<1>6. left' <= right' + 1 /\ right' + 1 <= Len(model')
  BY <1>1, <1>3
<1>7. SearchInv'
  BY <1>1, <1>5, <1>6 DEF Inv, SearchInv
<1> QED BY <1>2, <1>4, <1>7 DEF Inv

LEMMA GoRightInv == ASSUME Inv, GoRight PROVE Inv'
<1>1. /\ pc = "search" /\ pc' = "search" /\ left <= right
      /\ key >= model[Mid + 1].start /\ left' = Mid + 1 /\ segment_idx' = Mid
      /\ UNCHANGED build /\ key' = key /\ right' = right /\ model' = model
  BY DEF GoRight, build
<1>2. LoopInv' /\ IsInput(<< x', y' >>)
  BY <1>1, BuildKept DEF Built
<1>3. /\ right \in Nat /\ Mid \in left..right /\ Mid \in Nat /\ left \in Nat
      /\ Mid + 1 \in 1..Len(model) /\ right + 1 <= Len(model)
      /\ Len(model) \in Nat /\ key \in Nat /\ Ordered(model)
      /\ \A c \in 1..Len(model) : model[c].start \in Nat
  BY <1>1, MidInside, InSearch
<1>4. TypeOK'
  <2>1. left' \in Nat /\ segment_idx' \in Nat
    BY <1>1, <1>3
  <2> QED BY <1>1, <1>2, <2>1 DEF Inv, TypeOK, build
<1>5. \A c \in 1..left' : model[c].start <= key
  <2> TAKE c \in 1..left'
  <2>1. c \in 1..Len(model) /\ c <= Mid + 1
    BY <1>1, <1>3
  <2>2. model[c].start <= model[Mid + 1].start
    <3>1. CASE c = Mid + 1
      BY <3>1, <2>1, <1>3
    <3>2. CASE c < Mid + 1
      BY <3>2, <2>1, <1>3 DEF Ordered
    <3> QED BY <3>1, <3>2, <2>1, <1>3
  <2> QED BY <1>1, <1>3, <2>1, <2>2
<1>6. /\ left' <= right' + 1 /\ right' + 1 <= Len(model')
      /\ segment_idx' = IF left' = 0 THEN 0 ELSE left' - 1
  BY <1>1, <1>3
<1>7. SearchInv'
  BY <1>1, <1>5, <1>6 DEF Inv, SearchInv
<1> QED BY <1>2, <1>4, <1>7 DEF Inv

LEMMA SearchEndsInv == ASSUME Inv, SearchEnds PROVE Inv'
<1>1. /\ pc = "search" /\ pc' = "found" /\ left > right
      /\ UNCHANGED build /\ model' = model
      /\ key' = key /\ left' = left /\ right' = right /\ segment_idx' = segment_idx
  BY DEF SearchEnds, build, search
<1>2. LoopInv' /\ IsInput(<< x', y' >>)
  BY <1>1, BuildKept DEF Built
<1>3. TypeOK'
  BY <1>1, <1>2 DEF Inv, TypeOK, build
<1>4. left' = right' + 1
  <2>1. left \in Nat /\ right \in Nat \cup {-1} /\ left <= right + 1
    BY <1>1, InSearch DEF Inv, SearchInv
  <2> QED BY <1>1, <2>1
<1>5. SearchInv'
  BY <1>1, <1>4 DEF Inv, SearchInv
<1> QED BY <1>2, <1>3, <1>5 DEF Inv

LEMMA ReturnInv == ASSUME Inv, Return PROVE Inv'
<1>1. /\ pc = "found" /\ pc' = "ready" /\ UNCHANGED build
      /\ key' = 0 /\ left' = 0 /\ right' = 0 /\ segment_idx' = 0
  BY DEF Return
<1>2. LoopInv' /\ IsInput(<< x', y' >>)
  BY <1>1, BuildKept DEF Built
<1>3. TypeOK'
  BY <1>1, <1>2 DEF Inv, TypeOK, build
<1> QED BY <1>1, <1>2, <1>3 DEF Inv, SearchInv

LEMMA RejectInv == ASSUME Inv, Reject \/ FinishFails PROVE Inv'
<1>1. TypeOK'
  <2>1. IsInput(<< x', y' >>)
    BY DEF Reject, FinishFails, build, Inv, TypeOK
  <2> QED BY <2>1 DEF Reject, FinishFails, build, search, Inv, TypeOK
<1> QED BY <1>1 DEF Reject, FinishFails, Inv, LoopInv, SearchInv, Built

LEMMA StutterInv == ASSUME Inv, UNCHANGED vars PROVE Inv'
<1>1. /\ x' = x /\ y' = y /\ i' = i /\ seg' = seg /\ model' = model /\ pc' = pc
      /\ key' = key /\ left' = left /\ right' = right /\ segment_idx' = segment_idx
  BY DEF vars, build, search
<1>2. Pages' = Pages
  BY <1>1 DEF Pages
<1>3. TypeOK'
  BY <1>1, Zenon DEF Inv, TypeOK
<1>4. LoopInv'
  BY <1>1, <1>2, ZenonT(60) DEF Inv, LoopInv, Built
<1>5. SearchInv'
  BY <1>1, Zenon DEF Inv, SearchInv
<1> QED BY <1>3, <1>4, <1>5 DEF Inv

LEMMA NextInv == Inv /\ [Next]_vars => Inv'
<1> SUFFICES ASSUME Inv, [Next]_vars PROVE Inv'
  OBVIOUS
<1> QED BY BeginInv, KeepInv, CutInv, FinishInv, QueryInv, GoLeftInv, GoRightInv,
           SearchEndsInv, ReturnInv, RejectInv, StutterInv DEF Next, SearchStep
-----------------------------------------------------------------------------
(***************************************************************************)
(* Theorems.                                                               *)
(***************************************************************************)
\* Type correctness of the builder and of the search: no segment has a zero
\* run, and the ends of the binary search stay int.
THEOREM TypeCorrect == Spec => []TypeOK
<1>1. Inv => TypeOK
  BY DEF Inv
<1> QED BY <1>1, InitInv, NextInv, PTL DEF Spec

\* The segments the builder has, in the terms of the invariant.
LEMMA SegmentsGood ==
    ASSUME Inv, pc = "loop" \/ Built
    PROVE  Models(Segments, x, Pages, 1..(i - 1))
<1>1. CASE pc = "loop"
  BY <1>1 DEF Inv, LoopInv, Segments
<1>2. CASE pc # "loop" /\ Built
  <2>1. Len(x) \in Nat /\ i = Len(x) + 1
    BY <1>2, PagesTyped DEF Inv, LoopInv
  <2>2. i - 1 = Len(x) /\ Segments = model
    BY <1>2, <2>1 DEF Segments
  <2> QED BY <1>2, <2>2 DEF Inv, LoopInv
<1> QED BY <1>1, <1>2

\* The error bound of the paged index: at every iteration of the builder and
\* ever after, every key it is through with is predicted within ErrBound pages.
THEOREM PageErrorBound == Spec => []PageErrorBounded
<1>1. Inv => PageErrorBounded
  <2> SUFFICES ASSUME Inv, pc = "loop" \/ Built,
                      NEW c \in DOMAIN Segments, NEW k \in 1..(i - 1),
                      FallsTo(x[k], c)
               PROVE  ~Misses(Segments[c], x[k], Pages[k])
    BY DEF PageErrorBounded
  <2>1. Models(Segments, x, Pages, 1..(i - 1))
    BY SegmentsGood
  <2>2. c \in 1..Len(Segments)
    BY <2>1 DEF Models
  <2>3. Fall(Segments, x, k, c)
    BY DEF Fall, FallsTo
  <2> QED BY <2>1, <2>2, <2>3 DEF Models, Covered
<1> QED BY <1>1, InitInv, NextInv, PTL DEF Spec

\* The segments are in the order the binary search relies on.
THEOREM Order == Spec => []SegmentsOrdered
<1>1. Inv => SegmentsOrdered
  <2> SUFFICES ASSUME Inv, pc = "loop" \/ Built
               PROVE  /\ Segments # << >>
                      /\ Segments[1].start = x[1]
                      /\ \A c, d \in DOMAIN Segments :
                           c < d => Segments[c].start < Segments[d].start
    BY DEF SegmentsOrdered
  <2>1. Models(Segments, x, Pages, 1..(i - 1))
    BY SegmentsGood
  <2>2. DOMAIN Segments = 1..Len(Segments) /\ Len(Segments) > 0
    BY <2>1 DEF Models
  <2>3. Segments # << >>
    BY <2>2
  <2> QED BY <2>1, <2>2, <2>3 DEF Models, Ordered
<1> QED BY <1>1, InitInv, NextInv, PTL DEF Spec

LEMMA Found ==
    ASSUME Inv, pc = "found"
    PROVE  SearchFindsSegment
<1>1. /\ Len(model) \in Nat /\ Len(model) > 0 /\ model \in Seq(Segment)
      /\ left \in Nat /\ right \in Nat \cup {-1}
      /\ \A c \in 1..Len(model) : model[c].start \in Nat
  BY InSearch
<1>2. /\ left = right + 1 /\ left <= Len(model)
      /\ \A c \in 1..left : model[c].start <= key
      /\ \A c \in (right + 2)..Len(model) : key < model[c].start
      /\ segment_idx = IF left = 0 THEN 0 ELSE left - 1
  BY DEF Inv, SearchInv
<1>3. Segments = model
  BY DEF Segments
<1>4. CASE left = 0
  <2>1. 1 \in (right + 2)..Len(model)
    BY <1>1, <1>2, <1>4
  <2> QED BY <1>2, <1>4, <2>1 DEF SearchFindsSegment
<1>5. CASE left > 0
  <2>1. segment_idx + 1 = left /\ left \in 1..left /\ left \in DOMAIN model
    BY <1>1, <1>2, <1>5
  <2>2. left < Len(model) => left + 1 \in (right + 2)..Len(model)
    BY <1>1, <1>2
  <2>3. FallsTo(key, left)
    BY <1>2, <1>3, <2>1, <2>2 DEF FallsTo
  <2> QED BY <2>1, <2>3 DEF SearchFindsSegment
<1> QED BY <1>1, <1>4, <1>5

\* The binary search of query_model ends at the segment the key falls to.
THEOREM SearchCorrect == Spec => []SearchFindsSegment
<1>1. Inv => SearchFindsSegment
  BY Found DEF SearchFindsSegment
<1> QED BY <1>1, InitInv, NextInv, PTL DEF Spec

\* Dropping the middle and one side of it leaves at most half of the segments.
LEMMA Halved ==
    ASSUME NEW l \in Nat, NEW r \in Nat, l <= r, NEW m, m = l + (r - l) \div 2
    PROVE  /\ 2 * ((m - 1) - l + 1) <= r - l + 1
           /\ 2 * (r - (m + 1) + 1) <= r - l + 1
OBVIOUS

\* Every step of a search ends it with nothing left to search, or leaves at most
\* half of the segments that were left, of the same model and for the same key:
\* query_model compares at most once for each binary digit of the number of
\* segments.  Together with the fairness of the calling thread this is why
\* SearchTerminates holds.
THEOREM SearchHalves ==
    Spec => [][pc = "search" =>
                 \/ pc' = "found" /\ left > right /\ UNCHANGED search
                 \/ /\ pc' = "search" /\ UNCHANGED << model, key >>
                    /\ right' - left' + 1 \in Nat
                    /\ 2 * (right' - left' + 1) <= right - left + 1]_vars
<1> DEFINE Halves == pc = "search" =>
                       \/ pc' = "found" /\ left > right /\ UNCHANGED search
                       \/ /\ pc' = "search" /\ UNCHANGED << model, key >>
                          /\ right' - left' + 1 \in Nat
                          /\ 2 * (right' - left' + 1) <= right - left + 1
<1>1. Inv /\ [Next]_vars => [Halves]_vars
  <2> SUFFICES ASSUME Inv, Next, pc = "search" PROVE Halves
    OBVIOUS
  <2>1. CASE SearchEnds
    BY <2>1 DEF SearchEnds
  <2>2. CASE GoLeft \/ GoRight
    <3>1. /\ left <= right /\ pc' = "search" /\ UNCHANGED << model, key >>
          /\ (right' = Mid - 1 /\ left' = left) \/ (right' = right /\ left' = Mid + 1)
      BY <2>2 DEF GoLeft, GoRight, build
    <3>2. left \in Nat /\ right \in Nat /\ Mid \in left..right
      BY <3>1, InSearch, MidInside
    <3>3. /\ 2 * ((Mid - 1) - left + 1) <= right - left + 1
          /\ 2 * (right - (Mid + 1) + 1) <= right - left + 1
      BY <3>1, <3>2, Halved DEF Mid
    <3> HIDE DEF Mid
    <3>4. right' - left' + 1 \in Nat
      BY <3>1, <3>2
    <3> QED BY <3>1, <3>3, <3>4
  <2> QED BY <2>1, <2>2 DEF Next, SearchStep, Reject, Begin, Keep, Cut, Finish,
            FinishFails, Query, Return
<1> QED BY <1>1, InitInv, NextInv, PTL DEF Spec

\* From a bound in pages to one in records: P is the predicted page times r.
LEMMA PageToRecord ==
    ASSUME NEW P \in Int, NEW r \in Nat \ {0}, NEW pos \in Nat, NEW t,
           P - (pos \div PageSize) * r <= ErrBound * r,
           (pos \div PageSize) * r - P <= ErrBound * r,
           pos + (ErrBound + 1) * PageSize <= MaxInt,
           t = IF P * PageSize + (PageSize \div 2) * r < 0
                  \/ P * PageSize + (PageSize \div 2) * r >= (MaxInt + 1) * r
               THEN 0 ELSE (P * PageSize + (PageSize \div 2) * r) \div r
    PROVE  /\ t - pos <= ErrBound * PageSize + PageSize \div 2
           /\ pos - t <= ErrBound * PageSize + PageSize \div 2
<1> DEFINE p == pos \div PageSize
           h == PageSize \div 2
           B == ErrBound * PageSize
           v == P * PageSize + h * r
<1>1. /\ PageSize \in Nat \ {0} /\ ErrBound \in Nat /\ MaxInt \in Nat
      /\ p \in Nat /\ p * PageSize <= pos /\ pos < (p + 1) * PageSize
  BY PageSizeAssumption, ErrBoundAssumption, MaxIntAssumption, Quotient
<1>2. h \in Nat /\ h <= PageSize /\ PageSize <= 2 * h + 1
  BY <1>1
<1>3. P <= (p + ErrBound) * r /\ (p - ErrBound) * r <= P
  <2>1. (p + ErrBound) * r = p * r + ErrBound * r /\ (p - ErrBound) * r = p * r - ErrBound * r
    BY <1>1
  <2>2. p * r \in Int /\ ErrBound * r \in Int
    BY <1>1
  <2> HIDE DEF p
  <2>3. P - p * r <= ErrBound * r /\ p * r - P <= ErrBound * r
    BY DEF p
  <2> QED BY <2>1, <2>2, <2>3
<1>4. t = IF v < 0 \/ v >= (MaxInt + 1) * r THEN 0 ELSE v \div r
  OBVIOUS
<1> HIDE DEF p, h
<1>5. p * PageSize \in Nat /\ B \in Nat /\ p * PageSize + h \in Nat
      /\ P * PageSize \in Int /\ h * r \in Int /\ v \in Int
  BY <1>1, <1>2
<1>6. P * PageSize <= ((p + ErrBound) * r) * PageSize
  <2>1. (p + ErrBound) * r - P \in Nat
    BY <1>1, <1>3
  <2>2. ((p + ErrBound) * r - P) * PageSize >= 0
    BY <1>1, <2>1
  <2>3. ((p + ErrBound) * r - P) * PageSize = ((p + ErrBound) * r) * PageSize - P * PageSize
    BY <1>1
  <2>4. ((p + ErrBound) * r) * PageSize \in Int
    BY <1>1
  <2> QED BY <1>5, <2>2, <2>3, <2>4
<1>7. ((p - ErrBound) * r) * PageSize <= P * PageSize
  <2>1. P - (p - ErrBound) * r \in Nat
    BY <1>1, <1>3
  <2>2. (P - (p - ErrBound) * r) * PageSize >= 0
    BY <1>1, <2>1
  <2>3. (P - (p - ErrBound) * r) * PageSize = P * PageSize - ((p - ErrBound) * r) * PageSize
    BY <1>1
  <2>4. ((p - ErrBound) * r) * PageSize \in Int
    BY <1>1
  <2> QED BY <1>5, <2>2, <2>3, <2>4
<1>8. ((p * PageSize + h) + B) * r = ((p + ErrBound) * r) * PageSize + h * r
  BY <1>1, <1>2
<1>9. ((p * PageSize + h) - B) * r = ((p - ErrBound) * r) * PageSize + h * r
  BY <1>1, <1>2
<1>10. v <= ((p * PageSize + h) + B) * r /\ ((p * PageSize + h) - B) * r <= v
  <2>1. ((p + ErrBound) * r) * PageSize \in Int /\ ((p - ErrBound) * r) * PageSize \in Int
    BY <1>1
  <2> QED BY <1>5, <1>6, <1>7, <1>8, <1>9, <2>1
<1>11. (p * PageSize + h) + B <= MaxInt
  <2>1. (ErrBound + 1) * PageSize = B + PageSize
    BY <1>1
  <2> HIDE DEF B
  <2> QED BY <1>1, <1>2, <1>5, <2>1
<1> HIDE DEF v, B
<1>12. /\ t \in Nat /\ (p * PageSize + h) - B <= t /\ t <= (p * PageSize + h) + B
  BY <1>1, <1>4, <1>5, <1>10, <1>11, TruncatedQuotient
<1>13. (p + 1) * PageSize = p * PageSize + PageSize
  BY <1>1
<1>14. t - pos <= B + h /\ pos - t <= B + h
  BY <1>1, <1>2, <1>5, <1>12, <1>13
<1> QED BY <1>14 DEF B, h

\* query_model returns a position within ErrBound pages and a half of the
\* record: what a lookup over the paged index would have to search.
THEOREM EstimateBound == Spec => []EstimateWithinPages
<1>1. Inv => EstimateWithinPages
  <2> SUFFICES ASSUME Inv, pc = "found", NEW k \in DOMAIN x, x[k] = key
               PROVE  /\ Estimate - y[k] <= ErrBound * PageSize + PageSize \div 2
                      /\ y[k] - Estimate <= ErrBound * PageSize + PageSize \div 2
    BY DEF EstimateWithinPages
  <2> DEFINE c == segment_idx + 1
             s == model[c]
  <2>1. /\ Built /\ Len(model) > 0 /\ model \in Seq(Segment) /\ Segments = model
        /\ model[1].start = x[1] /\ Covered(model, x, Pages, 1..Len(x)) /\ TypeOK
        /\ \A d \in 1..Len(model) : model[d] \in Segment
    BY InSearch DEF Segments, Inv
  <2>2. k \in 1..Len(x) /\ 1 \in 1..Len(x) /\ Len(x) \in Nat
    <3>1. x \in Seq(Nat)
      BY <2>1 DEF TypeOK, IsInput
    <3> QED BY <3>1
  <2>3. ~(key < model[1].start)
    <3>1. x[1] \in Nat /\ x[k] \in Nat /\ (1 < k => x[1] < x[k])
      BY <2>1, <2>2, PagesTyped, KeysAscending
    <3> QED BY <2>1, <2>2, <3>1
  <2>4. c \in DOMAIN model /\ FallsTo(key, c)
    BY <2>3, Found DEF SearchFindsSegment
  <2>5. c \in 1..Len(model) /\ Fall(model, x, k, c)
    BY <2>1, <2>4 DEF FallsTo, Fall
  <2>6. s \in Segment /\ ~Misses(s, key, Pages[k])
    BY <2>1, <2>2, <2>5 DEF Covered
  <2> HIDE DEF c, s
  <2>7. /\ y[k] \in Nat /\ Pages[k] = y[k] \div PageSize /\ Pages[k] \in Nat
        /\ y[k] + (ErrBound + 1) * PageSize <= MaxInt /\ key \in Nat
    <3>1. y[k] + (ErrBound + 1) * PageSize <= MaxInt /\ key \in Nat
      BY <2>1, <2>2 DEF TypeOK, IsInput
    <3> QED BY <2>1, <2>2, <3>1, PagesTyped
  <2>8. s.run \in Nat \ {0} /\ Scaled(s, key) \in Int /\ ErrBound \in Nat
    BY <2>6, <2>7, ErrBoundAssumption DEF Segment, Scaled
  <2>9. /\ Scaled(s, key) - Pages[k] * s.run <= ErrBound * s.run
        /\ Pages[k] * s.run - Scaled(s, key) <= ErrBound * s.run
    <3>1. Pages[k] * s.run \in Int /\ ErrBound * s.run \in Int
      BY <2>7, <2>8
    <3> QED BY <2>6, <2>8, <3>1 DEF Misses
  <2>10. Estimate =
           IF Scaled(s, key) * PageSize + (PageSize \div 2) * s.run < 0
              \/ Scaled(s, key) * PageSize + (PageSize \div 2) * s.run >= (MaxInt + 1) * s.run
           THEN 0 ELSE (Scaled(s, key) * PageSize + (PageSize \div 2) * s.run) \div s.run
    BY DEF Estimate, s, c
  <2>11. /\ Scaled(s, key) - (y[k] \div PageSize) * s.run <= ErrBound * s.run
         /\ (y[k] \div PageSize) * s.run - Scaled(s, key) <= ErrBound * s.run
    BY <2>7, <2>9
  <2> QED BY <2>7, <2>8, <2>10, <2>11, PageToRecord
<1> QED BY <1>1, InitInv, NextInv, PTL DEF Spec
=============================================================================
