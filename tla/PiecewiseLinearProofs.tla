----------------------- MODULE PiecewiseLinearProofs -----------------------
(***************************************************************************)
(* Facts about segments and about the models built of them, for the step   *)
(* by step builders and for the function BuildModel: a model built over    *)
(* ascending keys predicts each of them within the error bound.            *)
(***************************************************************************)
EXTENDS PiecewiseLinear, NumberLemmas, TLAPS

\* Ascending keys and a position for each
Points(xs, ys) ==
    /\ xs \in Seq(Nat)
    /\ \A j \in 1..Len(xs) : ys[j] \in Nat
    /\ \A j \in 1..Len(xs), k \in 1..Len(xs) : j < k => xs[j] < xs[k]

\* Key number k falls to segment c of S.
Fall(S, xs, k, c) ==
    /\ S[c].start <= xs[k]
    /\ c < Len(S) => xs[k] < S[c + 1].start

Ordered(S) == \A c, d \in 1..Len(S) : c < d => S[c].start < S[d].start

Covered(S, xs, ys, K) ==
    \A c \in 1..Len(S), k \in K : Fall(S, xs, k, c) => ~Misses(S[c], xs[k], ys[k])

\* S is a model of the keys in K.
Models(S, xs, ys, K) ==
    /\ S \in Seq(Segment) /\ Len(S) > 0 /\ S[1].start = xs[1]
    /\ Ordered(S) /\ Covered(S, xs, ys, K)

\* A key number is determined by the order of the keys.
LEMMA KeysAscending ==
    ASSUME NEW xs, NEW ys, Points(xs, ys), NEW j \in 1..Len(xs), NEW k \in 1..Len(xs)
    PROVE  /\ xs[j] \in Nat /\ Len(xs) \in Nat
           /\ xs[j] < xs[k] => j < k
           /\ xs[j] <= xs[k] => j <= k
           /\ j < k => xs[j] < xs[k]
BY SMTT(30) DEF Points

\* The line through two points takes their values at both of them: an
\* identity between polynomials, the reason why a fresh segment needs no check.
LEMMA LineExact ==
    ASSUME NEW a \in Int, NEW b \in Int, NEW u \in Int, NEW w \in Int
    PROVE  /\ (w - u) * a + (u * b - a * w) = u * (b - a)
           /\ (w - u) * b + (u * b - a * w) = w * (b - a)
OBVIOUS

LEMMA LineProperties ==
    ASSUME NEW xs, NEW ys, Points(xs, ys),
           NEW s \in 1..Len(xs), NEW t \in 1..Len(xs), s < t
    PROVE  /\ Line(xs, ys, s, t) \in Segment
           /\ Line(xs, ys, s, t).start = xs[s]
           /\ ~Misses(Line(xs, ys, s, t), xs[s], ys[s])
           /\ ~Misses(Line(xs, ys, s, t), xs[t], ys[t])
<1> DEFINE a == xs[s]  b == xs[t]  u == ys[s]  w == ys[t]
<1>1. a \in Nat /\ b \in Nat /\ u \in Nat /\ w \in Nat /\ a < b
  BY KeysAscending DEF Points
<1>2. /\ (w - u) * a + (u * b - a * w) = u * (b - a)
      /\ (w - u) * b + (u * b - a * w) = w * (b - a)
  BY <1>1, LineExact, SMTT(30)
<1>3. ErrBound * (b - a) >= 0
  BY <1>1, ErrBoundAssumption, SMT
<1>4. Line(xs, ys, s, t) =
        [start |-> a, rise |-> w - u, run |-> b - a, base |-> u * b - a * w]
  BY DEF Line
<1>5. Line(xs, ys, s, t) \in Segment
  <2>1. w - u \in Int /\ b - a \in Nat \ {0} /\ u * b - a * w \in Int
    BY <1>1, SMTT(30)
  <2> QED BY <1>1, <1>4, <2>1 DEF Segment
<1>6. /\ Scaled(Line(xs, ys, s, t), a) = u * (b - a)
      /\ Scaled(Line(xs, ys, s, t), b) = w * (b - a)
  BY <1>2, <1>4 DEF Scaled
<1>7. u * (b - a) \in Int /\ w * (b - a) \in Int /\ ErrBound * (b - a) \in Int
  BY <1>1, ErrBoundAssumption
<1> HIDE DEF a, b, u, w
<1>8. Line(xs, ys, s, t).run = b - a
  BY <1>4
<1>9. ~Misses(Line(xs, ys, s, t), a, u) /\ ~Misses(Line(xs, ys, s, t), b, w)
  BY <1>3, <1>6, <1>7, <1>8 DEF Misses
<1> QED BY <1>4, <1>5, <1>9 DEF a, b, u, w

\* Appending a segment: the old entries stay, the new one is last.
LEMMA AppendSegment ==
    ASSUME NEW S, NEW m \in Seq(S), NEW e \in S
    PROVE  /\ Append(m, e) \in Seq(S)
           /\ Len(Append(m, e)) = Len(m) + 1
           /\ \A c \in 1..Len(m) : Append(m, e)[c] = m[c]
           /\ Append(m, e)[Len(m) + 1] = e
OBVIOUS

LEMMA AppendTwo ==
    ASSUME NEW S, NEW m \in Seq(S), NEW a \in S, NEW b \in S
    PROVE  m \o << a, b >> = Append(Append(m, a), b)
OBVIOUS

LEMMA SegmentStarts ==
    ASSUME NEW S \in Seq(Segment)
    PROVE  /\ Len(S) \in Nat /\ DOMAIN S = 1..Len(S)
           /\ \A c \in 1..Len(S) : S[c] \in Segment /\ S[c].start \in Nat
<1>1. \A c \in 1..Len(S) : S[c] \in Segment
  OBVIOUS
<1>2. \A e \in Segment : e.start \in Nat
  BY DEF Segment
<1> QED BY <1>1, <1>2

\* The last segment starts last.
LEMMA LastStart ==
    ASSUME NEW S \in Seq(Segment), Len(S) > 0, Ordered(S), NEW c \in 1..Len(S)
    PROVE  Len(S) \in 1..Len(S) /\ S[c].start <= S[Len(S)].start
<1>1. Len(S) \in 1..Len(S) /\ \A d \in 1..Len(S) : S[d].start \in Nat
  BY SegmentStarts
<1>2. CASE c = Len(S)
  BY <1>1, <1>2
<1>3. CASE c < Len(S)
  BY <1>1, <1>3 DEF Ordered
<1> QED BY <1>1, <1>2, <1>3

\* A model of one segment
LEMMA FirstSegment ==
    ASSUME NEW xs, NEW ys, Points(xs, ys), Len(xs) >= 2
    PROVE  Models(Append(<< >>, Line(xs, ys, 1, 2)), xs, ys, 1..2)
<1> DEFINE e == Line(xs, ys, 1, 2)
<1>1. 1 \in 1..Len(xs) /\ 2 \in 1..Len(xs)
  BY DEF Points
<1>2. /\ e \in Segment /\ e.start = xs[1]
      /\ ~Misses(e, xs[1], ys[1]) /\ ~Misses(e, xs[2], ys[2])
  BY <1>1, LineProperties
<1> HIDE DEF e
<1>3. /\ Append(<< >>, e) \in Seq(Segment) /\ Len(Append(<< >>, e)) = 1
      /\ Append(<< >>, e)[1] = e
  BY <1>2, AppendSegment
<1>4. Ordered(Append(<< >>, e))
  BY <1>3 DEF Ordered
<1>5. Covered(Append(<< >>, e), xs, ys, 1..2)
  <2>1. \A k \in 1..2 : k = 1 \/ k = 2
    OBVIOUS
  <2>2. \A c \in 1..Len(Append(<< >>, e)) : c = 1
    BY <1>3
  <2> QED BY <1>2, <1>3, <2>1, <2>2 DEF Covered
<1>6. Models(Append(<< >>, e), xs, ys, 1..2)
  BY <1>2, <1>3, <1>4, <1>5 DEF Models
<1> QED BY <1>6 DEF e

\* A model stays one when its last segment hits the next key.
LEMMA KeepSegment ==
    ASSUME NEW xs, NEW ys, Points(xs, ys), NEW S, NEW i \in 2..Len(xs),
           Models(S, xs, ys, 1..(i - 1)),
           NEW s \in 1..(i - 1), S[Len(S)].start = xs[s],
           ~Misses(S[Len(S)], xs[i], ys[i])
    PROVE  Models(S, xs, ys, 1..i)
<1>1. S \in Seq(Segment) /\ Len(S) > 0 /\ Ordered(S)
  BY DEF Models
<1>2. Len(S) \in Nat /\ \A c \in 1..Len(S) : S[c].start \in Nat
  BY <1>1, SegmentStarts
<1>3. Len(xs) \in Nat /\ i \in 1..Len(xs) /\ s \in 1..Len(xs) /\ s < i /\ i \in Nat
  BY DEF Points
<1>4. Covered(S, xs, ys, 1..i)
  <2> SUFFICES ASSUME NEW c \in 1..Len(S), NEW k \in 1..i, Fall(S, xs, k, c)
               PROVE  ~Misses(S[c], xs[k], ys[k])
    BY DEF Covered
  <2>1. CASE k < i
    <3>1. k \in 1..(i - 1)
      BY <2>1, <1>3
    <3> QED BY <3>1 DEF Models, Covered
  <2>2. CASE k = i /\ c = Len(S)
    BY <2>2
  <2>3. CASE k = i /\ c < Len(S)
    <3>1. xs[i] < S[c + 1].start
      BY <2>3 DEF Fall
    <3>2. c + 1 \in 1..Len(S)
      BY <2>3, <1>2
    <3>3. S[c + 1].start <= xs[s]
      BY <1>1, <3>2, LastStart
    <3>4. xs[s] < xs[i] /\ xs[s] \in Nat /\ xs[i] \in Nat
      BY <1>3, KeysAscending
    <3>5. S[c + 1].start \in Nat
      BY <1>2, <3>2
    <3> QED BY <3>1, <3>3, <3>4, <3>5, SMTT(60)
  <2> QED BY <2>1, <2>2, <2>3, <1>2, <1>3
<1> QED BY <1>4 DEF Models

\* Pushing a segment that starts at key t, above the last start, and that hits
\* the keys t..L extends what is covered from the keys below t to those up to L.
LEMMA PushSegment ==
    ASSUME NEW xs, NEW ys, Points(xs, ys), NEW S,
           NEW t \in 1..Len(xs), NEW L \in 1..Len(xs), NEW e \in Segment,
           Models(S, xs, ys, 1..(t - 1)), e.start = xs[t], S[Len(S)].start < xs[t],
           \A k \in t..L : ~Misses(e, xs[k], ys[k])
    PROVE  Models(Append(S, e), xs, ys, 1..L)
<1> DEFINE T == Append(S, e)
<1>0. S \in Seq(Segment) /\ Len(S) > 0 /\ Ordered(S) /\ S[1].start = xs[1]
  BY DEF Models
<1>1. /\ T \in Seq(Segment) /\ Len(T) = Len(S) + 1 /\ T[Len(S) + 1] = e
      /\ \A c \in 1..Len(S) : T[c] = S[c]
      /\ Len(S) \in Nat /\ Len(xs) \in Nat
  BY <1>0, AppendSegment DEF Points
<1>2. \A c \in 1..Len(S) : S[c].start \in Nat
  BY <1>0, SegmentStarts
<1>3. \A c \in 1..Len(S) : S[c].start <= S[Len(S)].start
  BY <1>0, LastStart
<1>4. xs[t] \in Nat /\ Len(S) \in 1..Len(S)
  BY <1>0, <1>1, KeysAscending
<1> HIDE DEF T
<1>5. Ordered(T)
  <2> SUFFICES ASSUME NEW c \in 1..Len(T), NEW d \in 1..Len(T), c < d
               PROVE  T[c].start < T[d].start
    BY DEF Ordered
  <2>1. c \in 1..Len(S) /\ T[c] = S[c]
    BY <1>1
  <2>2. CASE d \in 1..Len(S)
    BY <2>1, <2>2, <1>0, <1>1 DEF Ordered
  <2>3. CASE d = Len(S) + 1
    BY <2>1, <2>3, <1>1, <1>2, <1>3, <1>4, SMTT(30)
  <2> QED BY <2>2, <2>3, <1>1
<1>6. Covered(T, xs, ys, 1..L)
  <2> SUFFICES ASSUME NEW c \in 1..Len(T), NEW k \in 1..L, Fall(T, xs, k, c)
               PROVE  ~Misses(T[c], xs[k], ys[k])
    BY DEF Covered
  <2>0. k \in 1..Len(xs) /\ xs[k] \in Nat
    BY <1>1, KeysAscending
  <2>1. CASE c = Len(S) + 1
    <3>1. xs[t] <= xs[k]
      BY <2>1, <1>1 DEF Fall
    <3>2. k \in t..L
      BY <3>1, <2>0, KeysAscending
    <3> QED BY <2>1, <3>2, <1>1
  <2>2. CASE c \in 1..Len(S)
    <3>1. T[c] = S[c] /\ xs[k] < T[c + 1].start /\ c + 1 \in 1..Len(T)
      BY <2>2, <1>1, SMTT(60) DEF Fall
    <3>2. T[c + 1].start <= xs[t] /\ T[c + 1].start \in Nat
      <4>1. CASE c = Len(S)
        <5>1. T[c + 1] = e
          BY <4>1, <1>1
        <5> QED BY <5>1, <1>4
      <4>2. CASE c + 1 \in 1..Len(S)
        <5>1. T[c + 1] = S[c + 1]
          BY <4>2, <1>1
        <5>2. S[c + 1].start <= S[Len(S)].start /\ S[c + 1].start \in Nat
          BY <4>2, <1>2, <1>3
        <5>3. S[Len(S)].start < xs[t] /\ S[Len(S)].start \in Nat
          BY <1>2, <1>4
        <5> QED BY <5>1, <5>2, <5>3, <1>4, SMTT(30)
      <4> QED BY <2>2, <4>1, <4>2, <1>1
    <3>3. xs[k] < xs[t]
      BY <3>1, <3>2, <2>0, <1>4, SMTT(30)
    <3>4. k \in 1..(t - 1)
      BY <3>3, <2>0, KeysAscending
    <3>5. Fall(S, xs, k, c)
      BY <3>1, <2>2, <1>1, SMTT(30) DEF Fall
    <3> QED BY <3>1, <3>4, <3>5, <2>2 DEF Models, Covered
  <2> QED BY <2>1, <2>2, <1>1
<1>7. Len(T) > 0 /\ T[1].start = xs[1]
  <2>1. 1 \in 1..Len(S) /\ Len(T) > 0
    BY <1>0, <1>1
  <2>2. T[1] = S[1]
    BY <1>1, <2>1
  <2> QED BY <1>0, <2>1, <2>2
<1>8. Models(T, xs, ys, 1..L)
  BY <1>1, <1>5, <1>6, <1>7 DEF Models
<1> QED BY <1>8 DEF T
-----------------------------------------------------------------------------
(***************************************************************************)
(* The loop of build_piecewise_linear_regression.                          *)
(***************************************************************************)
\* After keys 1 to i the segments pushed and the open one are a model of them,
\* and the open one is the line through a key and its successor.
LoopState(st, xs, ys, i) ==
    /\ st.model \in Seq(Segment)
    /\ \E s \in 1..(Len(xs) - 1) : s <= i /\ st.seg = Line(xs, ys, s, s + 1)
    /\ Models(Append(st.model, st.seg), xs, ys, 1..i)

\* The open segment, its first key s named.
LEMMA OpenSegment ==
    ASSUME NEW xs, NEW ys, Points(xs, ys), NEW st, NEW i \in Nat, LoopState(st, xs, ys, i)
    PROVE  \E s \in 1..(Len(xs) - 1) :
              /\ s <= i /\ s \in 1..Len(xs) /\ s + 1 \in 1..Len(xs)
              /\ st.seg = Line(xs, ys, s, s + 1)
              /\ st.seg \in Segment /\ st.seg.start = xs[s]
              /\ ~Misses(st.seg, xs[s + 1], ys[s + 1])
<1>1. PICK s \in 1..(Len(xs) - 1) : s <= i /\ st.seg = Line(xs, ys, s, s + 1)
  BY DEF LoopState
<1>2. Len(xs) \in Nat /\ s \in 1..Len(xs) /\ s + 1 \in 1..Len(xs) /\ s < s + 1
  BY DEF Points
<1> QED BY <1>1, <1>2, LineProperties

LEMMA LoopBegins ==
    ASSUME NEW xs, NEW ys, Points(xs, ys), Len(xs) >= 2
    PROVE  LoopState([model |-> << >>, seg |-> Line(xs, ys, 1, 2)], xs, ys, 2)
<1> DEFINE st == [model |-> << >>, seg |-> Line(xs, ys, 1, 2)]
<1>1. st.model = << >> /\ st.seg = Line(xs, ys, 1, 2)
  OBVIOUS
<1>2. 1 \in 1..(Len(xs) - 1) /\ 1 <= 2 /\ 1 + 1 = 2
  BY DEF Points
<1>3. Models(Append(<< >>, Line(xs, ys, 1, 2)), xs, ys, 1..2)
  BY FirstSegment
<1> HIDE DEF st
<1>4. \E s \in 1..(Len(xs) - 1) : s <= 2 /\ st.seg = Line(xs, ys, s, s + 1)
  BY <1>1, <1>2
<1>5. LoopState(st, xs, ys, 2)
  BY <1>1, <1>3, <1>4 DEF LoopState
<1> QED BY <1>5 DEF st

LEMMA LoopExtends ==
    ASSUME NEW xs, NEW ys, Points(xs, ys), NEW i \in 3..(Len(xs) - 1),
           NEW st, LoopState(st, xs, ys, i - 1)
    PROVE  LoopState(Extend(st, xs, ys, i), xs, ys, i)
<1> DEFINE S == Append(st.model, st.seg)
           e == Line(xs, ys, i, i + 1)
<1>1. /\ Len(xs) \in Nat /\ i \in Nat /\ i - 1 \in Nat /\ i \in 2..Len(xs)
      /\ i \in 1..Len(xs) /\ i + 1 \in 1..Len(xs) /\ i \in 1..(Len(xs) - 1)
  BY DEF Points
<1>2. PICK s \in 1..(Len(xs) - 1) :
        /\ s <= i - 1 /\ s \in 1..Len(xs)
        /\ st.seg = Line(xs, ys, s, s + 1)
        /\ st.seg \in Segment /\ st.seg.start = xs[s]
  BY <1>1, OpenSegment
<1>3. Models(S, xs, ys, 1..(i - 1)) /\ st.model \in Seq(Segment)
  BY DEF LoopState
<1>4. S \in Seq(Segment) /\ Len(S) = Len(st.model) + 1 /\ S[Len(S)] = st.seg
  BY <1>2, <1>3, AppendSegment
<1> HIDE DEF S
<1>5. CASE ~Misses(st.seg, xs[i], ys[i])
  <2>1. Extend(st, xs, ys, i) = st
    BY <1>5 DEF Extend
  <2>2. s \in 1..(i - 1) /\ s <= i
    BY <1>1, <1>2
  <2>3. Models(S, xs, ys, 1..i)
    BY <1>1, <1>2, <1>3, <1>4, <1>5, <2>2, KeepSegment
  <2>4. \E r \in 1..(Len(xs) - 1) : r <= i /\ st.seg = Line(xs, ys, r, r + 1)
    BY <1>2, <2>2
  <2> QED BY <1>3, <2>1, <2>3, <2>4 DEF LoopState, S
<1>6. CASE Misses(st.seg, xs[i], ys[i])
  <2>1. Extend(st, xs, ys, i) = [model |-> S, seg |-> e]
    BY <1>6 DEF Extend, S
  <2>2. e \in Segment /\ e.start = xs[i] /\ ~Misses(e, xs[i], ys[i])
    BY <1>1, LineProperties
  <2>3. \E r \in 1..(Len(xs) - 1) : r <= i /\ e = Line(xs, ys, r, r + 1)
    BY <1>1
  <2> HIDE DEF e
  <2>4. S[Len(S)].start < xs[i]
    <3>1. s < i
      BY <1>1, <1>2
    <3> QED BY <1>1, <1>2, <1>4, <3>1, KeysAscending
  <2>5. \A k \in i..i : ~Misses(e, xs[k], ys[k])
    BY <1>1, <2>2
  <2>6. Models(Append(S, e), xs, ys, 1..i)
    BY <1>1, <1>3, <2>2, <2>4, <2>5, PushSegment
  <2> DEFINE new == [model |-> S, seg |-> e]
  <2>7. new.model = S /\ new.seg = e
    OBVIOUS
  <2> HIDE DEF new
  <2>8. LoopState(new, xs, ys, i)
    BY <1>4, <2>3, <2>6, <2>7 DEF LoopState
  <2> QED BY <2>1, <2>8 DEF new
<1> QED BY <1>5, <1>6

\* Closing the model covers the last key, which the loop never looked at.
LEMMA LoopCloses ==
    ASSUME NEW xs, NEW ys, Points(xs, ys), Len(xs) >= 2, NEW st, NEW i \in Nat,
           i = IF Len(xs) = 2 THEN 2 ELSE Len(xs) - 1,
           LoopState(st, xs, ys, i)
    PROVE  Models(Close(st, xs, ys), xs, ys, 1..Len(xs))
<1> DEFINE S == Append(st.model, st.seg)
           n == Len(xs)
           e == Line(xs, ys, n - 1, n)
<1>1. n \in Nat /\ n \in 1..Len(xs) /\ n - 1 \in 1..Len(xs) /\ n - 1 < n /\ n \in 2..Len(xs)
  BY DEF Points
<1>2. PICK s \in 1..(n - 1) :
        /\ s <= i /\ s \in 1..Len(xs) /\ s + 1 \in 1..Len(xs)
        /\ st.seg \in Segment /\ st.seg.start = xs[s]
        /\ ~Misses(st.seg, xs[s + 1], ys[s + 1])
  BY OpenSegment
<1>3. Models(S, xs, ys, 1..i) /\ st.model \in Seq(Segment)
  BY DEF LoopState
<1>4. S \in Seq(Segment) /\ Len(S) = Len(st.model) + 1 /\ S[Len(S)] = st.seg
  BY <1>2, <1>3, AppendSegment
<1>5. Models(S, xs, ys, 1..(n - 1))
  <2>1. 1..(n - 1) \subseteq 1..i
    <3> HIDE DEF n
    <3>1. i = IF n = 2 THEN 2 ELSE n - 1
      BY DEF n
    <3> QED BY <1>1, <3>1
  <2> QED BY <1>3, <2>1 DEF Models, Covered
<1>6. CASE ~Misses(st.seg, xs[n], ys[n])
  <2>1. Close(st, xs, ys) = S
    BY <1>6 DEF Close
  <2> HIDE DEF S, n
  <2>2. Models(S, xs, ys, 1..n)
    BY <1>1, <1>2, <1>4, <1>5, <1>6, KeepSegment
  <2> QED BY <2>1, <2>2 DEF n
<1>7. CASE Misses(st.seg, xs[n], ys[n])
  <2>1. /\ e \in Segment /\ e.start = xs[n - 1]
        /\ ~Misses(e, xs[n - 1], ys[n - 1]) /\ ~Misses(e, xs[n], ys[n])
    BY <1>1, LineProperties
  <2>2. Close(st, xs, ys) = Append(S, e)
    <3>1. Close(st, xs, ys) = st.model \o << st.seg, e >>
      BY <1>7 DEF Close
    <3> HIDE DEF e
    <3>2. st.model \o << st.seg, e >> = Append(Append(st.model, st.seg), e)
      <4> DEFINE m == st.model  a == st.seg
      <4>1. m \in Seq(Segment) /\ a \in Segment /\ e \in Segment
        BY <1>2, <1>3, <2>1
      <4> HIDE DEF m, a
      <4>2. m \o << a, e >> = Append(Append(m, a), e)
        BY <4>1, AppendTwo
      <4> QED BY <4>2 DEF m, a
    <3> QED BY <3>1, <3>2
  <2>3. s < n - 1
    <3>1. s + 1 # n
      BY <1>2, <1>7
    <3> QED BY <1>1, <1>2, <3>1
  <2>4. \A k \in (n - 1)..n : ~Misses(e, xs[k], ys[k])
    <3>1. \A k \in (n - 1)..n : k = n - 1 \/ k = n
      BY <1>1
    <3> QED BY <2>1, <3>1
  <2> HIDE DEF S, e, n
  <2>5. S[Len(S)].start < xs[n - 1]
    BY <1>1, <1>2, <1>4, <2>3, KeysAscending
  <2>6. Models(S, xs, ys, 1..((n - 1) - 1))
    <3>1. 1..((n - 1) - 1) \subseteq 1..(n - 1)
      BY <1>1
    <3> QED BY <1>5, <3>1 DEF Models, Covered
  <2>7. Models(Append(S, e), xs, ys, 1..n)
    BY <1>1, <2>1, <2>4, <2>5, <2>6, PushSegment
  <2> QED BY <2>2, <2>7 DEF n
<1> QED BY <1>6, <1>7
-----------------------------------------------------------------------------
(***************************************************************************)
(* The function BuildModel.                                                *)
(***************************************************************************)
\* f is the loop's states up to key n.
IsLoop(f, xs, ys, n) ==
    f = [i \in 2..n |->
            IF i = 2 THEN [model |-> << >>, seg |-> Line(xs, ys, 1, 2)]
            ELSE Extend(f[i - 1], xs, ys, i)]

LEMMA LoopGrows ==
    ASSUME NEW xs, NEW ys, NEW n \in Nat, n >= 2, NEW f, IsLoop(f, xs, ys, n)
    PROVE  \E g : IsLoop(g, xs, ys, n + 1)
<1> DEFINE g == [i \in 2..(n + 1) |->
                    IF i <= n THEN f[i] ELSE Extend(f[n], xs, ys, i)]
           h == [i \in 2..(n + 1) |->
                    IF i = 2 THEN [model |-> << >>, seg |-> Line(xs, ys, 1, 2)]
                    ELSE Extend(g[i - 1], xs, ys, i)]
<1>1. ASSUME NEW i \in 2..(n + 1) PROVE g[i] = h[i]
  <2>1. CASE i = 2
    <3>1. f[2] = [model |-> << >>, seg |-> Line(xs, ys, 1, 2)]
      BY DEF IsLoop
    <3> QED BY <2>1, <3>1
  <2>2. CASE i \in 3..n
    <3>1. f[i] = Extend(f[i - 1], xs, ys, i)
      BY <2>2 DEF IsLoop
    <3>2. g[i - 1] = f[i - 1] /\ g[i] = f[i]
      BY <2>2
    <3> QED BY <2>2, <3>1, <3>2
  <2>3. CASE i = n + 1
    <3>1. i \in 2..(n + 1) /\ ~(i <= n) /\ i # 2 /\ i - 1 = n /\ n \in 2..(n + 1) /\ n <= n
      BY <2>3
    <3>2. g[i] = Extend(f[n], xs, ys, i) /\ g[n] = f[n]
      BY <3>1
    <3>3. h[i] = Extend(g[i - 1], xs, ys, i)
      BY <3>1
    <3> QED BY <3>1, <3>2, <3>3
  <2> QED BY <2>1, <2>2, <2>3
<1>2. g = h
  <2>1. DOMAIN g = DOMAIN h /\ DOMAIN g = 2..(n + 1)
    OBVIOUS
  <2> QED BY <1>1, <2>1
<1>3. IsLoop(g, xs, ys, n + 1)
  BY <1>2 DEF IsLoop
<1> QED BY <1>3

\* The recursive definition of BuildLoop has a solution for every length, so
\* BuildLoop is one.
LEMMA LoopDefined ==
    ASSUME NEW xs, NEW ys, Len(xs) \in Nat, Len(xs) >= 2
    PROVE  IsLoop(BuildLoop(xs, ys), xs, ys, Len(xs))
<1> DEFINE T == {n \in 1..Len(xs) : n >= 2 /\ \E f : IsLoop(f, xs, ys, n)}
<1>1. 2 \in T
  <2> DEFINE f == [i \in 2..2 |-> [model |-> << >>, seg |-> Line(xs, ys, 1, 2)]]
  <2>1. \A i \in 2..2 : i = 2
    OBVIOUS
  <2>2. IsLoop(f, xs, ys, 2)
    BY <2>1 DEF IsLoop
  <2> QED BY <2>2
<1>2. PICK n \in T : \A m \in T : m <= n
  <2>1. T \in SUBSET (1..Len(xs)) /\ T # {}
    BY <1>1
  <2> HIDE DEF T
  <2> QED BY <2>1, LargestElement
<1>3. n \in Nat /\ n >= 2 /\ n <= Len(xs)
  OBVIOUS
<1>4. PICK f : IsLoop(f, xs, ys, n)
  OBVIOUS
<1>5. n = Len(xs)
  <2>1. SUFFICES ASSUME n < Len(xs) PROVE FALSE
    BY <1>3
  <2>2. \E g : IsLoop(g, xs, ys, n + 1)
    BY <1>3, <1>4, LoopGrows
  <2>3. n + 1 \in T
    BY <1>3, <2>1, <2>2
  <2> QED BY <1>2, <1>3, <2>3
<1>6. BuildLoop(xs, ys) = CHOOSE g : IsLoop(g, xs, ys, Len(xs))
  BY Zenon DEF BuildLoop, IsLoop
<1> QED BY <1>4, <1>5, <1>6, Zenon

\* The loop's states one by one.
LEMMA LoopSteps ==
    ASSUME NEW xs, NEW ys, Len(xs) \in Nat, Len(xs) >= 2
    PROVE  /\ BuildLoop(xs, ys)[2] = [model |-> << >>, seg |-> Line(xs, ys, 1, 2)]
           /\ \A i \in 3..Len(xs) :
                BuildLoop(xs, ys)[i] = Extend(BuildLoop(xs, ys)[i - 1], xs, ys, i)
<1> DEFINE f == BuildLoop(xs, ys)
<1>1. IsLoop(f, xs, ys, Len(xs))
  BY LoopDefined
<1> HIDE DEF f
<1>2. f[2] = [model |-> << >>, seg |-> Line(xs, ys, 1, 2)]
  BY <1>1 DEF IsLoop
<1>3. \A i \in 3..Len(xs) : f[i] = Extend(f[i - 1], xs, ys, i)
  BY <1>1 DEF IsLoop
<1> QED BY <1>2, <1>3 DEF f

\* Every state the loop goes through is a model of the keys seen so far: were
\* there a first one that is not, LoopExtends would contradict it.
LEMMA LoopStates ==
    ASSUME NEW xs, NEW ys, Points(xs, ys), Len(xs) >= 2,
           NEW last \in 2..Len(xs), last = 2 \/ last <= Len(xs) - 1
    PROVE  LoopState(BuildLoop(xs, ys)[last], xs, ys, last)
<1> DEFINE f == BuildLoop(xs, ys)
           T == {n \in 1..last : n >= 2 /\ LoopState(f[n], xs, ys, n)}
<1>0. Len(xs) \in Nat /\ last \in Nat /\ last >= 2
  BY DEF Points
<1>1. f[2] = [model |-> << >>, seg |-> Line(xs, ys, 1, 2)]
  BY <1>0, LoopSteps
<1>2. \A i \in 3..Len(xs) : f[i] = Extend(f[i - 1], xs, ys, i)
  BY <1>0, LoopSteps
<1> HIDE DEF f
<1>3. 2 \in T
  BY <1>0, <1>1, LoopBegins
<1>4. PICK n \in T : \A m \in T : m <= n
  <2>1. T \in SUBSET (1..last) /\ T # {}
    BY <1>3
  <2> HIDE DEF T
  <2> QED BY <1>0, <2>1, LargestElement
<1>5. n \in Nat /\ n >= 2 /\ n <= last /\ LoopState(f[n], xs, ys, n)
  OBVIOUS
<1>6. n = last
  <2>1. SUFFICES ASSUME n < last PROVE FALSE
    BY <1>0, <1>5
  <2>2. n + 1 \in 3..(Len(xs) - 1) /\ n + 1 \in 3..Len(xs) /\ (n + 1) - 1 = n
    BY <1>0, <1>5, <2>1
  <2>3. f[n + 1] = Extend(f[n], xs, ys, n + 1)
    BY <1>2, <2>2
  <2>4. LoopState(f[n + 1], xs, ys, n + 1)
    BY <1>5, <2>2, <2>3, LoopExtends
  <2>5. n + 1 \in T
    BY <1>0, <1>5, <2>1, <2>4
  <2> QED BY <1>4, <1>5, <2>5
<1> QED BY <1>5, <1>6 DEF f

\* What BuildModel builds is a model of all keys.
LEMMA BuildModelModels ==
    ASSUME NEW xs, NEW ys, Points(xs, ys), Len(xs) >= 2
    PROVE  Models(BuildModel(xs, ys), xs, ys, 1..Len(xs))
<1> DEFINE last == IF Len(xs) = 2 THEN 2 ELSE Len(xs) - 1
<1>1. Len(xs) \in Nat /\ last \in 2..Len(xs) /\ last \in Nat /\ (last = 2 \/ last <= Len(xs) - 1)
  <2>1. Len(xs) \in Nat
    BY DEF Points
  <2>2. Len(xs) = 2 \/ 3 <= Len(xs)
    BY <2>1, TwoOrMore
  <2> QED BY <2>1, <2>2
<1>2. last = IF Len(xs) = 2 THEN 2 ELSE Len(xs) - 1
  OBVIOUS
<1>3. BuildModel(xs, ys) = Close(BuildLoop(xs, ys)[last], xs, ys)
  BY DEF BuildModel
<1> HIDE DEF last
<1>4. LoopState(BuildLoop(xs, ys)[last], xs, ys, last)
  BY <1>1, LoopStates
<1> QED BY <1>1, <1>2, <1>3, <1>4, LoopCloses
-----------------------------------------------------------------------------
(***************************************************************************)
(* From the error bound of the real-valued prediction to the records that  *)
(* get looks at.                                                           *)
(***************************************************************************)
LEMMA Truncation ==
    ASSUME NEW sg \in Segment, NEW key \in Nat, NEW pos \in Nat,
           ~Misses(sg, key, pos), pos + ErrBound <= MaxInt
    PROVE  /\ ToPosition(sg, key) \in Nat
           /\ pos - ErrBound <= ToPosition(sg, key)
           /\ ToPosition(sg, key) <= pos + ErrBound
<1> DEFINE v == Scaled(sg, key)
           r == sg.run
<1>1. r \in Nat \ {0} /\ v \in Int /\ ErrBound \in Nat /\ MaxInt \in Nat
  BY ErrBoundAssumption, MaxIntAssumption DEF Segment, Scaled
<1>2. v - pos * r <= ErrBound * r /\ pos * r - v <= ErrBound * r
  <2>1. pos * r \in Int /\ ErrBound * r \in Int
    BY <1>1
  <2> QED BY <1>1, <2>1 DEF Misses
<1>3. ToPosition(sg, key) =
        IF v < 0 \/ v >= (MaxInt + 1) * r THEN 0 ELSE v \div r
  BY DEF ToPosition
<1> HIDE DEF v, r
<1>4. v <= (pos + ErrBound) * r /\ (pos - ErrBound) * r <= v
  <2>1. (pos + ErrBound) * r = pos * r + ErrBound * r
    BY <1>1
  <2>2. (pos - ErrBound) * r = pos * r - ErrBound * r
    BY <1>1
  <2>3. pos * r \in Int /\ ErrBound * r \in Int
    BY <1>1
  <2> QED BY <1>1, <1>2, <2>1, <2>2, <2>3
<1> QED BY <1>1, <1>3, <1>4, TruncatedQuotient

\* Any key, stored or not, gets a position.
LEMMA PositionType ==
    ASSUME NEW S \in Seq(Segment), NEW key \in Nat
    PROVE  QueryModel(S, key) \in Nat
<1> DEFINE C == {c \in DOMAIN S : IsChosen(S, key, c)}
           c == CHOOSE c \in C : TRUE
<1>1. QueryModel(S, key) = IF C = {} THEN 0 ELSE ToPosition(S[c], key)
  BY DEF QueryModel
<1>2. ASSUME C # {} PROVE ToPosition(S[c], key) \in Nat
  <2>1. c \in C
    BY <1>2
  <2>2. S[c] \in Segment
    BY <2>1
  <2>3. ASSUME NEW sg \in Segment PROVE ToPosition(sg, key) \in Nat
    <3> DEFINE v == Scaled(sg, key)
    <3>1. v \in Int /\ sg.run \in Nat \ {0} /\ MaxInt \in Nat
      BY MaxIntAssumption DEF Scaled, Segment
    <3>2. ToPosition(sg, key) =
            IF v < 0 \/ v >= (MaxInt + 1) * sg.run THEN 0 ELSE v \div sg.run
      BY DEF ToPosition
    <3> HIDE DEF v
    <3>3. CASE v < 0
      BY <3>2, <3>3
    <3>4. CASE v >= 0
      <4>1. v \in Nat
        BY <3>1, <3>4
      <4>2. v \div sg.run \in Nat
        BY <3>1, <4>1, Quotient
      <4> QED BY <3>2, <4>2
    <3> QED BY <3>1, <3>3, <3>4
  <2> HIDE DEF c
  <2> QED BY <2>2, <2>3
<1> HIDE DEF C, c
<1> QED BY <1>1, <1>2

\* query_model finds a segment for every key the model was built on, and it is
\* the segment the key falls to.
LEMMA ChosenExists ==
    ASSUME NEW xs, NEW ys, Points(xs, ys), NEW S, Models(S, xs, ys, 1..Len(xs)),
           NEW k \in 1..Len(xs)
    PROVE  \E c \in DOMAIN S : IsChosen(S, xs[k], c)
<1>1. /\ Len(S) \in Nat /\ Len(S) > 0 /\ S[1].start = xs[1]
      /\ Ordered(S) /\ S \in Seq(Segment) /\ DOMAIN S = 1..Len(S)
  BY DEF Models
<1>2. \A c \in 1..Len(S) : S[c].start \in Nat
  BY <1>1, SegmentStarts
<1>3. xs[1] <= xs[k] /\ xs[k] \in Nat
  <2>1. 1 \in 1..Len(xs) /\ Len(xs) \in Nat
    BY DEF Points
  <2>2. xs[1] \in Nat /\ xs[k] \in Nat /\ (1 < k => xs[1] < xs[k])
    BY <2>1, KeysAscending
  <2> QED BY <2>1, <2>2
<1> DEFINE T == {c \in 1..Len(S) : S[c].start <= xs[k]}
<1>4. 1 \in T
  BY <1>1, <1>3
<1>5. PICK c \in T : \A d \in T : d <= c
  <2>1. T \in SUBSET (1..Len(S)) /\ T # {}
    BY <1>4
  <2> HIDE DEF T
  <2> QED BY <1>1, <2>1, LargestElement
<1>6. \A j \in 1..(c - 1) : S[j].start < xs[k]
  <2> TAKE j \in 1..(c - 1)
  <2>1. S[j].start < S[c].start /\ j \in 1..Len(S)
    BY <1>1 DEF Ordered
  <2> QED BY <1>2, <1>3, <2>1
<1>7. c = Len(S) \/ S[c + 1].start > xs[k]
  <2>1. c \in 1..Len(S)
    OBVIOUS
  <2>2. CASE c < Len(S)
    <3>1. c + 1 \in 1..Len(S) /\ ~(c + 1 \in T)
      BY <1>1, <1>5, <2>1, <2>2
    <3> QED BY <1>2, <1>3, <3>1
  <2>3. c = Len(S) \/ c < Len(S)
    <3>1. ASSUME NEW a \in Nat, NEW b \in 1..a PROVE b = a \/ b < a
      OBVIOUS
    <3> HIDE DEF T
    <3> QED BY <1>1, <2>1, <3>1
  <2> QED BY <2>2, <2>3, Zenon
<1> QED BY <1>1, <1>6, <1>7 DEF IsChosen

LEMMA ChosenFalls ==
    ASSUME NEW xs, NEW ys, Points(xs, ys), NEW S, Models(S, xs, ys, 1..Len(xs)),
           NEW k \in 1..Len(xs), NEW c \in DOMAIN S, IsChosen(S, xs[k], c)
    PROVE  S[c] \in Segment /\ ~Misses(S[c], xs[k], ys[k])
<1>1. Len(S) \in Nat /\ Ordered(S) /\ S \in Seq(Segment) /\ c \in 1..Len(S)
  BY DEF Models
<1>2. Fall(S, xs, k, c)
  <2>1. ASSUME c < Len(S) PROVE xs[k] < S[c + 1].start
    <3>1. c + 1 \in 1..Len(S) /\ c # Len(S)
      BY <1>1, <2>1
    <3>2. S[c].start < S[c + 1].start /\ S[c + 1].start \in Nat
      BY <1>1, <3>1, SegmentStarts DEF Ordered
    <3>3. xs[k] \in Nat
      BY KeysAscending
    <3> QED BY <3>1, <3>2, <3>3 DEF IsChosen
  <2> QED BY <2>1 DEF Fall, IsChosen
<1> QED BY <1>1, <1>2 DEF Models, Covered

\* A lookup of a key the model was built on ends at the key's position.
LEMMA LookupInModel ==
    ASSUME NEW xs, NEW ys, Points(xs, ys), NEW S, Models(S, xs, ys, 1..Len(xs)),
           NEW k \in 1..Len(xs), ys[k] + ErrBound <= MaxInt
    PROVE  ys[k] \in Window(QueryModel(S, xs[k])) \cup {QueryModel(S, xs[k]) + ErrBound}
<1> DEFINE pos == QueryModel(S, xs[k])
<1>1. xs[k] \in Nat /\ ys[k] \in Nat
  BY KeysAscending DEF Points
<1>2. PICK c \in DOMAIN S : IsChosen(S, xs[k], c) /\ pos = ToPosition(S[c], xs[k])
  <2> DEFINE C == {c \in DOMAIN S : IsChosen(S, xs[k], c)}
  <2>1. C # {}
    BY ChosenExists
  <2>2. pos = ToPosition(S[CHOOSE c \in C : TRUE], xs[k])
    BY <2>1 DEF QueryModel
  <2>3. (CHOOSE c \in C : TRUE) \in C
    BY <2>1
  <2> QED BY <2>2, <2>3
<1>3. S[c] \in Segment /\ ~Misses(S[c], xs[k], ys[k])
  BY <1>2, ChosenFalls
<1>4. pos \in Nat /\ ys[k] - ErrBound <= pos /\ pos <= ys[k] + ErrBound
  BY <1>1, <1>2, <1>3, Truncation
<1> HIDE DEF pos
<1>5. ys[k] \in Window(pos) \cup {pos + ErrBound}
  BY <1>1, <1>4, ErrBoundAssumption, SMTT(30) DEF Window, WindowStart
<1> QED BY <1>5 DEF pos
=============================================================================
