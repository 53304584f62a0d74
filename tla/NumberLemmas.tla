---------------------------- MODULE NumberLemmas ----------------------------
(***************************************************************************)
(* Facts about integers that the proofs of several modules use.            *)
(***************************************************************************)
EXTENDS Integers, WellFoundedInduction, TLAPS

\* Splitting off the smallest case.
LEMMA TwoOrMore ==
    ASSUME NEW n \in Nat, n >= 2
    PROVE  n = 2 \/ 3 <= n
OBVIOUS

\* A positive factor cancels in an inequality.
LEMMA Cancel ==
    ASSUME NEW a \in Int, NEW b \in Int, NEW r \in Nat \ {0}, a * r < b * r
    PROVE  a < b
<1>1. ASSUME b <= a PROVE b * r <= a * r
  <2>1. a - b \in Nat /\ (a - b) * r >= 0
    BY <1>1
  <2>2. (a - b) * r = a * r - b * r
    OBVIOUS
  <2> QED BY <2>1, <2>2
<1>2. a * r \in Int /\ b * r \in Int
  OBVIOUS
<1> QED BY <1>1, <1>2

\* The quotient brackets the number it divides.
LEMMA Quotient ==
    ASSUME NEW v \in Nat, NEW r \in Nat \ {0}
    PROVE  /\ v \div r \in Nat
           /\ (v \div r) * r <= v
           /\ v < ((v \div r) + 1) * r
OBVIOUS

\* A quotient of a number within B * r of pos * r, truncated as a conversion to
\* int does it, lies within B of pos.
LEMMA TruncatedQuotient ==
    ASSUME NEW v \in Int, NEW r \in Nat \ {0}, NEW pos \in Nat, NEW B \in Nat,
           NEW M \in Nat, pos + B <= M,
           v <= (pos + B) * r, (pos - B) * r <= v,
           NEW t, t = IF v < 0 \/ v >= (M + 1) * r THEN 0 ELSE v \div r
    PROVE  t \in Nat /\ pos - B <= t /\ t <= pos + B
<1>1. v < (M + 1) * r
  <2>1. (pos + B) * r <= M * r
    <3>1. (M - (pos + B)) * r >= 0
      OBVIOUS
    <3>2. (M - (pos + B)) * r = M * r - (pos + B) * r
      OBVIOUS
    <3>3. M * r \in Int /\ (pos + B) * r \in Int
      OBVIOUS
    <3> QED BY <3>1, <3>2, <3>3
  <2>2. (M + 1) * r = M * r + r
    OBVIOUS
  <2>3. M * r \in Int /\ (pos + B) * r \in Int
    OBVIOUS
  <2> QED BY <2>1, <2>2, <2>3
<1>2. CASE v < 0
  <2>1. (pos - B) * r < 0 * r
    <3>1. 0 * r = 0 /\ (pos - B) * r \in Int
      OBVIOUS
    <3> QED BY <1>2, <3>1
  <2>2. pos - B < 0
    BY <2>1, Cancel
  <2> QED BY <1>2, <2>2
<1>3. CASE v >= 0
  <2> DEFINE q == v \div r
  <2>1. q \in Nat /\ q * r <= v /\ v < (q + 1) * r
    BY <1>3, Quotient
  <2>2. t = q
    <3>1. ~(v < 0) /\ ~(v >= (M + 1) * r)
      <4>1. (M + 1) * r \in Int
        OBVIOUS
      <4> QED BY <1>1, <1>3, <4>1
    <3> QED BY <3>1
  <2> HIDE DEF q
  <2>3. pos - B < q + 1
    <3>1. (pos - B) * r < (q + 1) * r
      <4>1. (pos - B) * r \in Int /\ (q + 1) * r \in Int
        BY <2>1
      <4> QED BY <2>1, <4>1
    <3> QED BY <2>1, <3>1, Cancel
  <2>4. q < (pos + B) + 1
    <3>1. q * r < ((pos + B) + 1) * r
      <4>1. ((pos + B) + 1) * r = (pos + B) * r + r
        OBVIOUS
      <4>2. q * r \in Int /\ (pos + B) * r \in Int
        BY <2>1
      <4> QED BY <2>1, <4>1, <4>2
    <3> QED BY <2>1, <3>1, Cancel
  <2> QED BY <2>1, <2>2, <2>3, <2>4
<1> QED BY <1>2, <1>3

\* A nonempty set of numbers with an upper bound has a largest element.
LEMMA LargestElement ==
    ASSUME NEW n \in Nat, NEW T \in SUBSET (1..n), T # {}
    PROVE  \E c \in T : \A d \in T : d <= c
<1> DEFINE M == {n - c : c \in T}
<1>1. M \subseteq Nat
  <2>1. \A c \in T : n - c \in Nat
    OBVIOUS
  <2> QED BY <2>1
<1>2. M # {}
  <2>1. PICK c \in T : TRUE
    OBVIOUS
  <2>2. n - c \in M
    BY <2>1
  <2> QED BY <2>2
<1>3. PICK m \in M : \A k \in M : ~(<< k, m >> \in OpToRel(<, Nat))
  <2> HIDE DEF M
  <2> QED BY <1>1, <1>2, NatLessThanWellFounded, WFMin
<1>4. \A k \in M : ~(k < m)
  <2> TAKE k \in M
  <2>1. k \in Nat /\ m \in Nat
    BY <1>1
  <2> HIDE DEF M
  <2>2. << k, m >> \in Nat \X Nat
    BY <2>1
  <2>3. k < m => << k, m >> \in OpToRel(<, Nat)
    BY <2>2 DEF OpToRel
  <2> QED BY <2>3, <1>3
<1>5. PICK c \in T : m = n - c
  OBVIOUS
<1>6. \A d \in T : d <= c
  <2> TAKE d \in T
  <2>1. ~(n - d < n - c)
    BY <1>4, <1>5
  <2>2. d \in 1..n /\ c \in 1..n
    OBVIOUS
  <2> HIDE DEF M
  <2> QED BY <2>1, <2>2
<1> QED BY <1>6

\* A nonempty set of numbers has a smallest element.
LEMMA SmallestElement ==
    ASSUME NEW T \in SUBSET Nat, T # {}
    PROVE  \E c \in T : \A d \in T : c <= d
<1>1. PICK m \in T : TRUE
  OBVIOUS
<1> DEFINE U == {j \in 1..(m + 1) : m + 1 - j \in T}
<1>2. m \in Nat /\ m + 1 \in Nat /\ 1 \in U
  OBVIOUS
<1>3. PICK j \in U : \A i \in U : i <= j
  BY <1>2, LargestElement
<1>4. /\ m + 1 - j \in T /\ j \in 1..(m + 1)
      /\ \A i \in 1..(m + 1) : m + 1 - i \in T => i <= j
  BY <1>3
<1> HIDE DEF U
<1>5. ASSUME NEW d \in T PROVE m + 1 - j <= d
  <2>1. CASE d <= m
    <3>1. m + 1 - d \in 1..(m + 1) /\ m + 1 - (m + 1 - d) = d
      BY <1>2, <2>1
    <3>2. m + 1 - d <= j
      BY <1>4, <3>1
    <3> QED BY <1>2, <1>4, <3>2
  <2>2. CASE d > m
    BY <1>2, <1>4, <2>2
  <2> QED BY <1>2, <2>1, <2>2
<1> QED BY <1>4, <1>5
=============================================================================
