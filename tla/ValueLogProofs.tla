--------------------------- MODULE ValueLogProofs ---------------------------
(***************************************************************************)
(* Lemmas about value logs, whatever their records are.                    *)
(***************************************************************************)
EXTENDS ValueLog, NumberLemmas, FiniteSetTheorems, TLAPS

\* A key with records in the log has a last one, and LastIndex is it.
LEMMA LastRecord ==
    ASSUME NEW R, NEW log \in Seq(R), NEW k \in LogKeys(log)
    PROVE  /\ LastIndex(log, k) \in 1..Len(log)
           /\ log[LastIndex(log, k)].key = k
           /\ \A m \in 1..Len(log) : m > LastIndex(log, k) => log[m].key # k
<1> DEFINE T == {j \in 1..Len(log) : log[j].key = k}
<1>1. DOMAIN log = 1..Len(log) /\ Len(log) \in Nat
  OBVIOUS
<1>2. T # {}
  BY <1>1 DEF LogKeys
<1>3. PICK j \in T : \A d \in T : d <= j
  <2> HIDE DEF T
  <2>1. T \in SUBSET (1..Len(log))
    BY DEF T
  <2> QED BY <1>1, <1>2, <2>1, LargestElement
<1>4. \A m \in DOMAIN log : m > j => log[m].key # k
  <2> SUFFICES ASSUME NEW m \in 1..Len(log), m > j, log[m].key = k PROVE FALSE
    BY <1>1
  <2>1. m \in T
    OBVIOUS
  <2>2. m <= j /\ j \in 1..Len(log)
    BY <1>3, <2>1
  <2> QED BY <2>2
<1>5. \E i \in DOMAIN log : log[i].key = k /\ \A m \in DOMAIN log : m > i => log[m].key # k
  BY <1>1, <1>3, <1>4
<1> QED BY <1>1, <1>5 DEF LastIndex

\* Only one index can be the last one.
LEMMA LastUnique ==
    ASSUME NEW R, NEW log \in Seq(R), NEW j \in 1..Len(log), NEW k, log[j].key = k,
           \A m \in 1..Len(log) : m > j => log[m].key # k
    PROVE  k \in LogKeys(log) /\ LastIndex(log, k) = j
<1>1. DOMAIN log = 1..Len(log) /\ Len(log) \in Nat
  OBVIOUS
<1>2. k \in LogKeys(log)
  BY <1>1 DEF LogKeys
<1>3. /\ LastIndex(log, k) \in 1..Len(log) /\ log[LastIndex(log, k)].key = k
      /\ \A m \in 1..Len(log) : m > LastIndex(log, k) => log[m].key # k
  BY <1>2, LastRecord
<1>4. ~(LastIndex(log, k) > j) /\ ~(j > LastIndex(log, k))
  BY <1>3
<1> HIDE DEF LastIndex
<1> QED BY <1>1, <1>2, <1>3, <1>4

\* What a collection writes back are records of the keys and values of the log.
LEMMA CollectedRecords ==
    ASSUME NEW K, IsFiniteSet(K), NEW V,
           NEW log \in Seq([key : K, val : V]), NEW s \in SortedSeqs(Survivors(log))
    PROVE  /\ s \in Seq(K)
           /\ Pairs(log, s) \in Seq([key : K, val : V])
<1> DEFINE S == Survivors(log)
           n == Cardinality(S)
           R == [key : K, val : V]
<1>1. DOMAIN log = 1..Len(log) /\ \A j \in 1..Len(log) : log[j] \in R
  <2>1. log \in Seq(R)
    OBVIOUS
  <2> HIDE DEF R
  <2> QED BY <2>1
<1>2. S \subseteq LogKeys(log) /\ S \subseteq K
  BY <1>1 DEF Survivors, LogKeys
<1>3. n \in Nat
  BY <1>2, FS_Subset, FS_CardinalityType
<1>4. s \in [1..n -> S]
  BY DEF SortedSeqs
<1>5. ASSUME NEW j \in 1..n PROVE s[j] \in K /\ ValidValue(log, s[j]) \in V
  <2>1. s[j] \in LogKeys(log) /\ s[j] \in K
    BY <1>2, <1>4
  <2>2. LastIndex(log, s[j]) \in 1..Len(log)
    BY <2>1, LastRecord
  <2>3. log[LastIndex(log, s[j])] \in R
    BY <2>2, <1>1
  <2> QED BY <2>1, <2>3 DEF ValidValue
<1> HIDE DEF S, n
<1>6. s \in [1..n -> K]
  BY <1>4, <1>5
<1>7. s \in Seq(K)
  BY <1>3, <1>6
<1>8. Pairs(log, s) \in [1..n -> R]
  <2>1. Len(s) = n
    BY <1>3, <1>6
  <2> QED BY <1>5, <2>1 DEF Pairs
<1>9. Pairs(log, s) \in Seq(R)
  <2> HIDE DEF R
  <2> QED BY <1>3, <1>8
<1> QED BY <1>7, <1>9
-----------------------------------------------------------------------------
(***************************************************************************)
(* A log read as two parts, the older one first.                           *)
(***************************************************************************)
\* r holds the records of a and then those of b.
Joins(r, a, b) ==
    /\ Len(a) \in Nat /\ Len(b) \in Nat /\ Len(r) = Len(a) + Len(b)
    /\ DOMAIN a = 1..Len(a) /\ DOMAIN b = 1..Len(b) /\ DOMAIN r = 1..Len(r)
    /\ \A j \in 1..Len(a) : r[j] = a[j]
    /\ \A j \in 1..Len(b) : r[Len(a) + j] = b[j]

LEMMA JoinedLog ==
    ASSUME NEW R, NEW a \in Seq(R), NEW b \in Seq(R)
    PROVE  a \o b \in Seq(R) /\ Joins(a \o b, a, b)
BY DEF Joins

\* The keys of both parts, and each key's value in the newer part that has it
JoinedValues(r, a, b) ==
    /\ LogKeys(r) = LogKeys(a) \cup LogKeys(b)
    /\ \A k \in LogKeys(b) : ValidValue(r, k) = ValidValue(b, k)
    /\ \A k \in LogKeys(a) \ LogKeys(b) : ValidValue(r, k) = ValidValue(a, k)

\* Records of the newer part win over those of the older one.
LEMMA NewerPartWins ==
    ASSUME NEW R, NEW a \in Seq(R), NEW b \in Seq(R)
    PROVE  JoinedValues(a \o b, a, b)
<1> DEFINE r == a \o b
           n == Len(a)
<1>1. r \in Seq(R) /\ Joins(r, a, b)
  BY JoinedLog
<1> HIDE DEF r
<1>2. \A j \in 1..Len(r) : j \in 1..n \/ (j - n \in 1..Len(b) /\ r[j] = b[j - n])
  <2> SUFFICES ASSUME NEW j \in 1..Len(r), j \notin 1..n
               PROVE  j - n \in 1..Len(b) /\ r[j] = b[j - n]
    OBVIOUS
  <2>1. j - n \in 1..Len(b) /\ n + (j - n) = j
    BY <1>1 DEF Joins
  <2> QED BY <1>1, <2>1 DEF Joins
<1>3. /\ \A j \in 1..n : j \in 1..Len(r) /\ r[j] = a[j]
      /\ \A j \in 1..Len(b) : n + j \in 1..Len(r) /\ r[n + j] = b[j]
  BY <1>1 DEF Joins
<1>4. LogKeys(r) = LogKeys(a) \cup LogKeys(b)
  <2>1. ASSUME NEW k \in LogKeys(r) PROVE k \in LogKeys(a) \cup LogKeys(b)
    <3>1. PICK j \in 1..Len(r) : r[j].key = k
      BY <1>1 DEF LogKeys, Joins
    <3>2. CASE j \in 1..n
      BY <1>1, <1>3, <3>1, <3>2 DEF LogKeys, Joins
    <3>3. CASE j - n \in 1..Len(b) /\ r[j] = b[j - n]
      BY <1>1, <3>1, <3>3 DEF LogKeys, Joins
    <3> QED BY <1>2, <3>2, <3>3
  <2>2. ASSUME NEW k \in LogKeys(a) PROVE k \in LogKeys(r)
    <3>1. PICK j \in 1..n : a[j].key = k
      BY <1>1 DEF LogKeys, Joins
    <3>2. j \in DOMAIN r /\ r[j].key = k
      BY <1>1, <1>3, <3>1 DEF Joins
    <3> QED BY <3>2 DEF LogKeys
  <2>3. ASSUME NEW k \in LogKeys(b) PROVE k \in LogKeys(r)
    <3>1. PICK j \in 1..Len(b) : b[j].key = k
      BY <1>1 DEF LogKeys, Joins
    <3>2. n + j \in DOMAIN r /\ r[n + j].key = k
      BY <1>1, <1>3, <3>1 DEF Joins
    <3> QED BY <3>2 DEF LogKeys
  <2> QED BY <2>1, <2>2, <2>3
<1>5. ASSUME NEW k \in LogKeys(b) PROVE ValidValue(r, k) = ValidValue(b, k)
  <2> DEFINE i == LastIndex(b, k)
  <2>1. /\ i \in 1..Len(b) /\ b[i].key = k
        /\ \A m \in 1..Len(b) : m > i => b[m].key # k
    BY LastRecord
  <2> HIDE DEF i
  <2>2. \A m \in 1..Len(r) : m > n + i => r[m].key # k
    <3> SUFFICES ASSUME NEW m \in 1..Len(r), m > n + i PROVE r[m].key # k
      OBVIOUS
    <3>1. n \in Nat /\ i \in Nat /\ m \in Nat
      BY <1>1, <2>1 DEF Joins
    <3>2. m \notin 1..n /\ m - n > i
      BY <3>1
    <3> QED BY <1>2, <2>1, <3>2
  <2>3. n + i \in 1..Len(r) /\ r[n + i] = b[i]
    BY <1>3, <2>1
  <2>4. LastIndex(r, k) = n + i
    BY <1>1, <2>1, <2>2, <2>3, LastUnique
  <2> QED BY <2>3, <2>4 DEF ValidValue, i
<1>6. ASSUME NEW k \in LogKeys(a) \ LogKeys(b) PROVE ValidValue(r, k) = ValidValue(a, k)
  <2> DEFINE i == LastIndex(a, k)
  <2>1. /\ i \in 1..n /\ a[i].key = k
        /\ \A m \in 1..n : m > i => a[m].key # k
    BY LastRecord
  <2> HIDE DEF i
  <2>2. \A m \in 1..Len(b) : b[m].key # k
    BY <1>1 DEF LogKeys, Joins
  <2>3. \A m \in 1..Len(r) : m > i => r[m].key # k
    <3> SUFFICES ASSUME NEW m \in 1..Len(r), m > i PROVE r[m].key # k
      OBVIOUS
    <3>1. CASE m \in 1..n
      BY <1>3, <2>1, <3>1
    <3>2. CASE m - n \in 1..Len(b) /\ r[m] = b[m - n]
      BY <2>2, <3>2
    <3> QED BY <1>2, <3>1, <3>2
  <2>4. i \in 1..Len(r) /\ r[i] = a[i]
    BY <1>3, <2>1
  <2>5. LastIndex(r, k) = i
    BY <1>1, <2>1, <2>3, <2>4, LastUnique
  <2> QED BY <2>4, <2>5 DEF ValidValue, i
<1> QED BY <1>4, <1>5, <1>6 DEF JoinedValues, r

\* A log of one record: its key and its value.
LEMMA OneRecord ==
    ASSUME NEW R, NEW r \in R
    PROVE  LogKeys(<< r >>) = {r.key} /\ ValidValue(<< r >>, r.key) = r.val
<1> DEFINE log == << r >>
<1>1. log \in Seq(R) /\ Len(log) = 1 /\ DOMAIN log = {1} /\ log[1] = r
  OBVIOUS
<1> HIDE DEF log
<1>2. LogKeys(log) = {r.key}
  BY <1>1 DEF LogKeys
<1>3. LastIndex(log, r.key) = 1
  <2>1. 1 \in 1..Len(log) /\ \A m \in 1..Len(log) : ~(m > 1)
    BY <1>1
  <2> QED BY <1>1, <2>1, LastUnique
<1> QED BY <1>1, <1>2, <1>3 DEF ValidValue, log

\* What the collector writes back has the keys that survive, each with the value
\* it had last in the logs collected.
LEMMA CollectedValues ==
    ASSUME NEW K, K \subseteq Nat, IsFiniteSet(K), NEW V,
           NEW log \in Seq([key : K, val : V]), NEW s \in SortedSeqs(Survivors(log))
    PROVE  /\ LogKeys(Pairs(log, s)) = Survivors(log)
           /\ \A k \in Survivors(log) : ValidValue(Pairs(log, s), k) = ValidValue(log, k)
<1> DEFINE S == Survivors(log)
           n == Cardinality(S)
           R == [key : K, val : V]
           new == Pairs(log, s)
<1>1. s \in Seq(K) /\ new \in Seq(R)
  BY CollectedRecords
<1>2. /\ s \in [1..n -> S]
      /\ \A k \in S : \E j \in 1..n : s[j] = k
      /\ \A j, m \in 1..n : j < m => s[j] < s[m]
  BY DEF SortedSeqs
<1> HIDE DEF S, n
<1>3. DOMAIN s = 1..n /\ Len(s) \in Nat /\ 1..Len(s) = 1..n
  BY <1>1, <1>2
<1>4. /\ DOMAIN new = 1..n /\ 1..Len(new) = 1..n
      /\ \A j \in 1..n : new[j].key = s[j] /\ new[j].val = ValidValue(log, s[j])
  <2>1. DOMAIN new = 1..n
    BY <1>3 DEF Pairs
  <2>2. \A j \in 1..n : new[j].key = s[j] /\ new[j].val = ValidValue(log, s[j])
    BY <1>3 DEF Pairs
  <2>3. DOMAIN new = 1..Len(new)
    <3> HIDE DEF R, new
    <3> QED BY <1>1
  <2> QED BY <2>1, <2>2, <2>3
<1> HIDE DEF R, new
<1>5. LogKeys(new) = S
  BY <1>2, <1>4 DEF LogKeys
<1>6. ASSUME NEW k \in S PROVE ValidValue(new, k) = ValidValue(log, k)
  <2>1. PICK j \in 1..n : s[j] = k
    BY <1>2
  <2>2. \A m \in 1..Len(new) : m > j => new[m].key # k
    <3> SUFFICES ASSUME NEW m \in 1..n, m > j PROVE s[m] # s[j]
      BY <1>4, <2>1
    <3>1. s[m] \in Nat /\ s[j] \in Nat
      <4>1. m \in 1..Len(s) /\ j \in 1..Len(s)
        BY <1>3, Zenon
      <4>2. s[m] \in K /\ s[j] \in K
        BY <1>1, <4>1
      <4> QED BY <4>2
    <3>2. m \in Int /\ j \in Int
      BY <1>3
    <3>3. s[j] < s[m]
      BY <1>2, <3>2
    <3> QED BY <3>1, <3>3
  <2>3. LastIndex(new, k) = j
    <3>1. j \in 1..Len(new) /\ new[j].key = k
      BY <1>4, <2>1
    <3> QED BY <1>1, <2>2, <3>1, LastUnique
  <2> QED BY <1>4, <2>1, <2>3 DEF ValidValue
<1> QED BY <1>5, <1>6 DEF new, S

\* The newest record of every key in the log has the value last has for it.
Newest(log, last) == \A k \in LogKeys(log) : ValidValue(log, k) = last[k]

\* The log c has the last values, and the keys of d and k.
Gains(c, d, k, last) == Newest(c, last) /\ LogKeys(c) = LogKeys(d) \cup {k}

\* A put appends to the newer of two logs.
LEMMA NewestAppended ==
    ASSUME NEW R, NEW a \in Seq(R), NEW b \in Seq(R), NEW r \in R,
           NEW last, NEW new, Newest(a \o b, last),
           new[r.key] = r.val,
           \A k \in LogKeys(a \o b) : k # r.key => new[k] = last[k]
    PROVE  Gains(a \o Append(b, r), a \o b, r.key, new)
<1>1. Append(b, r) \in Seq(R) /\ << r >> \in Seq(R) /\ Append(b, r) = b \o << r >>
  OBVIOUS
<1>2. /\ JoinedValues(a \o b, a, b) /\ JoinedValues(b \o << r >>, b, << r >>)
      /\ JoinedValues(a \o Append(b, r), a, Append(b, r))
  BY <1>1, NewerPartWins, Zenon
<1>3. LogKeys(<< r >>) = {r.key} /\ ValidValue(<< r >>, r.key) = r.val
  BY OneRecord
<1> DEFINE ab == a \o b
           one == << r >>
           bb == Append(b, r)
           abb == a \o bb
<1>4. /\ JoinedValues(ab, a, b) /\ JoinedValues(bb, b, one)
      /\ JoinedValues(abb, a, bb)
      /\ LogKeys(one) = {r.key} /\ ValidValue(one, r.key) = r.val
      /\ Newest(ab, last) /\ \A k \in LogKeys(ab) : k # r.key => new[k] = last[k]
  BY <1>1, <1>2, <1>3, Zenon
<1> HIDE DEF ab, one, bb, abb
<1>5. /\ LogKeys(bb) = LogKeys(b) \cup {r.key} /\ ValidValue(bb, r.key) = r.val
      /\ \A k \in LogKeys(b) : k # r.key => ValidValue(bb, k) = ValidValue(b, k)
  BY <1>4 DEF JoinedValues
<1>6. LogKeys(abb) = LogKeys(ab) \cup {r.key}
  BY <1>4, <1>5 DEF JoinedValues
<1>7. ASSUME NEW k \in LogKeys(abb) PROVE ValidValue(abb, k) = new[k]
  <2>1. CASE k = r.key
    BY <1>4, <1>5, <2>1 DEF JoinedValues
  <2>2. CASE k # r.key
    <3>1. k \in LogKeys(ab) /\ new[k] = ValidValue(ab, k)
      BY <1>4, <1>6, <2>2 DEF Newest
    <3>2. CASE k \in LogKeys(b)
      BY <1>4, <1>5, <2>2, <3>1, <3>2 DEF JoinedValues
    <3>3. CASE k \notin LogKeys(b)
      BY <1>4, <1>5, <2>2, <3>1, <3>3 DEF JoinedValues
    <3> QED BY <3>2, <3>3
  <2> QED BY <2>1, <2>2
<1> QED BY <1>6, <1>7 DEF Gains, Newest, bb, abb, ab

\* c in front of b has the last values, of the keys of b and the survivors of a.
Replaces(c, a, b, last) ==
    /\ Newest(c \o b, last)
    /\ LogKeys(c \o b) = Survivors(a) \cup LogKeys(b)

\* Taking over replaces the older of two logs by what was collected from it.
LEMMA NewestCollected ==
    ASSUME NEW K, K \subseteq Nat, IsFiniteSet(K), NEW V,
           NEW a \in Seq([key : K, val : V]), NEW b \in Seq([key : K, val : V]),
           NEW s \in SortedSeqs(Survivors(a)), NEW last, Newest(a \o b, last)
    PROVE  Replaces(Pairs(a, s), a, b, last)
<1> DEFINE R == [key : K, val : V]
           c == Pairs(a, s)
<1>1. /\ c \in Seq(R) /\ LogKeys(c) = Survivors(a)
      /\ \A k \in Survivors(a) : ValidValue(c, k) = ValidValue(a, k)
  <2>1. c \in Seq(R)
    BY CollectedRecords
  <2>2. /\ LogKeys(c) = Survivors(a)
        /\ \A k \in Survivors(a) : ValidValue(c, k) = ValidValue(a, k)
    BY CollectedValues
  <2> QED BY <2>1, <2>2
<1>2. a \in Seq(R) /\ b \in Seq(R)
  OBVIOUS
<1> HIDE DEF R, c
<1>3. JoinedValues(a \o b, a, b) /\ JoinedValues(c \o b, c, b)
  BY <1>1, <1>2, NewerPartWins, Zenon
<1>4. Survivors(a) \subseteq LogKeys(a)
  BY DEF Survivors
<1> DEFINE ab == a \o b
           cb == c \o b
<1> HIDE DEF ab, cb
<1>5. ASSUME NEW k \in LogKeys(cb) PROVE ValidValue(cb, k) = last[k]
  BY <1>1, <1>3, <1>4 DEF JoinedValues, Newest, ab, cb
<1> QED BY <1>1, <1>3, <1>5 DEF JoinedValues, Newest, Replaces, c, cb
-----------------------------------------------------------------------------
(***************************************************************************)
(* Every finite set of keys can be sorted, and in one way only: what a     *)
(* collection writes is always defined, and there is no choice in it.      *)
(***************************************************************************)
\* The largest key goes to the end.
LEMMA SortedExtended ==
    ASSUME NEW U, IsFiniteSet(U), U \subseteq Nat, NEW m \in U, \A u \in U : u <= m,
           NEW s \in SortedSeqs(U \ {m})
    PROVE  SortedSeqs(U) # {}
<1> DEFINE n == Cardinality(U \ {m})
<1>1. n \in Nat /\ Cardinality(U) = n + 1
  <2>1. IsFiniteSet(U \ {m}) /\ n = Cardinality(U) - 1
    BY FS_RemoveElement
  <2>2. Cardinality(U) \in Nat /\ n \in Nat
    BY <2>1, FS_CardinalityType
  <2> QED BY <2>1, <2>2
<1>2. /\ s \in [1..n -> U \ {m}]
      /\ \A k \in U \ {m} : \E j \in 1..n : s[j] = k
      /\ \A j, l \in 1..n : j < l => s[j] < s[l]
  BY DEF SortedSeqs
<1> DEFINE t == [j \in 1..(n + 1) |-> IF j \in 1..n THEN s[j] ELSE m]
<1> HIDE DEF n
<1>3. /\ \A j \in 1..(n + 1) : j \in 1..n \/ j = n + 1
      /\ \A j \in 1..n : j \in 1..(n + 1) /\ j # n + 1
      /\ n + 1 \in 1..(n + 1) /\ n + 1 \notin 1..n
  BY <1>1
<1>4. /\ t \in [1..(n + 1) -> U] /\ t[n + 1] = m
      /\ \A j \in 1..n : t[j] = s[j]
  BY <1>2, <1>3
<1> HIDE DEF t
<1>5. \A k \in U : \E j \in 1..(n + 1) : t[j] = k
  <2> SUFFICES ASSUME NEW k \in U PROVE \E j \in 1..(n + 1) : t[j] = k
    OBVIOUS
  <2>1. CASE k = m
    BY <1>3, <1>4, <2>1
  <2>2. CASE k # m
    <3>1. PICK j \in 1..n : s[j] = k
      BY <1>2, <2>2
    <3> QED BY <1>3, <1>4, <3>1
  <2> QED BY <2>1, <2>2
<1>6. \A j, l \in 1..(n + 1) : j < l => t[j] < t[l]
  <2> SUFFICES ASSUME NEW j \in 1..(n + 1), NEW l \in 1..(n + 1), j < l PROVE t[j] < t[l]
    OBVIOUS
  <2>1. j \in 1..n
    BY <1>1
  <2>2. CASE l \in 1..n
    BY <1>2, <1>4, <2>1, <2>2
  <2>3. CASE l = n + 1
    <3>1. s[j] \in U /\ s[j] # m /\ s[j] \in Nat /\ m \in Nat
      BY <1>2, <2>1
    <3>2. s[j] <= m
      BY <3>1
    <3>3. s[j] < m
      BY <3>1, <3>2
    <3> QED BY <1>4, <2>1, <2>3, <3>3
  <2> QED BY <1>3, <2>2, <2>3
<1>7. t \in SortedSeqs(U)
  <2>1. 1..Cardinality(U) = 1..(n + 1)
    BY <1>1
  <2> QED BY <1>4, <1>5, <1>6, <2>1, Zenon DEF SortedSeqs
<1> QED BY <1>7

LEMMA SortedExists ==
    ASSUME NEW S, IsFiniteSet(S), S \subseteq Nat
    PROVE  SortedSeqs(S) # {}
<1> DEFINE N == Cardinality(S)
           Sortable(n) == \A U \in SUBSET S : Cardinality(U) = n => SortedSeqs(U) # {}
           T == {n \in 1..(N + 1) : Sortable(n - 1)}
<1>1. N \in Nat
  BY FS_CardinalityType
<1>2. ASSUME NEW U \in SUBSET S
      PROVE  IsFiniteSet(U) /\ Cardinality(U) \in Nat /\ U \subseteq Nat
  BY FS_Subset, FS_CardinalityType
<1> HIDE DEF N
<1>3. Sortable(0)
  <2> SUFFICES ASSUME NEW U \in SUBSET S, Cardinality(U) = 0 PROVE SortedSeqs(U) # {}
    OBVIOUS
  <2>1. U = {}
    BY <1>2, FS_EmptySet
  <2>2. [j \in {} |-> j] \in [1..0 -> U] /\ 1..0 = {}
    OBVIOUS
  <2>3. [j \in {} |-> j] \in SortedSeqs(U)
    BY <2>1, <2>2 DEF SortedSeqs
  <2> QED BY <2>3
<1>4. ASSUME NEW n \in Nat, Sortable(n) PROVE Sortable(n + 1)
  <2> SUFFICES ASSUME NEW U \in SUBSET S, Cardinality(U) = n + 1 PROVE SortedSeqs(U) # {}
    OBVIOUS
  <2>1. U # {}
    BY <1>2, FS_EmptySet
  <2>2. ASSUME NEW e \in U
        PROVE  Cardinality(U \ {e}) = n /\ \E s : s \in SortedSeqs(U \ {e})
    <3>1. Cardinality(U \ {e}) = n
      BY <1>2, FS_RemoveElement
    <3>2. SortedSeqs(U \ {e}) # {}
      BY <1>4, <3>1
    <3> QED BY <3>1, <3>2
  <2>3. PICK m \in U : \A u \in U : u <= m
    <3>1. PICK e \in U : TRUE
      BY <2>1
    <3>2. PICK s \in SortedSeqs(U \ {e}) : TRUE
      BY <2>2
    <3>3. /\ s \in [1..n -> U \ {e}]
          /\ \A k \in U \ {e} : \E j \in 1..n : s[j] = k
          /\ \A j, l \in 1..n : j < l => s[j] < s[l]
      <4>1. Cardinality(U \ {e}) = n
        BY <2>2
      <4> QED BY <4>1 DEF SortedSeqs
    <3>4. CASE n = 0
      <4>1. U \ {e} = {}
        <5>1. 1..n = {}
          BY <3>4
        <5> QED BY <3>3, <5>1
      <4>2. \A u \in U : u = e /\ u \in Nat
        BY <1>2, <4>1
      <4> QED BY <4>2
    <3>5. CASE n # 0
      <4>1. n \in 1..n /\ s[n] \in U /\ s[n] \in Nat /\ e \in Nat
        <5>1. n \in 1..n
          BY <3>5
        <5>2. s[n] \in U /\ s[n] \in Nat /\ e \in Nat
          BY <1>2, <3>3, <5>1
        <5> QED BY <5>1, <5>2
      <4>2. ASSUME NEW k \in U \ {e} PROVE k <= s[n]
        <5>1. PICK j \in 1..n : s[j] = k
          BY <3>3
        <5>2. j < n \/ j = n
          OBVIOUS
        <5>3. k \in Nat
          BY <1>2
        <5>4. CASE j < n
          BY <3>3, <4>1, <5>1, <5>3, <5>4
        <5>5. CASE j = n
          BY <4>1, <5>1, <5>5
        <5> QED BY <5>2, <5>4, <5>5
      <4>3. CASE e <= s[n]
        <5>1. \A u \in U : u <= s[n]
          BY <4>2, <4>3
        <5> QED BY <4>1, <5>1
      <4>4. CASE s[n] <= e
        <5>1. ASSUME NEW u \in U PROVE u <= e
          <6>1. u \in Nat
            BY <1>2
          <6>2. CASE u = e
            BY <6>1, <6>2
          <6>3. CASE u # e
            BY <4>1, <4>2, <4>4, <6>1, <6>3
          <6> QED BY <6>2, <6>3
        <5> QED BY <5>1
      <4> QED BY <4>1, <4>3, <4>4
    <3> QED BY <3>4, <3>5
  <2>4. PICK s \in SortedSeqs(U \ {m}) : TRUE
    BY <2>2
  <2> QED BY <1>2, <2>3, SortedExtended
<1> HIDE DEF Sortable
<1>5. PICK c \in T : \A d \in T : d <= c
  <2>1. 1 \in T
    BY <1>1, <1>3
  <2>2. T \in SUBSET (1..(N + 1)) /\ N + 1 \in Nat
    BY <1>1
  <2> HIDE DEF T
  <2> QED BY <2>1, <2>2, LargestElement
<1>6. c = N + 1
  <2> SUFFICES ASSUME c # N + 1 PROVE FALSE
    OBVIOUS
  <2>1. c - 1 \in Nat /\ c + 1 \in 1..(N + 1) /\ (c - 1) + 1 = (c + 1) - 1 /\ ~(c + 1 <= c)
    BY <1>1
  <2>2. Sortable((c - 1) + 1)
    BY <1>4, <2>1
  <2>3. c + 1 \in T
    BY <2>1, <2>2
  <2> HIDE DEF T
  <2> QED BY <1>5, <2>1, <2>3
<1>7. Sortable(N)
  <2>1. (N + 1) - 1 = N
    BY <1>1
  <2> QED BY <1>6, <2>1
<1> QED BY <1>7 DEF Sortable, N

\* s lists the n numbers of S in ascending order.
Sorts(s, S, n) ==
    /\ s \in [1..n -> S]
    /\ \A k \in S : \E j \in 1..n : s[j] = k
    /\ \A j, l \in 1..n : j < l => s[j] < s[l]

\* One of two sequences of distinct numbers in ascending order cannot have a
\* smaller number where they first differ, since the other one has it, too.
LEMMA NoSmaller ==
    ASSUME NEW n \in Nat, NEW S \in SUBSET Nat, NEW s, NEW t,
           Sorts(s, S, n), Sorts(t, S, n),
           NEW c \in 1..n, \A j \in 1..n : j < c => s[j] = t[j]
    PROVE  ~(s[c] < t[c])
<1> USE DEF Sorts
<1> SUFFICES ASSUME s[c] < t[c] PROVE FALSE
  OBVIOUS
<1>1. PICK q \in 1..n : t[q] = s[c]
  OBVIOUS
<1>2. \A j \in 1..n : s[j] \in Nat /\ t[j] \in Nat
  OBVIOUS
<1>3. CASE q < c
  <2>1. s[q] < s[c] /\ s[q] = t[q]
    BY <1>3
  <2> QED BY <1>1, <1>2, <2>1
<1>4. CASE q = c
  BY <1>1, <1>2, <1>4
<1>5. CASE c < q
  <2>1. t[c] < t[q]
    BY <1>5
  <2> QED BY <1>1, <1>2, <2>1
<1>6. q < c \/ q = c \/ c < q
  OBVIOUS
<1> QED BY <1>3, <1>4, <1>5, <1>6

\* There is one way to sort.
LEMMA SortedUnique ==
    ASSUME NEW S, IsFiniteSet(S), S \subseteq Nat,
           NEW s \in SortedSeqs(S), NEW t \in SortedSeqs(S)
    PROVE  s = t
<1> DEFINE n == Cardinality(S)
           T == {c \in 1..(n + 1) : \A j \in 1..n : j < c => s[j] = t[j]}
<1>1. n \in Nat
  BY FS_CardinalityType
<1>2. Sorts(s, S, n) /\ Sorts(t, S, n)
  BY DEF SortedSeqs, Sorts
<1> HIDE DEF n
<1>3. PICK c \in T : \A d \in T : d <= c
  <2>1. 1 \in T
    BY <1>1
  <2>2. T \in SUBSET (1..(n + 1)) /\ n + 1 \in Nat
    BY <1>1
  <2> HIDE DEF T
  <2> QED BY <2>1, <2>2, LargestElement
<1>4. c = n + 1
  <2> SUFFICES ASSUME c # n + 1 PROVE FALSE
    OBVIOUS
  <2>1. c \in 1..n /\ c + 1 \in 1..(n + 1) /\ ~(c + 1 <= c)
    BY <1>1
  <2>2. \A j \in 1..n : j < c => s[j] = t[j]
    OBVIOUS
  <2>3. S \in SUBSET Nat
    OBVIOUS
  <2> HIDE DEF T
  <2>4. ~(s[c] < t[c]) /\ ~(t[c] < s[c])
    <3>1. ~(s[c] < t[c])
      BY <1>1, <1>2, <2>1, <2>2, <2>3, NoSmaller
    <3>2. \A j \in 1..n : j < c => t[j] = s[j]
      BY <2>2
    <3>3. ~(t[c] < s[c])
      BY <1>1, <1>2, <2>1, <2>3, <3>2, NoSmaller
    <3> QED BY <3>1, <3>3
  <2>5. s[c] \in Nat /\ t[c] \in Nat
    BY <1>2, <2>1 DEF Sorts
  <2>6. s[c] = t[c]
    BY <2>4, <2>5
  <2>7. \A j \in 1..n : j < c + 1 => j < c \/ j = c
    BY <2>1
  <2>8. c + 1 \in T
    BY <2>1, <2>2, <2>6, <2>7 DEF T
  <2> QED BY <1>3, <2>1, <2>8
<1>5. \A j \in 1..n : s[j] = t[j]
  <2>1. \A j \in 1..n : j < n + 1
    BY <1>1
  <2> QED BY <1>4, <2>1
<1>6. s = [j \in 1..n |-> s[j]] /\ t = [j \in 1..n |-> t[j]]
  BY <1>2 DEF Sorts
<1> QED BY <1>5, <1>6

\* A collection of a log can be written, and is no longer than the log.
LEMMA CollectionFits ==
    ASSUME NEW K, K \subseteq Nat, IsFiniteSet(K), NEW V,
           NEW log \in Seq([key : K, val : V])
    PROVE  /\ SortedSeqs(Survivors(log)) # {}
           /\ \A s \in SortedSeqs(Survivors(log)) :
                 Len(Pairs(log, s)) \in Nat /\ Len(Pairs(log, s)) <= Len(log)
<1> DEFINE S == Survivors(log)
           R == [key : K, val : V]
           f == [j \in 1..Len(log) |-> log[j].key]
<1>1. /\ DOMAIN log = 1..Len(log) /\ Len(log) \in Nat
      /\ \A j \in 1..Len(log) : log[j] \in R
  <2>1. log \in Seq(R)
    OBVIOUS
  <2> HIDE DEF R
  <2> QED BY <2>1
<1>2. S \subseteq LogKeys(log) /\ LogKeys(log) \subseteq K
  BY <1>1 DEF Survivors, LogKeys
<1>3. Cardinality(LogKeys(log)) <= Len(log)
  <2>1. f \in Surjection(1..Len(log), LogKeys(log))
    BY <1>1 DEF Surjection, LogKeys
  <2>2. ExistsSurjection(1..Len(log), LogKeys(log))
    BY <2>1 DEF ExistsSurjection
  <2> QED BY <1>1, <2>2, FS_SurjCardinalityBound
<1>4. /\ IsFiniteSet(S) /\ Cardinality(S) \in Nat /\ Cardinality(LogKeys(log)) \in Nat
      /\ Cardinality(S) <= Cardinality(LogKeys(log))
  <2>1. IsFiniteSet(LogKeys(log))
    BY <1>2, FS_Subset
  <2>2. IsFiniteSet(S) /\ Cardinality(S) <= Cardinality(LogKeys(log))
    BY <1>2, <2>1, FS_Subset
  <2> QED BY <2>1, <2>2, FS_CardinalityType
<1>5. SortedSeqs(S) # {}
  <2>1. S \subseteq Nat
    BY <1>2
  <2> HIDE DEF S
  <2> QED BY <1>4, <2>1, SortedExists
<1>6. ASSUME NEW s \in SortedSeqs(S)
      PROVE  Len(Pairs(log, s)) \in Nat /\ Len(Pairs(log, s)) <= Len(log)
  <2>1. s \in Seq(K) /\ Pairs(log, s) \in Seq(R)
    BY CollectedRecords
  <2>2. s \in [1..Cardinality(S) -> S]
    BY DEF SortedSeqs
  <2>3. Len(s) = Cardinality(S)
    <3> HIDE DEF S
    <3> QED BY <1>4, <2>1, <2>2
  <2>4. Len(Pairs(log, s)) = Len(s) /\ Len(s) \in Nat
    <3>1. DOMAIN Pairs(log, s) = 1..Len(s)
      BY DEF Pairs
    <3> HIDE DEF R
    <3> QED BY <2>1, <3>1
  <2> HIDE DEF S
  <2> QED BY <1>1, <1>3, <1>4, <2>3, <2>4
<1> QED BY <1>5, <1>6
=============================================================================
