----------------------------- MODULE ScanProofs -----------------------------
(***************************************************************************)
(* Proofs about scan, for all keys, values, capacities and ranges: the     *)
(* merge, the part of the log that is read, and what a scan returns.       *)
(***************************************************************************)
EXTENDS Scan, LearnedKVProofs

-----------------------------------------------------------------------------
(***************************************************************************)
(* mergeKeyValueVectors, on sequences s and t of which i and j entries     *)
(* went to out.                                                            *)
(***************************************************************************)
\* What is left of t lies above s.
Above(s, t, j) == \A a \in 1..Len(s), b \in (j + 1)..Len(t) : s[a].key < t[b].key

\* out holds entries of s, and entries of t whose keys are not in s.
Origin(out, s, t) ==
    \A e \in Entries(out) :
        e \in Entries(s) \/ (e \in Entries(t) /\ e.key \notin EntryKeys(s))

Merging(out, s, i, t, j) ==
    /\ Ascending(out) /\ Above(out, s, i) /\ Above(out, t, j)
    /\ Origin(out, s, t)
    /\ \A m \in 1..i : s[m].key \in EntryKeys(out)
    /\ \A m \in 1..j : t[m].key \in EntryKeys(out)

Merged(out, s, t) ==
    /\ Ascending(out) /\ Origin(out, s, t)
    /\ EntryKeys(s) \cup EntryKeys(t) \subseteq EntryKeys(out)

LEMMA EntryIs ==
    ASSUME NEW s \in Seq(Entry)
    PROVE  /\ Len(s) \in Nat /\ DOMAIN s = 1..Len(s)
           /\ \A a \in 1..Len(s) : /\ s[a] \in Entry /\ s[a].key \in Nat
                                   /\ s[a] \in Entries(s) /\ s[a].key \in EntryKeys(s)
<1>1. \A e \in Entry : e.key \in Nat
  <2>1. Keys \cup {KeyZero} \subseteq Nat
    BY KeysAssumption DEF KeyZero
  <2> QED BY <2>1 DEF Entry
<1> HIDE DEF Entry
<1>2. Len(s) \in Nat /\ DOMAIN s = 1..Len(s) /\ \A a \in 1..Len(s) : s[a] \in Entry
  OBVIOUS
<1> QED BY <1>1, <1>2 DEF Entries, EntryKeys

LEMMA AppendEntry ==
    ASSUME NEW s \in Seq(Entry), NEW e \in Entry
    PROVE  /\ Append(s, e) \in Seq(Entry) /\ Len(Append(s, e)) = Len(s) + 1
           /\ \A a \in 1..Len(s) : Append(s, e)[a] = s[a]
           /\ Append(s, e)[Len(s) + 1] = e
           /\ Entries(Append(s, e)) = Entries(s) \cup {e}
           /\ EntryKeys(Append(s, e)) = EntryKeys(s) \cup {e.key}
<1> DEFINE t == Append(s, e)
<1> HIDE DEF Entry
<1>1. /\ t \in Seq(Entry) /\ Len(t) = Len(s) + 1 /\ Len(s) \in Nat
      /\ \A a \in 1..Len(s) : t[a] = s[a]
      /\ t[Len(s) + 1] = e /\ DOMAIN t = 1..(Len(s) + 1) /\ DOMAIN s = 1..Len(s)
  OBVIOUS
<1> HIDE DEF t
<1>2. \A a \in 1..(Len(s) + 1) : a = Len(s) + 1 \/ a \in 1..Len(s)
  BY <1>1
<1>3. Len(s) + 1 \in DOMAIN t /\ \A a \in 1..Len(s) : a \in DOMAIN t
  BY <1>1
<1>4. Entries(t) = Entries(s) \cup {e}
  BY <1>1, <1>2, <1>3 DEF Entries
<1>5. EntryKeys(t) = EntryKeys(s) \cup {e.key}
  BY <1>1, <1>2, <1>3 DEF EntryKeys
<1> QED BY <1>1, <1>4, <1>5 DEF t

\* An ascending sequence below e stays ascending when e is appended.
LEMMA AppendAscending ==
    ASSUME NEW s \in Seq(Entry), NEW e \in Entry, Ascending(s),
           \A a \in 1..Len(s) : s[a].key < e.key
    PROVE  Ascending(Append(s, e))
<1> DEFINE t == Append(s, e)
<1>1. /\ t \in Seq(Entry) /\ Len(t) = Len(s) + 1 /\ t[Len(s) + 1] = e
      /\ \A a \in 1..Len(s) : t[a] = s[a]
  BY AppendEntry
<1>2. Len(s) \in Nat /\ DOMAIN s = 1..Len(s) /\ DOMAIN t = 1..(Len(s) + 1)
  BY <1>1, EntryIs
<1> HIDE DEF t
<1>3. ASSUME NEW a \in 1..(Len(s) + 1), NEW b \in 1..(Len(s) + 1), a < b
      PROVE  t[a].key < t[b].key
  <2>1. a \in 1..Len(s)
    BY <1>2, <1>3
  <2>2. CASE b \in 1..Len(s)
    BY <1>1, <1>2, <1>3, <2>1, <2>2 DEF Ascending
  <2>3. CASE b = Len(s) + 1
    BY <1>1, <2>1, <2>3
  <2> QED BY <1>2, <2>2, <2>3
<1>4. Ascending(t)
  BY <1>2, <1>3 DEF Ascending
<1> QED BY <1>4 DEF t

LEMMA MergeStarts ==
    ASSUME NEW s \in Seq(Entry), NEW t \in Seq(Entry)
    PROVE  Merging(<< >>, s, 0, t, 0)
<1>1. Entries(<< >>) = {} /\ Len(<< >>) = 0 /\ DOMAIN << >> = {}
  BY DEF Entries
<1> QED BY <1>1 DEF Merging, Ascending, Above, Origin

\* Taking e, the smaller of the two next entries, or that of s if they are equal.
LEMMA MergeTakes ==
    ASSUME NEW s \in Seq(Entry), NEW t \in Seq(Entry), NEW out \in Seq(Entry),
           Ascending(s), Ascending(t),
           NEW i \in 0..Len(s), NEW j \in 0..Len(t), i < Len(s), j < Len(t),
           Merging(out, s, i, t, j),
           NEW i2 \in 0..Len(s), NEW j2 \in 0..Len(t), NEW e \in Entry,
           e = IF s[i + 1].key <= t[j + 1].key THEN s[i + 1] ELSE t[j + 1],
           i2 = IF s[i + 1].key <= t[j + 1].key THEN i + 1 ELSE i,
           j2 = IF t[j + 1].key <= s[i + 1].key THEN j + 1 ELSE j
    PROVE  Merging(Append(out, e), s, i2, t, j2)
<1> DEFINE new == Append(out, e)
<1>1. /\ new \in Seq(Entry) /\ Len(new) = Len(out) + 1 /\ new[Len(out) + 1] = e
      /\ \A a \in 1..Len(out) : new[a] = out[a]
      /\ Entries(new) = Entries(out) \cup {e}
      /\ EntryKeys(new) = EntryKeys(out) \cup {e.key}
  BY AppendEntry
<1>2. /\ Len(s) \in Nat /\ Len(t) \in Nat /\ Len(out) \in Nat
      /\ DOMAIN s = 1..Len(s) /\ DOMAIN t = 1..Len(t) /\ DOMAIN out = 1..Len(out)
      /\ \A a \in 1..Len(s) : s[a].key \in Nat /\ s[a] \in Entries(s) /\ s[a].key \in EntryKeys(s)
      /\ \A a \in 1..Len(t) : t[a].key \in Nat /\ t[a] \in Entries(t)
      /\ \A a \in 1..Len(out) : out[a].key \in Nat
  BY EntryIs
<1>3. i + 1 \in 1..Len(s) /\ j + 1 \in 1..Len(t) /\ i \in Nat /\ j \in Nat
      /\ i + 1 \in (i + 1)..Len(s) /\ j + 1 \in (j + 1)..Len(t)
  BY <1>2
<1>4. /\ \A b \in (i + 1)..Len(s) : b \in 1..Len(s) /\ (b = i + 1 \/ i + 1 < b)
      /\ \A b \in (j + 1)..Len(t) : b \in 1..Len(t) /\ (b = j + 1 \/ j + 1 < b)
  BY <1>2, <1>3
<1>5. /\ \A b \in (i + 1)..Len(s) : s[i + 1].key <= s[b].key
      /\ \A b \in (j + 1)..Len(t) : t[j + 1].key <= t[b].key
  <2>1. ASSUME NEW b \in (i + 1)..Len(s) PROVE s[i + 1].key <= s[b].key
    <3>1. b \in 1..Len(s) /\ s[b].key \in Nat /\ s[i + 1].key \in Nat
      BY <1>2, <1>3, <1>4
    <3>2. CASE i + 1 < b
      <4>1. s[i + 1].key < s[b].key
        BY <1>2, <1>3, <3>1, <3>2 DEF Ascending
      <4> QED BY <3>1, <4>1, SMTT(60)
    <3>3. CASE b = i + 1
      BY <3>1, <3>3
    <3>4. b = i + 1 \/ i + 1 < b
      BY <1>4
    <3> QED BY <3>2, <3>3, <3>4
  <2>2. ASSUME NEW b \in (j + 1)..Len(t) PROVE t[j + 1].key <= t[b].key
    <3>1. b \in 1..Len(t) /\ t[b].key \in Nat /\ t[j + 1].key \in Nat
      BY <1>2, <1>3, <1>4
    <3>2. CASE j + 1 < b
      <4>1. t[j + 1].key < t[b].key
        BY <1>2, <1>3, <3>1, <3>2 DEF Ascending
      <4> QED BY <3>1, <4>1, SMTT(60)
    <3>3. CASE b = j + 1
      BY <3>1, <3>3
    <3>4. b = j + 1 \/ j + 1 < b
      BY <1>4
    <3> QED BY <3>2, <3>3, <3>4
  <2> QED BY <2>1, <2>2
<1>6. \A b \in (i2 + 1)..Len(s) : b \in (i + 1)..Len(s) /\ e.key < s[b].key
  <2> SUFFICES ASSUME NEW b \in (i2 + 1)..Len(s)
               PROVE  b \in (i + 1)..Len(s) /\ e.key < s[b].key
    OBVIOUS
  <2>1. CASE s[i + 1].key <= t[j + 1].key
    <3>1. i2 = i + 1 /\ e = s[i + 1]
      BY <2>1
    <3>2. b \in 1..Len(s) /\ i + 1 < b /\ b \in (i + 1)..Len(s)
      BY <1>2, <1>3, <3>1
    <3> QED BY <1>2, <1>3, <3>1, <3>2 DEF Ascending
  <2>2. CASE ~(s[i + 1].key <= t[j + 1].key)
    <3>1. i2 = i /\ e = t[j + 1]
      BY <2>2
    <3>2. t[j + 1].key < s[i + 1].key /\ s[i + 1].key <= s[b].key /\ b \in 1..Len(s)
      BY <1>2, <1>3, <1>4, <1>5, <2>2, <3>1
    <3> QED BY <1>2, <1>3, <3>1, <3>2
  <2> QED BY <2>1, <2>2
<1>7. \A b \in (j2 + 1)..Len(t) : b \in (j + 1)..Len(t) /\ e.key < t[b].key
  <2> SUFFICES ASSUME NEW b \in (j2 + 1)..Len(t)
               PROVE  b \in (j + 1)..Len(t) /\ e.key < t[b].key
    OBVIOUS
  <2>1. CASE t[j + 1].key <= s[i + 1].key
    <3>1. j2 = j + 1 /\ e.key = t[j + 1].key
      BY <1>2, <1>3, <2>1
    <3>2. b \in 1..Len(t) /\ j + 1 < b /\ b \in (j + 1)..Len(t)
      BY <1>2, <1>3, <3>1
    <3> QED BY <1>2, <1>3, <3>1, <3>2 DEF Ascending
  <2>2. CASE ~(t[j + 1].key <= s[i + 1].key)
    <3>1. j2 = j /\ e = s[i + 1]
      BY <1>2, <1>3, <2>2
    <3>2. s[i + 1].key < t[j + 1].key /\ t[j + 1].key <= t[b].key /\ b \in 1..Len(t)
      BY <1>2, <1>3, <1>4, <1>5, <2>2, <3>1
    <3> QED BY <1>2, <1>3, <3>1, <3>2
  <2> QED BY <2>1, <2>2
<1>8. \A a \in 1..Len(out) : out[a].key < s[i + 1].key /\ out[a].key < t[j + 1].key
  BY <1>3 DEF Merging, Above
<1>9. \A a \in 1..Len(out) : out[a].key < e.key
  BY <1>8
<1>10. Ascending(new)
  BY <1>9, AppendAscending DEF Merging
<1>11. \A a \in 1..Len(new) : a = Len(out) + 1 \/ a \in 1..Len(out)
  BY <1>1, <1>2
<1> HIDE DEF new
<1>12. Above(new, s, i2) /\ Above(new, t, j2)
  <2>1. ASSUME NEW a \in 1..Len(new), NEW b \in (i2 + 1)..Len(s) PROVE new[a].key < s[b].key
    <3>1. CASE a = Len(out) + 1
      BY <1>1, <1>6, <3>1
    <3>2. CASE a \in 1..Len(out)
      BY <1>1, <1>6, <3>2 DEF Merging, Above
    <3> QED BY <1>11, <3>1, <3>2
  <2>2. ASSUME NEW a \in 1..Len(new), NEW b \in (j2 + 1)..Len(t) PROVE new[a].key < t[b].key
    <3>1. CASE a = Len(out) + 1
      BY <1>1, <1>7, <3>1
    <3>2. CASE a \in 1..Len(out)
      BY <1>1, <1>7, <3>2 DEF Merging, Above
    <3> QED BY <1>11, <3>1, <3>2
  <2> QED BY <2>1, <2>2 DEF Above
<1>13. Origin(new, s, t)
  <2>1. e \in Entries(s) \/ (e \in Entries(t) /\ e.key \notin EntryKeys(s))
    <3>1. CASE s[i + 1].key <= t[j + 1].key
      BY <1>2, <1>3, <3>1
    <3>2. CASE ~(s[i + 1].key <= t[j + 1].key)
      <4>1. e = t[j + 1] /\ e \in Entries(t) /\ t[j + 1].key < s[i + 1].key
        BY <1>2, <1>3, <3>2
      <4>2. ASSUME NEW m \in 1..Len(s) PROVE s[m].key # t[j + 1].key
        <5>1. CASE m \in 1..i
          <6>1. PICK a \in 1..Len(out) : s[m].key = out[a].key
            BY <1>2, <5>1 DEF Merging, EntryKeys
          <6> QED BY <1>2, <1>3, <1>8, <6>1
        <5>2. CASE m \in (i + 1)..Len(s)
          BY <1>2, <1>3, <1>5, <4>1, <5>2
        <5> QED BY <1>2, <1>3, <5>1, <5>2
      <4> QED BY <1>2, <4>1, <4>2 DEF EntryKeys
    <3> QED BY <3>1, <3>2
  <2> QED BY <1>1, <2>1 DEF Merging, Origin
<1>14. \A m \in 1..i2 : s[m].key \in EntryKeys(new)
  <2> TAKE m \in 1..i2
  <2>1. CASE m \in 1..i
    BY <1>1, <2>1 DEF Merging
  <2>2. CASE m = i + 1 /\ s[i + 1].key <= t[j + 1].key
    BY <1>1, <2>2
  <2> QED BY <1>2, <1>3, <2>1, <2>2
<1>15. \A m \in 1..j2 : t[m].key \in EntryKeys(new)
  <2> TAKE m \in 1..j2
  <2>1. CASE m \in 1..j
    BY <1>1, <2>1 DEF Merging
  <2>2. CASE m = j + 1 /\ t[j + 1].key <= s[i + 1].key
    <3>1. e.key = t[j + 1].key
      BY <1>2, <1>3, <2>2
    <3> QED BY <1>1, <2>2, <3>1
  <2> QED BY <1>2, <1>3, <2>1, <2>2
<1>16. Merging(new, s, i2, t, j2)
  BY <1>10, <1>12, <1>13, <1>14, <1>15 DEF Merging
<1> QED BY <1>16 DEF new

LEMMA RestBounds ==
    ASSUME NEW n \in Nat, NEW i \in 0..n
    PROVE  /\ \A b \in (i + 1)..n : b \in 1..n
           /\ \A m \in 1..n : m \in 1..i \/ m \in (i + 1)..n
OBVIOUS

\* r is out followed by rest.
Concatenated(r, out, rest) ==
    /\ r \in Seq(Entry) /\ Len(r) = Len(out) + Len(rest)
    /\ \A a \in 1..Len(out) : r[a] = out[a]
    /\ \A a \in 1..Len(rest) : r[Len(out) + a] = rest[a]

LEMMA Concatenation ==
    ASSUME NEW out \in Seq(Entry), NEW rest \in Seq(Entry)
    PROVE  Concatenated(out \o rest, out, rest)
<1> HIDE DEF Entry
<1> QED BY DEF Concatenated

LEMMA RestIs ==
    ASSUME NEW s \in Seq(Entry), NEW i \in 0..Len(s), NEW rest, rest = SubSeq(s, i + 1, Len(s))
    PROVE  /\ rest \in Seq(Entry) /\ Len(rest) = Len(s) - i
           /\ \A a \in 1..(Len(s) - i) : rest[a] = s[a + i] /\ a + i \in (i + 1)..Len(s)
<1>1. Len(s) \in Nat /\ i \in Nat /\ DOMAIN s = 1..Len(s)
  BY EntryIs
<1> HIDE DEF Entry
<1>2. rest = [a \in 1..(Len(s) - i) |-> s[a + i]]
  <2>1. \A a \in 1..(Len(s) - i) : i + 1 + a - 1 = a + i
    BY <1>1
  <2>2. Len(s) - (i + 1) + 1 = Len(s) - i
    BY <1>1
  <2> QED BY <1>1, <2>1, <2>2
<1>3. \A a \in 1..(Len(s) - i) : a + i \in (i + 1)..Len(s) /\ s[a + i] \in Entry
  BY <1>1
<1>4. Len(s) - i \in Nat
  BY <1>1
<1> QED BY <1>2, <1>3, <1>4

\* r holds the entries of out and those of s behind position i.
Joined(r, out, s, i) ==
    /\ r \in Seq(Entry) /\ Ascending(r)
    /\ Entries(r) = Entries(out) \cup {s[b] : b \in (i + 1)..Len(s)}
    /\ EntryKeys(r) = EntryKeys(out) \cup {s[b].key : b \in (i + 1)..Len(s)}

\* The rest of s behind an ascending sequence below it.
LEMMA JoinRest ==
    ASSUME NEW out \in Seq(Entry), NEW s \in Seq(Entry), NEW i \in 0..Len(s),
           Ascending(out), Ascending(s), Above(out, s, i),
           NEW r, r = out \o SubSeq(s, i + 1, Len(s))
    PROVE  Joined(r, out, s, i)
<1> DEFINE rest == SubSeq(s, i + 1, Len(s))
           n == Len(out)
<1>1. /\ Len(s) \in Nat /\ n \in Nat /\ DOMAIN s = 1..Len(s) /\ DOMAIN out = 1..n
      /\ i \in Nat /\ \A a \in 1..n : out[a] \in Entry
  BY EntryIs
<1> HIDE DEF Entry
<1>2. \A b \in (i + 1)..Len(s) : b \in 1..Len(s) /\ b - i \in 1..(Len(s) - i)
  BY <1>1
<1>3. /\ rest \in Seq(Entry) /\ Len(rest) = Len(s) - i
      /\ \A a \in 1..(Len(s) - i) : rest[a] = s[a + i] /\ a + i \in (i + 1)..Len(s)
  BY RestIs
<1> HIDE DEF rest
<1>4. /\ r \in Seq(Entry) /\ Len(r) = n + (Len(s) - i) /\ DOMAIN r = 1..Len(r)
      /\ \A a \in 1..n : r[a] = out[a] /\ a \in 1..Len(r)
      /\ \A a \in (n + 1)..Len(r) :
            /\ r[a] = s[a - n + i] /\ a - n + i \in (i + 1)..Len(s)
            /\ a - n + i \in 1..Len(s)
  <2>1. r = out \o rest
    BY DEF rest
  <2>2. /\ r \in Seq(Entry) /\ Len(r) = n + (Len(s) - i) /\ DOMAIN r = 1..Len(r)
        /\ \A a \in 1..n : r[a] = out[a]
        /\ \A a \in 1..(Len(s) - i) : r[n + a] = rest[a]
    <3>1. /\ r \in Seq(Entry) /\ Len(r) = n + Len(rest)
          /\ \A a \in 1..n : r[a] = out[a]
          /\ \A a \in 1..Len(rest) : r[n + a] = rest[a]
      <4>1. Concatenated(out \o rest, out, rest)
        BY <1>3, Concatenation, Zenon
      <4> QED BY <2>1, <4>1 DEF Concatenated
    <3>2. DOMAIN r = 1..Len(r)
      BY <3>1, EntryIs, Zenon
    <3> QED BY <1>3, <3>1, <3>2
  <2>3. \A a \in (n + 1)..(n + (Len(s) - i)) : a - n \in 1..(Len(s) - i) /\ n + (a - n) = a
    BY <1>1
  <2>4. \A a \in 1..n : a \in 1..(n + (Len(s) - i))
    BY <1>1
  <2>5. ASSUME NEW a \in (n + 1)..Len(r)
        PROVE  r[a] = s[a - n + i] /\ a - n + i \in (i + 1)..Len(s) /\ a - n + i \in 1..Len(s)
    <3>1. a - n \in 1..(Len(s) - i) /\ n + (a - n) = a
      BY <2>2, <2>3
    <3>2. r[a] = rest[a - n]
      BY <2>2, <3>1
    <3>3. rest[a - n] = s[a - n + i] /\ a - n + i \in (i + 1)..Len(s)
      BY <1>3, <3>1
    <3> QED BY <1>2, <3>2, <3>3
  <2> QED BY <2>2, <2>4, <2>5
<1>5. \A a \in 1..Len(r) : a \in 1..n \/ a \in (n + 1)..Len(r)
  BY <1>1, <1>4
<1>6. \A b \in (i + 1)..Len(s) : /\ b + n - i \in (n + 1)..Len(r) /\ b + n - i \in 1..Len(r)
                                 /\ b + n - i - n + i = b
  BY <1>1, <1>4
<1>7. \A b \in (i + 1)..Len(s) : r[b + n - i] = s[b]
  <2> TAKE b \in (i + 1)..Len(s)
  <2>1. r[b + n - i] = s[(b + n - i) - n + i] /\ (b + n - i) - n + i = b
    BY <1>4, <1>6
  <2> QED BY <2>1
<1>8. Ascending(r)
  <2>1. ASSUME NEW a \in 1..Len(r), NEW b \in 1..Len(r), a < b PROVE r[a].key < r[b].key
    <3>1. CASE a \in 1..n /\ b \in 1..n
      BY <1>1, <1>4, <2>1, <3>1 DEF Ascending
    <3>2. CASE a \in 1..n /\ b \in (n + 1)..Len(r)
      BY <1>4, <3>2 DEF Above
    <3>3. CASE a \in (n + 1)..Len(r) /\ b \in (n + 1)..Len(r)
      <4>1. a - n + i < b - n + i
        BY <1>1, <2>1
      <4>2. a - n + i \in DOMAIN s /\ b - n + i \in DOMAIN s
        BY <1>1, <1>4, <3>3
      <4>3. s[a - n + i].key < s[b - n + i].key
        BY <4>1, <4>2, Zenon DEF Ascending
      <4> QED BY <1>4, <3>3, <4>3
    <3> QED BY <1>1, <1>5, <2>1, <3>1, <3>2, <3>3, SMTT(60)
  <2> QED BY <1>4, <2>1 DEF Ascending
<1>9. Entries(r) = Entries(out) \cup {s[b] : b \in (i + 1)..Len(s)}
  <2> DEFINE more == {s[b] : b \in (i + 1)..Len(s)}
  <2>1. ASSUME NEW a \in 1..Len(r) PROVE r[a] \in Entries(out) \cup more
    <3>1. CASE a \in 1..n
      BY <1>1, <1>4, <3>1 DEF Entries
    <3>2. CASE a \in (n + 1)..Len(r)
      BY <1>4, <3>2
    <3> QED BY <1>5, <3>1, <3>2
  <2>2. \A a \in 1..n : out[a] \in Entries(r)
    BY <1>4 DEF Entries
  <2>3. ASSUME NEW b \in (i + 1)..Len(s) PROVE s[b] \in Entries(r)
    <3>1. s[b] = r[b + n - i] /\ b + n - i \in DOMAIN r
      BY <1>4, <1>6, <1>7
    <3> QED BY <3>1 DEF Entries
  <2>4. Entries(r) \subseteq Entries(out) \cup more
    BY <1>4, <2>1, SMTT(60) DEF Entries
  <2>5. Entries(out) \subseteq Entries(r)
    BY <1>1, <2>2 DEF Entries
  <2> QED BY <2>3, <2>4, <2>5
<1>10. EntryKeys(r) = EntryKeys(out) \cup {s[b].key : b \in (i + 1)..Len(s)}
  <2> DEFINE more == {s[b].key : b \in (i + 1)..Len(s)}
  <2>1. ASSUME NEW a \in 1..Len(r) PROVE r[a].key \in EntryKeys(out) \cup more
    <3>1. CASE a \in 1..n
      BY <1>1, <1>4, <3>1 DEF EntryKeys
    <3>2. CASE a \in (n + 1)..Len(r)
      BY <1>4, <3>2
    <3> QED BY <1>5, <3>1, <3>2
  <2>2. \A a \in 1..n : out[a].key \in EntryKeys(r)
    BY <1>4 DEF EntryKeys
  <2>3. ASSUME NEW b \in (i + 1)..Len(s) PROVE s[b].key \in EntryKeys(r)
    <3>1. s[b] = r[b + n - i] /\ b + n - i \in DOMAIN r
      BY <1>4, <1>6, <1>7
    <3> QED BY <3>1 DEF EntryKeys
  <2>4. EntryKeys(r) \subseteq EntryKeys(out) \cup more
    BY <1>4, <2>1, SMTT(60) DEF EntryKeys
  <2>5. EntryKeys(out) \subseteq EntryKeys(r)
    BY <1>1, <2>2 DEF EntryKeys
  <2> QED BY <2>3, <2>4, <2>5
<1> QED BY <1>4, <1>8, <1>9, <1>10 DEF Joined

\* What mergeKeyValueVectors returns when one of the lists is used up.
LEMMA MergeFinishes ==
    ASSUME NEW s \in Seq(Entry), NEW t \in Seq(Entry), NEW out \in Seq(Entry),
           Ascending(s), Ascending(t),
           NEW i \in 0..Len(s), NEW j \in 0..Len(t), i = Len(s) \/ j = Len(t),
           Merging(out, s, i, t, j),
           NEW r, r = out \o SubSeq(s, i + 1, Len(s)) \o SubSeq(t, j + 1, Len(t))
    PROVE  r \in Seq(Entry) /\ Merged(r, s, t)
<1>1. /\ Len(s) \in Nat /\ Len(t) \in Nat /\ DOMAIN s = 1..Len(s) /\ DOMAIN t = 1..Len(t)
      /\ \A a \in 1..Len(s) : s[a] \in Entries(s) /\ s[a].key \in EntryKeys(s)
      /\ \A a \in 1..Len(t) : t[a] \in Entries(t) /\ t[a].key \in Nat
      /\ \A a \in 1..Len(out) : out[a].key \in Nat
      /\ DOMAIN out = 1..Len(out)
  BY EntryIs
<1>2. ASSUME NEW q \in Seq(Entry) PROVE q \o << >> = q
  <2> HIDE DEF Entry
  <2> QED OBVIOUS
<1>3. CASE j = Len(t)
  <2>1. SubSeq(t, j + 1, Len(t)) = << >>
    <3> HIDE DEF Entry
    <3> QED BY <1>1, <1>3
  <2>2. PICK q : q = out \o SubSeq(s, i + 1, Len(s))
    OBVIOUS
  <2>3. /\ q \in Seq(Entry) /\ Ascending(q)
        /\ Entries(q) = Entries(out) \cup {s[b] : b \in (i + 1)..Len(s)}
        /\ EntryKeys(q) = EntryKeys(out) \cup {s[b].key : b \in (i + 1)..Len(s)}
    <3>1. Ascending(out) /\ Above(out, s, i)
      BY DEF Merging
    <3>2. Joined(q, out, s, i)
      BY <2>2, <3>1, JoinRest, Zenon
    <3> QED BY <3>2 DEF Joined
  <2>4. r = q
    BY <1>2, <2>1, <2>2, <2>3
  <2>5. \A b \in (i + 1)..Len(s) : b \in 1..Len(s)
    BY <1>1, RestBounds
  <2>6. Origin(q, s, t)
    BY <1>1, <2>3, <2>5 DEF Origin, Merging
  <2>7. \A m \in 1..Len(s) : m \in 1..i \/ m \in (i + 1)..Len(s)
    BY <1>1, RestBounds
  <2>8. EntryKeys(s) \cup EntryKeys(t) \subseteq EntryKeys(q)
    <3>1. \A m \in 1..Len(s) : s[m].key \in EntryKeys(q)
      BY <2>3, <2>7 DEF Merging
    <3>2. \A m \in 1..Len(t) : t[m].key \in EntryKeys(q)
      BY <1>3, <2>3 DEF Merging
    <3>3. EntryKeys(s) \subseteq EntryKeys(q) /\ EntryKeys(t) \subseteq EntryKeys(q)
      BY ONLY <1>1, <3>1, <3>2 DEF EntryKeys
    <3> QED BY <3>3
  <2> QED BY <2>3, <2>4, <2>6, <2>8 DEF Merged
<1>4. CASE i = Len(s)
  <2>1. SubSeq(s, i + 1, Len(s)) = << >>
    <3> HIDE DEF Entry
    <3> QED BY <1>1, <1>4
  <2>2. r = out \o SubSeq(t, j + 1, Len(t))
    BY <1>2, <2>1
  <2>3. /\ r \in Seq(Entry) /\ Ascending(r)
        /\ Entries(r) = Entries(out) \cup {t[b] : b \in (j + 1)..Len(t)}
        /\ EntryKeys(r) = EntryKeys(out) \cup {t[b].key : b \in (j + 1)..Len(t)}
    <3>1. Ascending(out) /\ Above(out, t, j)
      BY DEF Merging
    <3>2. Joined(r, out, t, j)
      BY <2>2, <3>1, JoinRest, Zenon
    <3> QED BY <3>2 DEF Joined
  <2>4. \A b \in (j + 1)..Len(t) : b \in 1..Len(t)
    BY <1>1, RestBounds
  <2>5. \A b \in (j + 1)..Len(t) : t[b].key \notin EntryKeys(s)
    <3> SUFFICES ASSUME NEW b \in (j + 1)..Len(t), NEW m \in 1..Len(s), s[m].key = t[b].key
                 PROVE  FALSE
      BY <1>1 DEF EntryKeys
    <3>1. PICK a \in 1..Len(out) : s[m].key = out[a].key
      BY <1>1, <1>4 DEF Merging, EntryKeys
    <3>2. out[a].key < t[b].key
      BY DEF Merging, Above
    <3>3. t[b].key \in Nat
      BY <1>1, <2>4
    <3> QED BY <3>1, <3>2, <3>3
  <2>6. Origin(r, s, t)
    BY <1>1, <2>3, <2>4, <2>5 DEF Origin, Merging
  <2>7. \A m \in 1..Len(t) : m \in 1..j \/ m \in (j + 1)..Len(t)
    BY <1>1, RestBounds
  <2>8. EntryKeys(s) \cup EntryKeys(t) \subseteq EntryKeys(r)
    <3>1. \A m \in 1..Len(s) : s[m].key \in EntryKeys(r)
      BY <1>4, <2>3 DEF Merging
    <3>2. \A m \in 1..Len(t) : t[m].key \in EntryKeys(r)
      BY <2>3, <2>7 DEF Merging
    <3>3. EntryKeys(s) \subseteq EntryKeys(r) /\ EntryKeys(t) \subseteq EntryKeys(r)
      BY <1>1, <3>1, <3>2, ZenonT(60) DEF EntryKeys
    <3> QED BY <3>3
  <2> QED BY <2>3, <2>6, <2>8 DEF Merged
<1> QED BY <1>3, <1>4
-----------------------------------------------------------------------------
(***************************************************************************)
(* The positions the model gives, for any key.                             *)
(***************************************************************************)
\* A model file that exists was built from two keys or more, in ascending order,
\* whatever happened to the other files.
SortedFile(mf) ==
    mf = NoFile \/ (Len(mf) >= 2 /\ \A j, m \in 1..Len(mf) : j < m => mf[j] < mf[m])

LEMMA CollectSorted ==
    ASSUME TypeOK, SortedFile(model_file), NEW s \in SortedSeqs(Survivors(vlog)),
           NEW f \in SUBSET FaultKinds, NEW m
    PROVE  /\ SortedFile(CollectIntoModel(s, f).model_file)
           /\ SortedFile(CollectIntoDb(s, f, m).model_file)
<1>1. Survivors(vlog) \in SUBSET Keys
  BY LogKeysType DEF Survivors, TypeOK, Record
<1>2. \A j, l \in 1..Len(s) : j < l => s[j] < s[l]
  BY <1>1, SortedSeqIs
<1>3. ModelWritten(s, f) => SortedFile(s)
  BY <1>2 DEF ModelWritten, SortedFile
<1>4. /\ CollectIntoModel(s, f).model_file = IF ModelWritten(s, f) THEN s ELSE model_file
      /\ CollectIntoDb(s, f, m).model_file = model_file
  BY DEF CollectIntoModel, CollectIntoDb
<1> QED BY <1>3, <1>4

LEMMA FileSorted ==
    ASSUME TypeOK, SortedFile(model_file), [Next]_vars
    PROVE  SortedFile(model_file)'
<1>1. ASSUME NEW st \in Ready PROVE SortedFile(st.model_file)
  <2>1. CASE st = Unchanged
    BY <2>1 DEF Unchanged
  <2> QED BY <2>1, CollectSorted, ReadyCases
<1>2. ASSUME NEW st \in Left PROVE SortedFile(st.model_file)
  <2>1. CASE st = Unchanged \/ st = [Unchanged EXCEPT !.db = EmptyDb]
    BY <2>1 DEF Unchanged
  <2>2. ASSUME NEW s \in SortedSeqs(Survivors(vlog)), NEW f \in SUBSET FaultKinds,
               NEW m \in 0..Len(s),
               st = [CollectIntoModel(s, f) EXCEPT !.vlog = SubSeq(Rewritten(s), 1, m)]
        PROVE  SortedFile(st.model_file)
    <3>1. st.model_file = CollectIntoModel(s, f).model_file
      BY <2>2 DEF CollectIntoModel
    <3> QED BY <3>1, CollectSorted
  <2>3. ASSUME NEW s \in SortedSeqs(Survivors(vlog)), NEW f \in SUBSET FaultKinds,
               NEW m \in 0..Len(s),
               st = [CollectIntoDb(s, f, 0) EXCEPT !.vlog = SubSeq(Rewritten(s), 1, m)]
        PROVE  SortedFile(st.model_file)
    <3>1. st.model_file = CollectIntoDb(s, f, 0).model_file
      BY <2>3 DEF CollectIntoDb
    <3> QED BY <3>1, CollectSorted
  <2> QED BY <2>1, <2>2, <2>3, LeftCases
<1>3. ASSUME NEW st, SortedFile(st.model_file), model_file' = st.model_file
      PROVE  SortedFile(model_file')
  BY <1>3
<1>4. CASE Put
  <2>1. PICK st \in Ready : model_file' = st.model_file
    BY <1>4 DEF Put, PutOk, PutFails, PutAborts, PutCrashes, KeepFiles
  <2>2. SortedFile(model_file')
    BY <1>1, <1>3, <2>1
  <2> QED BY <2>2 DEF SortedFile
<1>5. CASE Restart
  <2>1. PICK st \in Left : model_file' = st.model_file
    BY <1>5 DEF Restart
  <2>2. SortedFile(model_file')
    BY <1>2, <1>3, <2>1
  <2> QED BY <2>2 DEF SortedFile
<1>6. CASE UNCHANGED model_file
  BY <1>6 DEF SortedFile
<1>7. ASSUME NEW k \in Keys, Get(k) PROVE UNCHANGED model_file
  BY <1>7 DEF Get, store
<1>8. UNCHANGED vars \/ Exit => UNCHANGED model_file
  BY DEF vars, store, Exit
<1> QED BY <1>4, <1>5, <1>6, <1>7, <1>8 DEF Next

\* The model predicts a position, or -1 without a file.
LEMMA PredictedType ==
    ASSUME TypeOK, SortedFile(model_file), NEW k \in Nat, NEW pos, pos = Predicted(k)
    PROVE  pos \in Nat \cup {-1}
<1>1. CASE model_file = NoFile
  BY <1>1 DEF Predicted
<1>2. CASE model_file # NoFile
  <2> DEFINE ys == [j \in DOMAIN model_file |-> j - 1]
             S == BuildModel(model_file, ys)
  <2>1. /\ model_file \in Seq(Keys) /\ Len(model_file) >= 2
        /\ \A j, m \in 1..Len(model_file) : j < m => model_file[j] < model_file[m]
    BY <1>2 DEF TypeOK, SortedFile
  <2>2. Points(model_file, ys)
    BY <2>1, RecordNumbers
  <2> HIDE DEF ys
  <2>3. Models(S, model_file, ys, 1..Len(model_file))
    BY <2>1, <2>2, BuildModelModels
  <2>4. S \in Seq(Segment)
    BY <2>3 DEF Models
  <2>5. pos = QueryModel(S, k)
    BY <1>2 DEF Predicted, ys
  <2> HIDE DEF S
  <2>6. pos \in Nat
    BY <2>4, <2>5, PositionType
  <2> QED BY <2>6
<1> QED BY <1>1, <1>2

\* Wherever the searches of scan end, it is a position a file can have.
LEMMA PositionsType ==
    ASSUME TypeOK, SortedFile(model_file), NEW k \in Nat, NEW pos, pos = Predicted(k)
    PROVE  StartPositions(pos, k) \subseteq Nat /\ EndPositions(pos, k) \subseteq Nat
<1>1. pos \in Nat \cup {-1}
  BY PredictedType
<1>2. Window(pos) \subseteq Nat /\ pos + ErrBound \in Nat
  BY <1>1, ErrBoundAssumption DEF Window, WindowStart
<1>3. Misled(pos) \subseteq Nat
  BY <1>2 DEF Misled
<1> QED BY <1>2, <1>3 DEF StartPositions, EndPositions

\* Whatever position scan reads at, it gets a value, nothing or mangled bytes.
LEMMA ScanValueType ==
    ASSUME TypeOK, NEW p
    PROVE  ScanValue(p) \in Values \cup {Blank, Mangled}
<1>1. ASSUME NEW q PROVE ReadAt(q) \in Values \cup {Blank}
  <2>1. CASE q \in 0..(Len(vlog) - 1)
    <3>1. vlog \in Seq(Record)
      BY DEF TypeOK, Record
    <3>2. q + 1 \in 1..Len(vlog)
      BY <2>1, <3>1
    <3>3. vlog[q + 1] \in Record
      BY <3>1, <3>2
    <3> QED BY <2>1, <3>3 DEF ReadAt, Record
  <2>2. CASE ~(q \in 0..(Len(vlog) - 1))
    BY <2>2 DEF ReadAt
  <2> QED BY <2>1, <2>2
<1>2. ReadAt(SeekPosition(p)) \in Values \cup {Blank}
  BY <1>1
<1> QED BY <1>2 DEF ScanValue
\* Both searches end at the record of a key the learned index holds: that of the
\* start compares as get does, and before the record of the end all are smaller.
LEMMA EndsFound ==
    ASSUME TypeOK, NEW k \in Keys, NEW j \in 1..Len(key_array_file),
           key_array_file[j] = k, model_file = key_array_file,
           Len(key_array_file) >= 2, Len(key_array_file) <= Cap,
           \A i, m \in 1..Len(key_array_file) : i < m => key_array_file[i] < key_array_file[m]
    PROVE  /\ StartPositions(Predicted(k), k) = {j - 1}
           /\ EndPositions(Predicted(k), k) = {j - 1}
<1> DEFINE ka == key_array_file
           pos == Predicted(k)
           W == Window(pos)
<1>1. StartPositions(pos, k) = {j - 1}
  <2>1. SearchEnds(k) = {j - 1}
    BY SearchEndsAtKey
  <2>2. Hits(k) = {p \in W : p < Len(ka) /\ ka[p + 1] = k}
    BY DEF Hits
  <2>3. StartPositions(pos, k) = IF Hits(k) # {} THEN Hits(k) ELSE Misled(pos)
    <3> HIDE DEF W, pos, ka
    <3> QED BY <2>2 DEF StartPositions, W, ka
  <2>4. SearchEnds(k) = IF Hits(k) # {} THEN Hits(k) ELSE Misled(pos)
    BY DEF SearchEnds, Misled
  <2> QED BY <2>1, <2>3, <2>4
<1>2. /\ ka \in Seq(Keys) /\ Len(ka) \in Nat /\ DOMAIN ka = 1..Len(ka) /\ ka # NoFile
  BY DEF TypeOK, NoFile
<1>3. pos \in Nat /\ j - 1 \in W \cup {pos + ErrBound}
  <2>1. pos = QueryModel(BuildModel(ka, [m \in DOMAIN ka |-> m - 1]), ka[j])
    BY <1>2 DEF Predicted
  <2> HIDE DEF pos
  <2> QED BY <1>2, <2>1, SearchLeads
<1>4. W = WindowStart(pos)..(pos + ErrBound - 1) /\ WindowStart(pos) \in Nat
  <2> HIDE DEF pos
  <2> QED BY <1>3, ErrBoundAssumption DEF Window, WindowStart
<1>5. EndPositions(pos, k) =
        IF \E p \in W : p < Len(ka) /\ ka[p + 1] >= k
        THEN {p \in W : /\ p < Len(ka) /\ ka[p + 1] >= k
                        /\ \A q \in WindowStart(pos)..(p - 1) : ka[q + 1] < k}
        ELSE {p \in W : p >= Len(ka)} \cup {pos + ErrBound}
  BY DEF EndPositions, Misled
<1>6. \A m \in 1..Len(ka) : ka[m] \in Nat /\ (m < j => ka[m] < k) /\ (j < m => ~(ka[m] < k))
  <2> TAKE m \in 1..Len(ka)
  <2>1. ka[m] \in Nat /\ ka[j] \in Nat /\ k \in Nat
    <3>1. j \in 1..Len(ka)
      OBVIOUS
    <3> HIDE DEF ka
    <3>2. ka[m] \in Keys /\ ka[j] \in Keys /\ k \in Keys
      BY <1>2, <3>1
    <3> QED BY <3>2, KeysAssumption
  <2>2. (m < j => ka[m] < ka[j]) /\ (j < m => ka[j] < ka[m])
    OBVIOUS
  <2> QED BY <2>1, <2>2
<1>7. k \in Nat /\ j \in 1..Len(ka) /\ ka[j] = k
  BY KeysAssumption
<1> HIDE DEF ka, pos, W
<1>8. \A p \in W : p \in Nat /\ WindowStart(pos) <= p /\ p < pos + ErrBound
  BY <1>3, <1>4, ErrBoundAssumption
<1>9. ASSUME NEW p \in W, p < j - 1
      PROVE  p < Len(ka) /\ ka[p + 1] \in Nat /\ ka[p + 1] < k
  <2>1. p \in Nat /\ p + 1 \in 1..Len(ka) /\ p + 1 < j /\ p < Len(ka)
    BY <1>2, <1>7, <1>8, <1>9
  <2> QED BY <1>6, <2>1
<1>10. CASE j - 1 \in W
  <2>1. j - 1 < Len(ka) /\ (j - 1) + 1 = j /\ ka[(j - 1) + 1] >= k
    BY <1>2, <1>7
  <2>2. \A q \in WindowStart(pos)..((j - 1) - 1) : q \in W /\ q < j - 1
    BY <1>2, <1>3, <1>4, <1>7, <1>8, <1>10, ErrBoundAssumption
  <2>3. \A q \in WindowStart(pos)..((j - 1) - 1) : ka[q + 1] < k
    BY <1>9, <2>2
  <2>4. ASSUME NEW p \in W, p < Len(ka), ka[p + 1] >= k,
               \A q \in WindowStart(pos)..(p - 1) : ka[q + 1] < k
        PROVE  p = j - 1
    <3>1. ~(p < j - 1)
      <4> SUFFICES ASSUME p < j - 1 PROVE FALSE
        OBVIOUS
      <4>1. ka[p + 1] \in Nat /\ ka[p + 1] < k
        BY <1>9
      <4> QED BY <1>7, <2>4, <4>1
    <3>2. ~(j - 1 < p)
      <4> SUFFICES ASSUME j - 1 < p PROVE FALSE
        OBVIOUS
      <4>1. j - 1 \in WindowStart(pos)..(p - 1)
        BY <1>4, <1>7, <1>8, <1>10
      <4>2. ka[(j - 1) + 1] < k
        BY <2>4, <4>1
      <4> QED BY <1>7, <2>1, <4>2
    <3> QED BY <1>7, <1>8, <3>1, <3>2
  <2>5. \E p \in W : p < Len(ka) /\ ka[p + 1] >= k
    BY <1>10, <2>1
  <2>6. EndPositions(pos, k) =
            {p \in W : /\ p < Len(ka) /\ ka[p + 1] >= k
                       /\ \A q \in WindowStart(pos)..(p - 1) : ka[q + 1] < k}
    BY <1>5, <2>5
  <2>7. j - 1 \in EndPositions(pos, k)
    BY <1>10, <2>1, <2>3, <2>6
  <2>8. \A p \in EndPositions(pos, k) : p = j - 1
    BY <2>4, <2>6
  <2> QED BY <1>1, <2>7, <2>8 DEF pos
<1>11. CASE j - 1 \notin W
  <2>1. j - 1 = pos + ErrBound
    BY <1>3, <1>11
  <2>2. \A p \in W : p < j - 1
    BY <1>8, <2>1
  <2>3. \A p \in W : p < Len(ka) /\ ka[p + 1] \in Nat /\ ka[p + 1] < k /\ p \in Nat
    BY <1>8, <1>9, <2>2
  <2>4. ~\E p \in W : p < Len(ka) /\ ka[p + 1] >= k
    BY <1>7, <2>3
  <2>5. {p \in W : p >= Len(ka)} = {}
    BY <1>2, <2>3
  <2>6. EndPositions(pos, k) = {pos + ErrBound}
    BY <1>5, <2>4, <2>5
  <2> QED BY <1>1, <2>1, <2>6 DEF pos
<1> QED BY <1>10, <1>11
-----------------------------------------------------------------------------
(***************************************************************************)
(* The inductive invariant: what is known at each stage of a scan.         *)
(***************************************************************************)
\* Before their stage the lists are empty.
ListsByStage ==
    /\ pc \in {"idle", "lsm"} => kvs_lsm = << >>
    /\ pc \in {"idle", "lsm", "learned"} => kvs_learned = << >>
    /\ pc \in {"idle", "lsm", "learned", "read"} => lsm_it = 0 /\ learned_it = 0 /\ kvs = << >>
    /\ pc \in {"learned", "read", "merge"} => LearnedIndexUsed

MergeStage ==
    Ascending(kvs_lsm) /\ Ascending(kvs_learned) =>
        /\ Ascending(kvs)
        /\ pc = "merge" => Merging(kvs, kvs_lsm, lsm_it, kvs_learned, learned_it)
        /\ Returned /\ LearnedIndexUsed => Merged(kvs, kvs_lsm, kvs_learned)

\* The pointers of the database in the range, as scan reads their records.
LsmPart(s) ==
    /\ Ascending(s)
    /\ EntryKeys(s) = {k \in Keys : db[k] # NoPtr /\ InRange(k)}
    /\ \A e \in Entries(s) : e.val = ScanValue(db[e.key])

LsmStage ==
    /\ pc \in {"learned", "read", "merge"} \/ Returned => LsmPart(kvs_lsm)
    /\ Returned /\ ~LearnedIndexUsed => kvs = kvs_lsm

\* The records from the a-th on, up to where the file position is.
LearnedPart(a, b) ==
    /\ a < b /\ vlog[a].key = first /\ vlog[b].key = end_key
    /\ end_pos = b - 1 /\ a - 1 <= read_pos /\ read_pos <= end_pos
    /\ Len(kvs_learned) = read_pos - (a - 1)
    /\ \A j \in 1..Len(kvs_learned) : kvs_learned[j] = vlog[a - 1 + j]

ReadStage ==
    Healthy /\ Interior /\ LearnedIndexUsed =>
        /\ pc \in {"read", "merge"} \/ Returned =>
                \E a, b \in 1..gc_len : LearnedPart(a, b)
        /\ pc = "merge" \/ Returned => read_pos = end_pos

ScanInv ==
    /\ Inv /\ SortedFile(model_file)
    /\ ScanTypeOK
    /\ ListsByStage /\ MergeStage /\ LsmStage /\ ReadStage

LEMMA NoEntries ==
    /\ << >> \in Seq(Entry) /\ Len(<< >>) = 0
    /\ Ascending(<< >>) /\ Entries(<< >>) = {} /\ EntryKeys(<< >>) = {}
BY DEF Ascending, Entries, EntryKeys

LEMMA ScanInitInv == ScanInit => ScanInv
<1> SUFFICES ASSUME ScanInit PROVE ScanInv
  OBVIOUS
<1>1. Inv
  BY InitInv DEF ScanInit
<1>2. SortedFile(model_file)
  BY DEF ScanInit, Init, SortedFile
<1>3. ScanTypeOK
  BY NoEntries, MaxKeyAssumption DEF ScanInit, ScanTypeOK
<1>4. ListsByStage /\ LsmStage /\ ReadStage
  BY DEF ScanInit, ListsByStage, LsmStage, ReadStage, Returned
<1>5. MergeStage
  BY NoEntries DEF ScanInit, MergeStage, Returned
<1> QED BY <1>1, <1>2, <1>3, <1>4, <1>5 DEF ScanInv

\* Calls of put and get between scans.
LEMMA IdleInv ==
    ASSUME ScanInv, pc = "idle", [Next]_vars, UNCHANGED scanVars
    PROVE  ScanInv'
<1>1. Inv' /\ SortedFile(model_file)'
  BY NextInv, FileSorted DEF ScanInv, Inv
<1>2. UNCHANGED << pc, first, end_key, kvs_lsm, kvs_learned, read_pos, end_pos,
                   lsm_it, learned_it, kvs >>
  BY DEF scanVars, parts, positions, merged
<1>3. ScanTypeOK'
  BY <1>2 DEF ScanInv, ScanTypeOK
<1>4. ListsByStage' /\ LsmStage' /\ ReadStage'
  BY <1>2 DEF ScanInv, ListsByStage, LsmStage, ReadStage, Returned
<1>5. MergeStage'
  <2>1. Ascending(kvs)'
    BY <1>2, NoEntries DEF ScanInv, ListsByStage, Ascending
  <2> QED BY <1>2, <2>1 DEF MergeStage, Returned
<1> QED BY <1>1, <1>3, <1>4, <1>5 DEF ScanInv

\* The steps of a scan leave the store alone.
LEMMA StoreKept ==
    ASSUME ScanInv, UNCHANGED << store, latest, stale, faulty, gc_len >>,
           status' = status \/ status' = "crashed", reply' \in {reply, Ok, Failed}
    PROVE  Inv' /\ SortedFile(model_file)'
<1>1. TypeOK /\ RecordsAreLatest /\ TailIsLatest /\ StaleByLateFlush
  BY DEF ScanInv, Inv
<1>2. TypeOK'
  BY <1>1 DEF TypeOK, store
<1>3. SortedFile(model_file)'
  BY DEF ScanInv, store, SortedFile
<1>4. CASE status' = "crashed"
  <2>1. RecordsAreLatest' /\ TailIsLatest' /\ StaleByLateFlush'
    BY <1>1, <1>4 DEF store, RecordsAreLatest, TailIsLatest, TailIn, StaleByLateFlush
  <2> QED BY <1>2, <1>3, <1>4, <2>1, FaultyInv
<1>5. CASE status' = status
  <2>1. Inv'
    BY <1>2, <1>5 DEF ScanInv, Inv, store, Healthy, CounterMatchesLog, PointersCurrent,
       FilterCoversIndex, KeyArrayMatchesLog, RecordsAreLatest, TailIsLatest, TailIn,
       StaleByLateFlush, AssertOnlyFailsAfterFault
  <2> QED BY <1>3, <2>1
<1> QED BY <1>4, <1>5
-----------------------------------------------------------------------------
(***************************************************************************)
(* One lemma for each step of a scan.                                      *)
(***************************************************************************)
LEMMA BeginScanInv ==
    ASSUME ScanInv, NEW start \in Starts, NEW range \in Ranges, BeginScan(start, range)
    PROVE  ScanInv'
<1>1. /\ pc = "idle" /\ pc' = "lsm" /\ first' = start /\ end_key' = EndKey(start, range)
      /\ reply' = Ok /\ status' = status
      /\ UNCHANGED << store, latest, stale, faulty, gc_len >>
      /\ UNCHANGED << kvs_lsm, kvs_learned, read_pos, end_pos, lsm_it, learned_it, kvs >>
  BY DEF BeginScan, parts, positions, merged
<1>2. Inv' /\ SortedFile(model_file)'
  BY <1>1, StoreKept
<1>3. start \in 0..MaxKey /\ EndKey(start, range) \in 0..MaxKey
  BY RangesAssumption, MaxKeyAssumption DEF EndKey
<1>4. ScanTypeOK'
  BY <1>1, <1>3 DEF ScanInv, ScanTypeOK
<1>5. ListsByStage' /\ LsmStage' /\ ReadStage'
  BY <1>1 DEF ScanInv, ListsByStage, LsmStage, ReadStage, Returned
<1>6. MergeStage'
  <2>1. Ascending(kvs)'
    BY <1>1, NoEntries DEF ScanInv, ListsByStage, Ascending
  <2> QED BY <1>1, <2>1 DEF MergeStage, Returned
<1> QED BY <1>2, <1>4, <1>5, <1>6 DEF ScanInv

\* The list the database part builds from the keys found.
LEMMA LsmFound ==
    ASSUME TypeOK, NEW s \in SortedSeqs({k \in Keys : db[k] # NoPtr /\ InRange(k)}),
           NEW found, found = [j \in DOMAIN s |-> [key |-> s[j], val |-> ScanValue(db[s[j]])]]
    PROVE  found \in Seq(Entry) /\ LsmPart(found)
<1> DEFINE S == {k \in Keys : db[k] # NoPtr /\ InRange(k)}
<1>1. S \in SUBSET Keys /\ s \in SortedSeqs(S)
  OBVIOUS
<1> HIDE DEF S
<1>2. /\ s \in Seq(Keys) /\ DOMAIN s = 1..Len(s) /\ Len(s) \in Nat
      /\ {s[j] : j \in 1..Len(s)} = S
      /\ \A j, m \in 1..Len(s) : s[j] \in Keys /\ (j < m => s[j] < s[m])
  BY <1>1, SortedSeqIs
<1>3. \A j \in 1..Len(s) : [key |-> s[j], val |-> ScanValue(db[s[j]])] \in Entry
  BY <1>2, ScanValueType DEF Entry
<1>4. /\ DOMAIN found = 1..Len(s)
      /\ \A j \in 1..Len(s) : found[j].key = s[j] /\ found[j].val = ScanValue(db[s[j]])
  BY <1>2
<1>5. found \in Seq(Entry)
  <2> HIDE DEF Entry
  <2> QED BY <1>2, <1>3
<1>6. Ascending(found)
  BY <1>2, <1>4 DEF Ascending
<1>7. EntryKeys(found) = S
  BY <1>2, <1>4 DEF EntryKeys
<1>8. \A e \in Entries(found) : e.val = ScanValue(db[e.key])
  BY <1>4 DEF Entries
<1> QED BY <1>5, <1>6, <1>7, <1>8 DEF LsmPart, S

\* What the parts hold stays true while store and range stay.
LEMMA PartsKept ==
    ASSUME UNCHANGED << store, first, end_key, kvs_lsm >>, LsmPart(kvs_lsm)
    PROVE  LsmPart(kvs_lsm)'
BY DEF LsmPart, store, InRange, ScanValue, ReadAt, Ascending, Entries, EntryKeys

LEMMA ScanLsmInv == ASSUME ScanInv, ScanLsm PROVE ScanInv'
<1>1. /\ pc = "lsm" /\ pc' = IF LearnedIndexUsed THEN "learned" ELSE "done"
      /\ UNCHANGED << store, status, reply, latest, stale, faulty, gc_len >>
      /\ UNCHANGED << first, end_key, kvs_learned, read_pos, end_pos, lsm_it, learned_it >>
  BY DEF ScanLsm, positions, vars
<1>2. PICK s \in SortedSeqs({k \in Keys : db[k] # NoPtr /\ InRange(k)}) :
        LET found == [j \in DOMAIN s |-> [key |-> s[j], val |-> ScanValue(db[s[j]])]]
        IN  kvs_lsm' = found /\ kvs' = IF LearnedIndexUsed THEN kvs ELSE found
  BY DEF ScanLsm
<1> DEFINE found == [j \in DOMAIN s |-> [key |-> s[j], val |-> ScanValue(db[s[j]])]]
<1>3. TypeOK
  BY DEF ScanInv, Inv
<1>4. found \in Seq(Entry) /\ LsmPart(found)
  BY <1>3, LsmFound
<1>5. kvs_lsm' = found /\ kvs' = IF LearnedIndexUsed THEN kvs ELSE found
  BY <1>2
<1> HIDE DEF found
<1>6. Inv' /\ SortedFile(model_file)'
  BY <1>1, StoreKept
<1>7. kvs_learned = << >> /\ lsm_it = 0 /\ learned_it = 0 /\ kvs = << >>
  BY <1>1 DEF ScanInv, ListsByStage
<1>8. Len(found) \in Nat
  BY <1>4, EntryIs
<1>9. ScanTypeOK'
  BY <1>1, <1>4, <1>5, <1>7, <1>8, NoEntries DEF ScanInv, ScanTypeOK
<1>10. ListsByStage'
  BY <1>1, <1>5, <1>7 DEF ListsByStage
<1>11. MergeStage'
  <2>1. Ascending(found)
    BY <1>4 DEF LsmPart
  <2>2. Ascending(kvs)'
    BY <1>5, <1>7, <2>1, NoEntries DEF Ascending
  <2> QED BY <1>1, <2>2 DEF MergeStage, Returned
<1>12. LsmStage'
  <2>1. LsmPart(kvs_lsm)'
    BY <1>1, <1>4, <1>5 DEF LsmPart, store, InRange, ScanValue, ReadAt, Ascending,
       Entries, EntryKeys
  <2> QED BY <1>5, <2>1 DEF LsmStage
<1>13. ReadStage'
  BY <1>1 DEF ReadStage, Returned
<1> QED BY <1>6, <1>9, <1>10, <1>11, <1>12, <1>13 DEF ScanInv

LEMMA ScanFailsInv == ASSUME ScanInv, ScanFails PROVE ScanInv'
<1>1. /\ pc = "lsm" /\ pc' = "done" /\ reply' = Failed
      /\ UNCHANGED << store, status, latest, stale, faulty, gc_len >>
      /\ UNCHANGED << first, end_key, kvs_lsm, kvs_learned, read_pos, end_pos, lsm_it,
                      learned_it, kvs >>
  BY DEF ScanFails, parts, positions, merged
<1>2. Inv' /\ SortedFile(model_file)'
  BY <1>1, StoreKept
<1>3. ScanTypeOK'
  BY <1>1 DEF ScanInv, ScanTypeOK
<1>4. ~Returned'
  BY <1>1 DEF Returned, Ok, Failed
<1>5. ListsByStage' /\ LsmStage' /\ ReadStage'
  BY <1>1, <1>4 DEF ScanInv, ListsByStage, LsmStage, ReadStage
<1>6. MergeStage'
  <2>1. Ascending(kvs)'
    BY <1>1, NoEntries DEF ScanInv, ListsByStage, Ascending
  <2> QED BY <1>1, <1>4, <2>1 DEF MergeStage
<1> QED BY <1>2, <1>3, <1>5, <1>6 DEF ScanInv

LEMMA ScanCrashesInv == ASSUME ScanInv, ScanCrashes PROVE ScanInv'
<1>1. /\ pc = "learned" /\ pc' = "done" /\ status' = "crashed"
      /\ UNCHANGED << store, reply, latest, stale, faulty, gc_len >>
      /\ UNCHANGED << first, end_key, kvs_lsm, kvs_learned, read_pos, end_pos, lsm_it,
                      learned_it, kvs >>
  BY DEF ScanCrashes, parts, positions, merged
<1>2. Inv' /\ SortedFile(model_file)'
  BY <1>1, StoreKept
<1>3. ScanTypeOK'
  BY <1>1 DEF ScanInv, ScanTypeOK
<1>4. ~Returned'
  BY <1>1 DEF Returned, Healthy
<1>5. ListsByStage' /\ LsmStage' /\ ReadStage'
  BY <1>1, <1>4 DEF ScanInv, ListsByStage, LsmStage, ReadStage
<1>6. MergeStage'
  <2>1. Ascending(kvs)'
    BY <1>1, NoEntries DEF ScanInv, ListsByStage, Ascending
  <2> QED BY <1>1, <1>4, <2>1 DEF MergeStage
<1> QED BY <1>2, <1>3, <1>5, <1>6 DEF ScanInv

LEMMA FindPositionsInv == ASSUME ScanInv, FindPositions PROVE ScanInv'
<1>1. /\ pc = "learned" /\ pc' = "read"
      /\ UNCHANGED << store, status, reply, latest, stale, faulty, gc_len >>
      /\ UNCHANGED << first, end_key, kvs_lsm, kvs_learned, lsm_it, learned_it, kvs >>
  BY DEF FindPositions, parts, merged, vars
<1>2. PICK st \in StartPositions(Predicted(first), first),
           en \in EndPositions(Predicted(end_key), end_key) :
        read_pos' = st /\ end_pos' = IF en = st THEN en + 1 ELSE en
  BY DEF FindPositions
<1>3. TypeOK /\ SortedFile(model_file) /\ first \in Nat /\ end_key \in Nat
  BY MaxKeyAssumption DEF ScanInv, Inv, ScanTypeOK
<1>4. st \in Nat /\ en \in Nat
  BY <1>3, PositionsType
<1>5. Inv' /\ SortedFile(model_file)'
  BY <1>1, StoreKept
<1>6. ScanTypeOK'
  BY <1>1, <1>2, <1>4 DEF ScanInv, ScanTypeOK
<1>7. kvs_learned = << >> /\ kvs = << >>
  BY <1>1 DEF ScanInv, ListsByStage
<1>8. ListsByStage'
  BY <1>1 DEF ScanInv, ListsByStage
<1>9. MergeStage'
  <2>1. Ascending(kvs)'
    BY <1>1, <1>7, NoEntries DEF Ascending
  <2> QED BY <1>1, <2>1 DEF MergeStage, Returned
<1>10. LsmStage'
  <2>1. LsmPart(kvs_lsm)'
    BY <1>1, PartsKept DEF ScanInv, LsmStage
  <2> QED BY <1>1, <2>1 DEF LsmStage, Returned
<1>11. ReadStage'
  <2> SUFFICES ASSUME Healthy', Interior', LearnedIndexUsed
               PROVE  (\E a, b \in 1..gc_len : LearnedPart(a, b))'
    BY <1>1 DEF ReadStage, Returned
  <2>1. Healthy /\ Interior
    BY <1>1 DEF Healthy, Interior, store
  <2>2. /\ gc_len >= 2 /\ first < end_key
        /\ first \in {vlog[j].key : j \in 1..gc_len}
        /\ end_key \in {vlog[j].key : j \in 1..gc_len}
    BY <2>1 DEF Interior
  <2>3. PICK a \in 1..gc_len : vlog[a].key = first
    BY <2>2
  <2>4. PICK b \in 1..gc_len : vlog[b].key = end_key
    BY <2>2
  <2>5. /\ Len(key_array_file) = gc_len /\ model_file = key_array_file
        /\ key_array_file[a] = first /\ key_array_file[b] = end_key
        /\ \A i, m \in 1..gc_len : i < m => key_array_file[i] < key_array_file[m]
    BY <2>1, <2>2, <2>3, <2>4 DEF ScanInv, Inv, KeyArrayMatchesLog
  <2>6. gc_len \in Nat /\ gc_len <= Cap
    BY <2>1, CapAssumption DEF ScanInv, Inv, CounterMatchesLog, TypeOK
  <2>7. first \in Keys /\ end_key \in Keys
    <3>1. key_array_file \in Seq(Keys)
      BY <1>3 DEF TypeOK
    <3>2. key_array_file[a] \in Keys /\ key_array_file[b] \in Keys
      BY <2>5, <3>1
    <3> QED BY <2>5, <3>2
  <2>8. st = a - 1
    <3>1. StartPositions(Predicted(first), first) = {a - 1}
      BY <1>3, <2>2, <2>5, <2>6, <2>7, EndsFound
    <3> QED BY <3>1
  <2>9. en = b - 1
    <3>1. EndPositions(Predicted(end_key), end_key) = {b - 1}
      BY <1>3, <2>2, <2>5, <2>6, <2>7, EndsFound
    <3> QED BY <3>1
  <2>10. a < b
    <3>1. ~(b < a) /\ a # b
      BY <1>3, <2>2, <2>5
    <3> QED BY <2>6, <3>1
  <2>11. read_pos' = a - 1 /\ end_pos' = b - 1
    BY <1>2, <2>6, <2>8, <2>9, <2>10
  <2>12. a \in 1..gc_len' /\ b \in 1..gc_len' /\ vlog' = vlog
    BY <1>1 DEF store
  <2>13. Len(kvs_learned') = 0 /\ kvs_learned' = << >>
    BY <1>1, <1>7
  <2>14. LearnedPart(a, b)'
    BY <1>1, <2>3, <2>4, <2>6, <2>10, <2>11, <2>12, <2>13 DEF LearnedPart
  <2> QED BY <2>12, <2>14
<1> QED BY <1>5, <1>6, <1>8, <1>9, <1>10, <1>11 DEF ScanInv

LEMMA ReadRecordInv == ASSUME ScanInv, ReadRecord PROVE ScanInv'
<1>1. /\ pc = "read" /\ read_pos < end_pos /\ read_pos < Len(vlog)
      /\ kvs_learned' = Append(kvs_learned, vlog[read_pos + 1]) /\ read_pos' = read_pos + 1
      /\ UNCHANGED << store, status, reply, latest, stale, faulty, gc_len >>
      /\ UNCHANGED << pc, first, end_key, kvs_lsm, end_pos, lsm_it, learned_it, kvs >>
  BY DEF ReadRecord, merged, vars
<1>2. /\ read_pos \in Nat /\ end_pos \in Nat /\ kvs_learned \in Seq(Entry)
      /\ lsm_it = 0 /\ learned_it = 0 /\ kvs = << >>
  BY <1>1 DEF ScanInv, ScanTypeOK, ListsByStage
<1>3. vlog \in Seq(Record) /\ Len(vlog) \in Nat
  BY DEF ScanInv, Inv, TypeOK, Record
<1>4. vlog[read_pos + 1] \in Entry
  <2>1. read_pos + 1 \in 1..Len(vlog)
    BY <1>1, <1>2, <1>3
  <2>2. vlog[read_pos + 1] \in Record
    BY <1>3, <2>1
  <2> QED BY <2>2 DEF Record, Entry
<1> DEFINE e == vlog[read_pos + 1]
<1>5. /\ kvs_learned' \in Seq(Entry) /\ Len(kvs_learned') = Len(kvs_learned) + 1
      /\ \A j \in 1..Len(kvs_learned) : kvs_learned'[j] = kvs_learned[j]
      /\ kvs_learned'[Len(kvs_learned) + 1] = vlog[read_pos + 1]
  <2>1. kvs_learned' = Append(kvs_learned, e) /\ e \in Entry
    BY <1>1, <1>4
  <2> HIDE DEF e
  <2>2. /\ kvs_learned' \in Seq(Entry) /\ Len(kvs_learned') = Len(kvs_learned) + 1
        /\ \A j \in 1..Len(kvs_learned) : kvs_learned'[j] = kvs_learned[j]
        /\ kvs_learned'[Len(kvs_learned) + 1] = e
    BY <1>2, <2>1, AppendEntry
  <2> QED BY <2>2 DEF e
<1>6. Inv' /\ SortedFile(model_file)'
  BY <1>1, StoreKept
<1>7. Len(kvs_learned) \in Nat
  BY <1>2, EntryIs
<1>8. ScanTypeOK'
  BY <1>1, <1>2, <1>5, <1>7 DEF ScanInv, ScanTypeOK
<1>9. ListsByStage'
  BY <1>1 DEF ScanInv, ListsByStage
<1>10. MergeStage'
  <2>1. Ascending(kvs)'
    BY <1>1, <1>2, NoEntries DEF Ascending
  <2> QED BY <1>1, <2>1 DEF MergeStage, Returned
<1>11. LsmStage'
  <2>1. LsmPart(kvs_lsm)'
    BY <1>1, PartsKept DEF ScanInv, LsmStage
  <2> QED BY <1>1, <2>1 DEF LsmStage, Returned
<1>12. ReadStage'
  <2> SUFFICES ASSUME Healthy', Interior', LearnedIndexUsed
               PROVE  (\E a, b \in 1..gc_len : LearnedPart(a, b))'
    BY <1>1 DEF ReadStage, Returned
  <2>1. Healthy /\ Interior
    BY <1>1 DEF Healthy, Interior, store
  <2>2. PICK a \in 1..gc_len, b \in 1..gc_len : LearnedPart(a, b)
    BY <1>1, <2>1 DEF ScanInv, ReadStage
  <2>3. gc_len \in Nat /\ vlog' = vlog /\ gc_len' = gc_len
    BY <1>1 DEF ScanInv, Inv, TypeOK, store
  <2>4. /\ a < b /\ vlog[a].key = first /\ vlog[b].key = end_key
        /\ end_pos = b - 1 /\ a - 1 <= read_pos
        /\ Len(kvs_learned) = read_pos - (a - 1)
        /\ \A j \in 1..Len(kvs_learned) : kvs_learned[j] = vlog[a - 1 + j]
    BY <2>2 DEF LearnedPart
  <2>5. /\ a - 1 <= read_pos + 1 /\ read_pos + 1 <= end_pos
        /\ Len(kvs_learned') = (read_pos + 1) - (a - 1)
        /\ a - 1 + (Len(kvs_learned) + 1) = read_pos + 1
    BY <1>1, <1>2, <1>5, <2>3, <2>4
  <2>6. \A j \in 1..(Len(kvs_learned) + 1) : j = Len(kvs_learned) + 1 \/ j \in 1..Len(kvs_learned)
    BY <1>7
  <2>7. \A j \in 1..Len(kvs_learned') : kvs_learned'[j] = vlog[a - 1 + j]
    BY <1>5, <2>4, <2>5, <2>6
  <2>8. LearnedPart(a, b)'
    BY <1>1, <2>3, <2>4, <2>5, <2>7 DEF LearnedPart
  <2> QED BY <2>3, <2>8
<1> QED BY <1>6, <1>8, <1>9, <1>10, <1>11, <1>12 DEF ScanInv

\* Between keys the learned index holds the log does not end before the range.
LEMMA ReadNothingInv == ASSUME ScanInv, ReadNothing PROVE ScanInv'
<1>1. /\ pc = "read" /\ read_pos < end_pos /\ read_pos >= Len(vlog)
      /\ kvs_learned' = IF Len(kvs_learned) < Len(vlog) + MaxBlanks
                        THEN Append(kvs_learned, [key |-> KeyZero, val |-> Blank])
                        ELSE kvs_learned
      /\ UNCHANGED << store, status, reply, latest, stale, faulty, gc_len >>
      /\ UNCHANGED << pc, first, end_key, kvs_lsm, read_pos, end_pos, lsm_it, learned_it, kvs >>
  BY DEF ReadNothing, merged, positions, vars
<1>2. /\ read_pos \in Nat /\ end_pos \in Nat /\ kvs_learned \in Seq(Entry)
      /\ lsm_it = 0 /\ learned_it = 0 /\ kvs = << >>
  BY <1>1 DEF ScanInv, ScanTypeOK, ListsByStage
<1> DEFINE e == [key |-> KeyZero, val |-> Blank]
<1>3. e \in Entry
  BY DEF Entry
<1>4. kvs_learned' \in Seq(Entry) /\ Len(kvs_learned') \in Nat
  <2>1. kvs_learned' = Append(kvs_learned, e) \/ kvs_learned' = kvs_learned
    BY <1>1
  <2> HIDE DEF e
  <2>2. kvs_learned' \in Seq(Entry)
    BY <1>2, <1>3, <2>1, AppendEntry
  <2> QED BY <2>2, EntryIs
<1>5. Inv' /\ SortedFile(model_file)'
  BY <1>1, StoreKept
<1>6. ScanTypeOK'
  BY <1>1, <1>2, <1>4 DEF ScanInv, ScanTypeOK
<1>7. ListsByStage'
  BY <1>1 DEF ScanInv, ListsByStage
<1>8. MergeStage'
  <2>1. Ascending(kvs)'
    BY <1>1, <1>2, NoEntries DEF Ascending
  <2> QED BY <1>1, <2>1 DEF MergeStage, Returned
<1>9. LsmStage'
  <2>1. LsmPart(kvs_lsm)'
    BY <1>1, PartsKept DEF ScanInv, LsmStage
  <2> QED BY <1>1, <2>1 DEF LsmStage, Returned
<1>10. ReadStage'
  <2> SUFFICES ASSUME Healthy', Interior', LearnedIndexUsed PROVE FALSE
    BY DEF ReadStage
  <2>1. Healthy /\ Interior
    BY <1>1 DEF Healthy, Interior, store
  <2>2. PICK a \in 1..gc_len, b \in 1..gc_len : LearnedPart(a, b)
    BY <1>1, <2>1 DEF ScanInv, ReadStage
  <2>3. gc_len \in Nat /\ gc_len <= Len(vlog) /\ Len(vlog) \in Nat
    BY <2>1 DEF ScanInv, Inv, TypeOK, CounterMatchesLog
  <2>4. end_pos = b - 1
    BY <2>2 DEF LearnedPart
  <2> QED BY <1>1, <1>2, <2>3, <2>4
<1> QED BY <1>5, <1>6, <1>7, <1>8, <1>9, <1>10 DEF ScanInv

LEMMA ReadEndsInv == ASSUME ScanInv, ReadEnds PROVE ScanInv'
<1>1. /\ pc = "read" /\ pc' = "merge" /\ read_pos >= end_pos
      /\ UNCHANGED << store, status, reply, latest, stale, faulty, gc_len >>
      /\ UNCHANGED << first, end_key, kvs_lsm, kvs_learned, read_pos, end_pos, lsm_it,
                      learned_it, kvs >>
  BY DEF ReadEnds, merged, positions, parts, vars
<1>2. /\ read_pos \in Nat /\ end_pos \in Nat
      /\ kvs_lsm \in Seq(Entry) /\ kvs_learned \in Seq(Entry)
      /\ lsm_it = 0 /\ learned_it = 0 /\ kvs = << >>
  BY <1>1 DEF ScanInv, ScanTypeOK, ListsByStage
<1>3. Inv' /\ SortedFile(model_file)'
  BY <1>1, StoreKept
<1>4. ScanTypeOK' /\ ListsByStage'
  BY <1>1 DEF ScanInv, ScanTypeOK, ListsByStage
<1>5. MergeStage'
  <2>1. Merging(<< >>, kvs_lsm, 0, kvs_learned, 0)
    BY <1>2, MergeStarts
  <2>2. Merging(kvs', kvs_lsm', lsm_it', kvs_learned', learned_it')
    BY <1>1, <1>2, <2>1
  <2>3. Ascending(kvs')
    BY <2>2 DEF Merging
  <2> QED BY <1>1, <2>2, <2>3 DEF MergeStage, Returned, Merging, Ascending, Above, Origin,
         Entries, EntryKeys
<1>6. LsmStage'
  <2>1. LsmPart(kvs_lsm)'
    BY <1>1, PartsKept DEF ScanInv, LsmStage
  <2> QED BY <1>1, <2>1 DEF LsmStage, Returned
<1>7. ReadStage'
  <2> SUFFICES ASSUME Healthy', Interior', LearnedIndexUsed
               PROVE  (\E a, b \in 1..gc_len : LearnedPart(a, b))' /\ read_pos' = end_pos'
    BY DEF ReadStage
  <2>1. Healthy /\ Interior
    BY <1>1 DEF Healthy, Interior, store
  <2>2. PICK a \in 1..gc_len, b \in 1..gc_len : LearnedPart(a, b)
    BY <1>1, <2>1 DEF ScanInv, ReadStage
  <2>3. read_pos <= end_pos
    BY <2>2 DEF LearnedPart
  <2>4. LearnedPart(a, b)' /\ gc_len' = gc_len
    BY <1>1, <2>2 DEF LearnedPart, store
  <2> QED BY <1>1, <1>2, <2>3, <2>4
<1> QED BY <1>3, <1>4, <1>5, <1>6, <1>7 DEF ScanInv

\* The steps of the merge leave what both parts found alone.
LEMMA PartsStay ==
    ASSUME ScanInv, pc = "merge", pc' \in {"merge", "done"},
           UNCHANGED << store, status, reply, latest, stale, faulty, gc_len >>,
           UNCHANGED << first, end_key, kvs_lsm, kvs_learned, read_pos, end_pos >>
    PROVE  LsmStage' /\ ReadStage'
<1>1. LearnedIndexUsed
  BY DEF ScanInv, ListsByStage
<1>2. LsmStage'
  <2>1. LsmPart(kvs_lsm)'
    BY PartsKept DEF ScanInv, LsmStage
  <2> QED BY <1>1, <2>1 DEF LsmStage
<1>3. ReadStage'
  <2> SUFFICES ASSUME Healthy', Interior'
               PROVE  (\E a, b \in 1..gc_len : LearnedPart(a, b))' /\ read_pos' = end_pos'
    BY DEF ReadStage
  <2>1. Healthy /\ Interior
    BY DEF Healthy, Interior, store
  <2>2. PICK a \in 1..gc_len, b \in 1..gc_len : LearnedPart(a, b)
    BY <1>1, <2>1 DEF ScanInv, ReadStage
  <2>3. read_pos = end_pos
    BY <1>1, <2>1 DEF ScanInv, ReadStage
  <2>4. LearnedPart(a, b)' /\ gc_len' = gc_len
    BY <2>2 DEF LearnedPart, store
  <2> QED BY <2>3, <2>4
<1> QED BY <1>2, <1>3

LEMMA MergeStepInv == ASSUME ScanInv, MergeStep PROVE ScanInv'
<1> DEFINE e == IF Lsm.key <= Learned.key THEN Lsm ELSE Learned
<1>1. /\ pc = "merge" /\ pc' = "merge" /\ BothLeft
      /\ kvs' = Append(kvs, e)
      /\ lsm_it' = IF Lsm.key <= Learned.key THEN lsm_it + 1 ELSE lsm_it
      /\ learned_it' = IF Learned.key <= Lsm.key THEN learned_it + 1 ELSE learned_it
      /\ UNCHANGED << store, status, reply, latest, stale, faulty, gc_len >>
      /\ UNCHANGED << first, end_key, kvs_lsm, kvs_learned, read_pos, end_pos >>
  BY DEF MergeStep, positions, parts, vars
<1>2. /\ kvs_lsm \in Seq(Entry) /\ kvs_learned \in Seq(Entry) /\ kvs \in Seq(Entry)
      /\ lsm_it \in 0..Len(kvs_lsm) /\ learned_it \in 0..Len(kvs_learned)
      /\ lsm_it < Len(kvs_lsm) /\ learned_it < Len(kvs_learned)
      /\ Lsm = kvs_lsm[lsm_it + 1] /\ Learned = kvs_learned[learned_it + 1]
  BY <1>1 DEF ScanInv, ScanTypeOK, BothLeft, Lsm, Learned
<1>3. Len(kvs_lsm) \in Nat /\ Len(kvs_learned) \in Nat
  BY <1>2, EntryIs
<1>4. lsm_it + 1 \in 1..Len(kvs_lsm) /\ learned_it + 1 \in 1..Len(kvs_learned)
  BY <1>2, <1>3
<1>5. Lsm \in Entry /\ Learned \in Entry /\ Lsm.key \in Nat /\ Learned.key \in Nat
  BY <1>2, <1>4, EntryIs
<1>6. lsm_it' \in 0..Len(kvs_lsm) /\ learned_it' \in 0..Len(kvs_learned)
  BY <1>1, <1>2, <1>3
<1>7. e \in Entry
  BY <1>5
<1>8. kvs' \in Seq(Entry)
  <2> HIDE DEF e
  <2> QED BY <1>1, <1>2, <1>7, AppendEntry
<1>9. Inv' /\ SortedFile(model_file)'
  BY <1>1, StoreKept
<1>10. ScanTypeOK'
  BY <1>1, <1>6, <1>8 DEF ScanInv, ScanTypeOK
<1>11. ListsByStage'
  BY <1>1 DEF ScanInv, ListsByStage
<1>12. LsmStage' /\ ReadStage'
  BY <1>1, PartsStay
<1>13. MergeStage'
  <2> SUFFICES ASSUME Ascending(kvs_lsm), Ascending(kvs_learned)
               PROVE  Merging(kvs', kvs_lsm', lsm_it', kvs_learned', learned_it')
    <3>1. Merging(kvs', kvs_lsm', lsm_it', kvs_learned', learned_it') => Ascending(kvs')
      BY DEF Merging
    <3>2. Ascending(kvs_lsm)' => Ascending(kvs_lsm)
      BY <1>1 DEF Ascending
    <3>3. Ascending(kvs_learned)' => Ascending(kvs_learned)
      BY <1>1 DEF Ascending
    <3> QED BY <1>1, <3>1, <3>2, <3>3 DEF MergeStage, Returned, Merging, Ascending, Above,
           Origin, Entries, EntryKeys
  <2>1. Merging(kvs, kvs_lsm, lsm_it, kvs_learned, learned_it)
    BY <1>1 DEF ScanInv, MergeStage
  <2>2. e = IF kvs_lsm[lsm_it + 1].key <= kvs_learned[learned_it + 1].key
            THEN kvs_lsm[lsm_it + 1] ELSE kvs_learned[learned_it + 1]
    BY <1>2
  <2> HIDE DEF e
  <2>3. Merging(Append(kvs, e), kvs_lsm, lsm_it', kvs_learned, learned_it')
    BY <1>1, <1>2, <1>6, <1>7, <2>1, <2>2, MergeTakes
  <2> QED BY <1>1, <2>3
<1> QED BY <1>9, <1>10, <1>11, <1>12, <1>13 DEF ScanInv

LEMMA MergeRestInv == ASSUME ScanInv, MergeRest PROVE ScanInv'
<1> DEFINE s == kvs_lsm
           t == kvs_learned
           rs == SubSeq(s, lsm_it + 1, Len(s))
           rt == SubSeq(t, learned_it + 1, Len(t))
<1>1. /\ pc = "merge" /\ pc' = "done" /\ ~BothLeft
      /\ kvs' = kvs \o rs \o rt
      /\ UNCHANGED << store, status, reply, latest, stale, faulty, gc_len >>
      /\ UNCHANGED << first, end_key, kvs_lsm, kvs_learned, read_pos, end_pos, lsm_it, learned_it >>
  BY DEF MergeRest, positions, parts, vars
<1>2. /\ s \in Seq(Entry) /\ t \in Seq(Entry) /\ kvs \in Seq(Entry)
      /\ lsm_it \in 0..Len(s) /\ learned_it \in 0..Len(t)
  BY DEF ScanInv, ScanTypeOK
<1>3. Len(s) \in Nat /\ Len(t) \in Nat
  BY <1>2, EntryIs
<1>4. lsm_it = Len(s) \/ learned_it = Len(t)
  BY <1>1, <1>2, <1>3 DEF BothLeft
<1>5. rs \in Seq(Entry) /\ rt \in Seq(Entry)
  BY <1>2, RestIs
<1>6. kvs' \in Seq(Entry)
  <2> HIDE DEF rs, rt
  <2>1. kvs \o rs \in Seq(Entry)
    BY <1>2, <1>5, Concatenation DEF Concatenated
  <2>2. (kvs \o rs) \o rt \in Seq(Entry)
    BY <1>5, <2>1, Concatenation DEF Concatenated
  <2> QED BY <1>1, <2>2
<1>7. Inv' /\ SortedFile(model_file)'
  BY <1>1, StoreKept
<1>8. ScanTypeOK'
  BY <1>1, <1>6 DEF ScanInv, ScanTypeOK
<1>9. ListsByStage'
  BY <1>1 DEF ScanInv, ListsByStage
<1>10. LsmStage' /\ ReadStage'
  BY <1>1, PartsStay
<1>11. MergeStage'
  <2> SUFFICES ASSUME Ascending(s), Ascending(t)
               PROVE  Merged(kvs', s, t)
    <3>1. Merged(kvs', s, t) => Ascending(kvs') /\ Merged(kvs', kvs_lsm', kvs_learned')
      BY <1>1 DEF Merged
    <3>2. Ascending(kvs_lsm)' => Ascending(s)
      BY <1>1 DEF Ascending
    <3>3. Ascending(kvs_learned)' => Ascending(t)
      BY <1>1 DEF Ascending
    <3> QED BY <1>1, <3>1, <3>2, <3>3 DEF MergeStage, Merged, Ascending,
           Origin, Entries, EntryKeys
  <2>1. Merging(kvs, s, lsm_it, t, learned_it)
    BY <1>1 DEF ScanInv, MergeStage
  <2>2. kvs' = kvs \o SubSeq(s, lsm_it + 1, Len(s)) \o SubSeq(t, learned_it + 1, Len(t))
    BY <1>1
  <2> HIDE DEF s, t
  <2> QED BY <1>2, <1>4, <2>1, <2>2, MergeFinishes
<1> QED BY <1>7, <1>8, <1>9, <1>10, <1>11 DEF ScanInv

LEMMA EndScanInv == ASSUME ScanInv, EndScan PROVE ScanInv'
<1>1. /\ pc' = "idle" /\ first' = 0 /\ end_key' = 0
      /\ kvs_lsm' = << >> /\ kvs_learned' = << >> /\ read_pos' = 0 /\ end_pos' = 0
      /\ lsm_it' = 0 /\ learned_it' = 0 /\ kvs' = << >>
      /\ UNCHANGED << store, status, reply, latest, stale, faulty, gc_len >>
  BY DEF EndScan, vars
<1>2. Inv' /\ SortedFile(model_file)'
  BY <1>1, StoreKept
<1>3. ScanTypeOK'
  BY <1>1, NoEntries, MaxKeyAssumption DEF ScanTypeOK
<1>4. ListsByStage' /\ LsmStage' /\ ReadStage'
  BY <1>1 DEF ListsByStage, LsmStage, ReadStage, Returned
<1>5. MergeStage'
  BY <1>1, NoEntries DEF MergeStage, Returned, Ascending
<1> QED BY <1>2, <1>3, <1>4, <1>5 DEF ScanInv

LEMMA ScanNextInv == ScanInv /\ [ScanNext]_allVars => ScanInv'
<1> SUFFICES ASSUME ScanInv, [ScanNext]_allVars PROVE ScanInv'
  OBVIOUS
<1>1. CASE pc = "idle" /\ Next /\ UNCHANGED scanVars
  BY <1>1, IdleInv
<1>2. CASE ScanStep
  BY <1>2, ScanLsmInv, ScanFailsInv, FindPositionsInv, ScanCrashesInv, ReadRecordInv,
     ReadNothingInv, ReadEndsInv, MergeStepInv, MergeRestInv, EndScanInv DEF ScanStep
<1>3. CASE UNCHANGED allVars
  <2>1. /\ UNCHANGED << store, status, reply, latest, stale, faulty, gc_len >>
        /\ UNCHANGED << pc, first, end_key, kvs_lsm, kvs_learned, read_pos, end_pos, lsm_it,
                        learned_it, kvs >>
    BY <1>3 DEF allVars, vars, scanVars, parts, positions, merged
  <2>2. Inv' /\ SortedFile(model_file)'
    BY <2>1, StoreKept
  <2>3. ScanTypeOK' /\ ListsByStage'
    BY <2>1 DEF ScanInv, ScanTypeOK, ListsByStage
  <2>4. MergeStage'
    <3>1. Returned' => Returned
      BY <2>1 DEF Returned, Healthy
    <3> QED BY <2>1, <3>1 DEF ScanInv, MergeStage
  <2>5. LsmStage'
    <3>1. LsmPart(kvs_lsm) => LsmPart(kvs_lsm)'
      BY <2>1, PartsKept
    <3> QED BY <2>1, <3>1 DEF ScanInv, LsmStage, Returned, Healthy
  <2>6. ReadStage'
    BY <2>1 DEF ScanInv, ReadStage, Returned, Healthy, Interior, LearnedPart, store
  <2> QED BY <2>2, <2>3, <2>4, <2>5, <2>6 DEF ScanInv
<1> QED BY <1>1, <1>2, <1>3, BeginScanInv DEF ScanNext

THEOREM ScanInvariance == ScanSpec => []ScanInv
BY ScanInitInv, ScanNextInv, PTL DEF ScanSpec

\* Type correctness of a scan, whatever the searches end at and however far its
\* loop runs behind the end of the log.
THEOREM ScanTypeCorrect == ScanSpec => []ScanTypeOK
<1>1. ScanInv => ScanTypeOK
  BY DEF ScanInv
<1> QED BY <1>1, ScanInvariance, PTL

\* mergeKeyValueVectors returns ascending keys without duplicates.
THEOREM MergeCorrect == ScanSpec => []MergedAscending
<1>1. ScanInv => MergedAscending
  BY DEF ScanInv, MergeStage, MergedAscending
<1> QED BY <1>1, ScanInvariance, PTL
-----------------------------------------------------------------------------
(***************************************************************************)
(* What a scan returns.                                                    *)
(***************************************************************************)
\* The records read are those of the learned part whose keys are in the range,
\* in ascending order; a key of them without a pointer has no later record.
LEMMA LearnedRecords ==
    ASSUME ScanInv, Returned, Interior, LearnedIndexUsed
    PROVE  /\ Ascending(kvs_learned)
           /\ \A e \in Entries(kvs_learned) : e.key \in LogKeys(vlog) /\ InRange(e.key)
           /\ \A e \in Entries(kvs_learned) : db[e.key] = NoPtr => e.val = latest[e.key]
           /\ \A k \in LogKeys(vlog) :
                InRange(k) /\ LastIndex(vlog, k) <= gc_len => k \in EntryKeys(kvs_learned)
<1> DEFINE t == kvs_learned
<1>1. PICK a \in 1..gc_len, b \in 1..gc_len : LearnedPart(a, b)
  BY DEF ScanInv, ReadStage, Returned
<1>2. /\ a < b /\ vlog[a].key = first /\ vlog[b].key = end_key
      /\ Len(t) = b - a /\ \A j \in 1..Len(t) : t[j] = vlog[a - 1 + j]
  <2>1. read_pos = end_pos /\ end_pos = b - 1 /\ Len(t) = read_pos - (a - 1)
    BY <1>1 DEF ScanInv, ReadStage, Returned, LearnedPart
  <2>2. gc_len \in Nat
    BY DEF ScanInv, Inv, TypeOK
  <2>3. Len(t) = b - a
    BY <2>1, <2>2
  <2> QED BY <1>1, <2>3 DEF LearnedPart
<1>3. /\ gc_len \in Nat /\ gc_len <= Len(vlog) /\ Len(vlog) \in Nat /\ vlog \in Seq(Record)
      /\ DOMAIN vlog = 1..Len(vlog)
  BY DEF ScanInv, Inv, TypeOK, CounterMatchesLog, Returned, Record
<1>4. \A j \in 1..gc_len : /\ j \in 1..Len(vlog) /\ vlog[j].key \in LogKeys(vlog)
                           /\ vlog[j].key \in Keys /\ vlog[j].key \in Nat
  <2> TAKE j \in 1..gc_len
  <2>1. j \in 1..Len(vlog)
    BY <1>3
  <2>2. vlog[j].key \in LogKeys(vlog)
    BY <1>3, <2>1 DEF LogKeys
  <2>3. vlog[j].key \in Keys
    BY <1>3, <2>2, LogKeysType
  <2> QED BY <2>1, <2>2, <2>3, KeysAssumption
<1>5. \A i, j \in 1..gc_len : i < j => vlog[i].key < vlog[j].key
  <2>1. gc_len >= 2
    BY DEF Interior
  <2> QED BY <2>1 DEF ScanInv, Inv, KeyArrayMatchesLog, Returned
<1>6. \A j \in 1..Len(t) : a - 1 + j \in 1..gc_len /\ a <= a - 1 + j /\ a - 1 + j < b
  BY <1>2, <1>3
<1>7. t \in Seq(Entry) /\ DOMAIN t = 1..Len(t)
  BY EntryIs DEF ScanInv, ScanTypeOK
<1>8. \A j \in 1..gc_len : InRange(vlog[j].key) <=> a <= j /\ j < b
  <2> TAKE j \in 1..gc_len
  <2>1. vlog[j].key \in Nat /\ first \in Nat /\ end_key \in Nat
    BY <1>2, <1>4
  <2>2. /\ j < a => vlog[j].key < first
        /\ a < j => first < vlog[j].key
        /\ j = a => vlog[j].key = first
        /\ j < b => vlog[j].key < end_key
        /\ b < j => end_key < vlog[j].key
        /\ j = b => vlog[j].key = end_key
    BY <1>2, <1>5
  <2>3. (j < a \/ a < j \/ j = a) /\ (j < b \/ b < j \/ j = b) /\ j \in Int /\ a \in Int /\ b \in Int
    BY <1>3
  <2> QED BY <2>1, <2>2, <2>3 DEF InRange
<1> HIDE DEF t
<1>9. Ascending(t)
  <2>1. ASSUME NEW i \in 1..Len(t), NEW j \in 1..Len(t), i < j
        PROVE  t[i].key < t[j].key
    <3>1. /\ a - 1 + i \in 1..gc_len /\ a - 1 + j \in 1..gc_len
          /\ t[i] = vlog[a - 1 + i] /\ t[j] = vlog[a - 1 + j]
      BY <1>2, <1>6
    <3>2. a - 1 + i < a - 1 + j
      BY <1>2, <1>3, <2>1
    <3>3. vlog[a - 1 + i].key < vlog[a - 1 + j].key
      BY <1>5, <3>1, <3>2
    <3> QED BY <3>1, <3>3
  <2> QED BY <1>7, <2>1 DEF Ascending
<1>10. ASSUME NEW e \in Entries(t)
       PROVE  \E j \in 1..gc_len : e = vlog[j] /\ a <= j /\ j < b
  BY <1>2, <1>6, <1>7 DEF Entries
<1>11. \A e \in Entries(t) : e.key \in LogKeys(vlog) /\ InRange(e.key)
  BY <1>4, <1>8, <1>10
<1>12. ASSUME NEW k \in LogKeys(vlog), NEW j \in 1..gc_len, vlog[j].key = k,
              LastIndex(vlog, k) <= gc_len
       PROVE  LastIndex(vlog, k) = j
  <2>1. LastIndex(vlog, k) \in 1..Len(vlog) /\ vlog[LastIndex(vlog, k)].key = k
    BY <1>3, LastIndexIs
  <2> DEFINE l == LastIndex(vlog, k)
  <2>2. l \in 1..gc_len
    BY <1>3, <1>12, <2>1
  <2> HIDE DEF l
  <2>3. k \in Nat /\ vlog[l].key = k
    BY <1>4, <1>12, <2>1 DEF l
  <2>4. ~(l < j) /\ ~(j < l)
    BY <1>5, <1>12, <2>2, <2>3
  <2>5. l = j
    BY <1>3, <2>2, <2>4
  <2> QED BY <2>5 DEF l
<1>13. ASSUME NEW e \in Entries(t), db[e.key] = NoPtr PROVE e.val = latest[e.key]
  <2>1. PICK j \in 1..gc_len : e = vlog[j]
    BY <1>10
  <2>2. e.key \in LogKeys(vlog) /\ e.key \in Keys
    BY <1>4, <2>1
  <2>3. ~(LastIndex(vlog, e.key) > gc_len)
    BY <1>13, <2>2 DEF ScanInv, Inv, PointersCurrent, Returned
  <2>4. LastIndex(vlog, e.key) \in 1..Len(vlog)
    BY <1>3, <2>2, LastIndexIs
  <2>5. LastIndex(vlog, e.key) <= gc_len
    BY <1>3, <2>3, <2>4
  <2>6. LastIndex(vlog, e.key) = j
    BY <1>12, <2>1, <2>2, <2>5
  <2>7. ValidValue(vlog, e.key) = latest[e.key]
    BY <2>2 DEF ScanInv, Inv, RecordsAreLatest, StaleByLateFlush
  <2> QED BY <2>1, <2>6, <2>7 DEF ValidValue
<1>14. ASSUME NEW k \in LogKeys(vlog), InRange(k), LastIndex(vlog, k) <= gc_len
       PROVE  k \in EntryKeys(t)
  <2> DEFINE l == LastIndex(vlog, k)
  <2>1. l \in 1..Len(vlog) /\ vlog[l].key = k
    BY <1>3, LastIndexIs
  <2>2. l \in 1..gc_len
    BY <1>3, <1>14, <2>1
  <2> HIDE DEF l
  <2>3. a <= l /\ l < b
    BY <1>8, <1>14, <2>1, <2>2
  <2>4. l - a + 1 \in 1..Len(t) /\ a - 1 + (l - a + 1) = l
    BY <1>2, <1>3, <2>2, <2>3
  <2>5. t[l - a + 1] = vlog[l]
    BY <1>2, <2>4
  <2> QED BY <1>7, <2>1, <2>4, <2>5 DEF EntryKeys
<1> QED BY <1>9, <1>11, <1>13, <1>14 DEF t

\* The keys and values a scan returns, in every state of the invariant.
LEMMA ResultInv ==
    ASSUME ScanInv, Returned, Interior
    PROVE  /\ EntryKeys(kvs) = {k \in LogKeys(vlog) : InRange(k)}
           /\ Ascending(kvs)
           /\ \A e \in Entries(kvs) :
                IF db[e.key] = NoPtr THEN e.val = latest[e.key] ELSE e.val = ScanValue(db[e.key])
<1>1. LsmPart(kvs_lsm)
  BY DEF ScanInv, LsmStage
<1>2. LogKeys(vlog) \subseteq Keys
  BY LogKeysType DEF ScanInv, Inv, TypeOK, Record
<1>3. \A k \in Keys :
        /\ db[k] # NoPtr => k \in LogKeys(vlog)
        /\ k \in LogKeys(vlog) /\ (LearnedIndexUsed => LastIndex(vlog, k) > gc_len)
                => db[k] # NoPtr
  BY DEF ScanInv, Inv, PointersCurrent, Returned
<1>4. /\ EntryKeys(kvs_lsm) = {k \in Keys : db[k] # NoPtr /\ InRange(k)}
      /\ \A e \in Entries(kvs_lsm) : e.key \in EntryKeys(kvs_lsm)
      /\ \A e \in Entries(kvs_lsm) : e.val = ScanValue(db[e.key])
  BY <1>1 DEF LsmPart, Entries, EntryKeys
<1>5. CASE ~LearnedIndexUsed
  <2>1. kvs = kvs_lsm
    BY <1>5 DEF ScanInv, LsmStage
  <2>2. EntryKeys(kvs) = {k \in LogKeys(vlog) : InRange(k)}
    BY <1>2, <1>3, <1>4, <1>5, <2>1
  <2>3. \A e \in Entries(kvs) : db[e.key] # NoPtr /\ e.val = ScanValue(db[e.key])
    BY <1>4, <2>1
  <2> QED BY <1>1, <2>1, <2>2, <2>3 DEF LsmPart
<1>6. CASE LearnedIndexUsed
  <2>1. /\ Ascending(kvs_learned)
        /\ \A e \in Entries(kvs_learned) : e.key \in LogKeys(vlog) /\ InRange(e.key)
        /\ \A e \in Entries(kvs_learned) : db[e.key] = NoPtr => e.val = latest[e.key]
        /\ \A k \in LogKeys(vlog) :
            InRange(k) /\ LastIndex(vlog, k) <= gc_len => k \in EntryKeys(kvs_learned)
    BY <1>6, LearnedRecords
  <2>2. Merged(kvs, kvs_lsm, kvs_learned)
    BY <1>1, <1>6, <2>1 DEF ScanInv, MergeStage, LsmPart
  <2>3. Origin(kvs, kvs_lsm, kvs_learned)
        /\ EntryKeys(kvs_lsm) \subseteq EntryKeys(kvs)
        /\ EntryKeys(kvs_learned) \subseteq EntryKeys(kvs)
    BY <2>2 DEF Merged
  <2>4. ASSUME NEW e \in Entries(kvs)
        PROVE  /\ e.key \in LogKeys(vlog) /\ InRange(e.key)
               /\ IF db[e.key] = NoPtr THEN e.val = latest[e.key]
                  ELSE e.val = ScanValue(db[e.key])
    <3>1. CASE e \in Entries(kvs_lsm)
      BY <1>3, <1>4, <3>1
    <3>2. CASE e \in Entries(kvs_learned) /\ e.key \notin EntryKeys(kvs_lsm)
      BY <1>2, <1>4, <2>1, <3>2
    <3> QED BY <2>3, <3>1, <3>2 DEF Origin
  <2>5. ASSUME NEW k \in LogKeys(vlog), InRange(k) PROVE k \in EntryKeys(kvs)
    <3>1. CASE db[k] # NoPtr
      BY <1>2, <1>4, <2>3, <2>5, <3>1
    <3>2. CASE db[k] = NoPtr
      <4>1. LastIndex(vlog, k) \in Nat /\ gc_len \in Nat
        <5>1. vlog \in Seq(Record) /\ gc_len \in Nat
          BY DEF ScanInv, Inv, TypeOK, Record
        <5>2. LastIndex(vlog, k) \in 1..Len(vlog)
          BY <5>1, LastIndexIs
        <5> QED BY <5>1, <5>2
      <4>2. LastIndex(vlog, k) <= gc_len
        BY <1>2, <1>3, <3>2, <4>1
      <4> QED BY <2>1, <2>3, <2>5, <4>2
    <3> QED BY <3>1, <3>2
  <2>6. \A k \in EntryKeys(kvs) : k \in LogKeys(vlog) /\ InRange(k)
    BY <2>4 DEF Entries, EntryKeys
  <2>7. EntryKeys(kvs) = {k \in LogKeys(vlog) : InRange(k)}
    BY <2>5, <2>6
  <2> QED BY <2>2, <2>4, <2>7 DEF Merged
<1> QED BY <1>5, <1>6

\* scan returns exactly the keys of its range that have a record, in order and
\* once each, when the learned index is not used or holds both ends.
THEOREM KeysExact == ScanSpec => []ScanKeysExact
<1>1. ScanInv => ScanKeysExact
  BY ResultInv DEF ScanKeysExact
<1> QED BY <1>1, ScanInvariance, PTL

\* The value comes from the database part whenever the database has the key, and
\* is the last one put otherwise.
THEOREM DatabasePreferred == ScanSpec => []ScanPrefersDatabase
<1>1. ScanInv => ScanPrefersDatabase
  BY ResultInv DEF ScanPrefersDatabase
<1> QED BY <1>1, ScanInvariance, PTL
-----------------------------------------------------------------------------
(***************************************************************************)
(* How long a scan runs.                                                   *)
(***************************************************************************)
\* The stages still ahead of a scan.
Ahead ==
    CASE pc = "lsm" -> 5 [] pc = "learned" -> 4 [] pc = "read" -> 3
      [] pc = "merge" -> 2 [] pc = "done" -> 1 [] OTHER -> 0

\* What its stage has left: records to read, or entries to merge.
Rest ==
    IF pc = "read" THEN end_pos - read_pos
    ELSE IF pc = "merge" THEN (Len(kvs_lsm) - lsm_it) + (Len(kvs_learned) - learned_it)
    ELSE 0

\* A stage is over, or it has less left than before.
Advances == Ahead' < Ahead \/ (Ahead' = Ahead /\ Rest \in Nat /\ Rest' \in Nat /\ Rest' < Rest)

LEMMA ReadAdvances ==
    ASSUME ScanInv, Healthy, Interior, ReadRecord \/ ReadNothing
    PROVE  Advances
<1>1. pc = "read" /\ read_pos < end_pos /\ read_pos \in Nat /\ end_pos \in Nat
  BY DEF ReadRecord, ReadNothing, ScanInv, ScanTypeOK
<1>2. read_pos < Len(vlog)
  <2>1. LearnedIndexUsed
    BY <1>1 DEF ScanInv, ListsByStage
  <2>2. PICK a \in 1..gc_len, b \in 1..gc_len : LearnedPart(a, b)
    BY <1>1, <2>1 DEF ScanInv, ReadStage
  <2>3. gc_len \in Nat /\ gc_len <= Len(vlog) /\ Len(vlog) \in Nat
    BY DEF ScanInv, Inv, TypeOK, CounterMatchesLog
  <2>4. end_pos = b - 1
    BY <2>2 DEF LearnedPart
  <2> QED BY <1>1, <2>3, <2>4
<1>3. pc' = pc /\ read_pos' = read_pos + 1 /\ end_pos' = end_pos
  <2>1. Len(vlog) \in Nat
    BY DEF ScanInv, Inv, TypeOK
  <2> QED BY <1>1, <1>2, <2>1 DEF ReadRecord, ReadNothing
<1>4. Ahead' = Ahead
  BY <1>3 DEF Ahead
<1>5. Rest = end_pos - read_pos /\ Rest' = end_pos - (read_pos + 1)
  BY <1>1, <1>3 DEF Rest
<1> HIDE DEF Rest
<1> QED BY <1>1, <1>4, <1>5 DEF Advances

LEMMA MergeAdvances ==
    ASSUME ScanInv, MergeStep
    PROVE  Advances
<1> DEFINE n == Len(kvs_lsm)
           m == Len(kvs_learned)
<1>1. /\ pc = "merge" /\ pc' = pc /\ kvs_lsm' = kvs_lsm /\ kvs_learned' = kvs_learned
      /\ lsm_it < n /\ learned_it < m
      /\ lsm_it' = IF Lsm.key <= Learned.key THEN lsm_it + 1 ELSE lsm_it
      /\ learned_it' = IF Learned.key <= Lsm.key THEN learned_it + 1 ELSE learned_it
  BY DEF MergeStep, parts, BothLeft
<1>2. /\ kvs_lsm \in Seq(Entry) /\ kvs_learned \in Seq(Entry)
      /\ lsm_it \in 0..n /\ learned_it \in 0..m
  BY DEF ScanInv, ScanTypeOK
<1>3. n \in Nat /\ m \in Nat
  BY <1>2, EntryIs
<1>4. Lsm.key \in Nat /\ Learned.key \in Nat
  <2>1. lsm_it + 1 \in 1..n /\ learned_it + 1 \in 1..m
    BY <1>1, <1>2, <1>3
  <2> QED BY <1>2, <2>1, EntryIs DEF Lsm, Learned
<1>5. Ahead' = Ahead
  BY <1>1 DEF Ahead
<1>6. /\ Rest = (n - lsm_it) + (m - learned_it)
      /\ Rest' = (n - lsm_it') + (m - learned_it')
  BY <1>1 DEF Rest
<1>7. /\ lsm_it' \in {lsm_it, lsm_it + 1} /\ learned_it' \in {learned_it, learned_it + 1}
      /\ lsm_it' = lsm_it + 1 \/ learned_it' = learned_it + 1
  BY <1>1, <1>4
<1> HIDE DEF Rest, n, m
<1>8. Rest \in Nat /\ Rest' \in Nat /\ Rest' < Rest
  BY <1>1, <1>2, <1>3, <1>6, <1>7
<1> QED BY <1>5, <1>8 DEF Advances

\* Both searches end somewhere.
LEMMA PositionsExist ==
    ASSUME TypeOK, SortedFile(model_file), NEW k \in Nat, NEW pos, pos = Predicted(k)
    PROVE  StartPositions(pos, k) # {} /\ EndPositions(pos, k) # {}
<1>1. Misled(pos) # {}
  BY DEF Misled
<1>2. StartPositions(pos, k) # {}
  BY <1>1 DEF StartPositions
<1>3. EndPositions(pos, k) # {}
  <2> DEFINE H == {p \in Window(pos) : p < Len(key_array_file) /\ key_array_file[p + 1] >= k}
  <2>1. CASE H = {}
    BY <1>1, <2>1 DEF EndPositions
  <2>2. CASE H # {}
    <3>1. pos \in Nat \cup {-1}
      BY PredictedType
    <3>2. Window(pos) \subseteq Nat /\ WindowStart(pos) \in Nat /\ pos + ErrBound - 1 \in Int
      BY <3>1, ErrBoundAssumption DEF Window, WindowStart
    <3>3. PICK c \in H : \A d \in H : c <= d
      <4>1. H \in SUBSET Nat
        BY <3>2
      <4> HIDE DEF H
      <4> QED BY <2>2, <4>1, SmallestElement
    <3>4. \A q \in WindowStart(pos)..(c - 1) : key_array_file[q + 1] < k
      <4> SUFFICES ASSUME NEW q \in WindowStart(pos)..(c - 1)
                   PROVE  key_array_file[q + 1] < k
        OBVIOUS
      <4>1. c \in Nat /\ c \in Window(pos) /\ c < Len(key_array_file)
        BY <3>2, <3>3
      <4>2. key_array_file \in Seq(Keys) /\ Len(key_array_file) \in Nat
        BY DEF TypeOK
      <4>3. q \in Nat /\ q < c /\ q \in Window(pos) /\ q < Len(key_array_file)
        BY <3>2, <4>1, <4>2 DEF Window
      <4>4. q \notin H
        BY <3>3, <4>1, <4>3
      <4>5. q + 1 \in 1..Len(key_array_file)
        BY <4>2, <4>3
      <4>6. key_array_file[q + 1] \in Nat
        <5>1. key_array_file[q + 1] \in Keys
          BY <4>2, <4>5
        <5> QED BY <5>1, KeysAssumption
      <4> QED BY <4>3, <4>4, <4>6
    <3>5. c \in EndPositions(pos, k)
      BY <3>3, <3>4 DEF EndPositions
    <3> QED BY <3>5
  <2> QED BY <2>1, <2>2
<1> QED BY <1>2, <1>3

\* A scan is never stuck: the range of the database can be listed, whatever it
\* holds, and the searches in the key array end somewhere, whatever the model
\* predicts and whether or not the ends of the range are in it.  The guards of the
\* other stages leave no case out.
THEOREM ScanNotStuck ==
    ScanSpec => [](/\ SortedSeqs({k \in Keys : db[k] # NoPtr /\ InRange(k)}) # {}
                   /\ pc = "learned" =>
                        /\ StartPositions(Predicted(first), first) # {}
                        /\ EndPositions(Predicted(end_key), end_key) # {})
<1> DEFINE Open == /\ SortedSeqs({k \in Keys : db[k] # NoPtr /\ InRange(k)}) # {}
                   /\ pc = "learned" =>
                        /\ StartPositions(Predicted(first), first) # {}
                        /\ EndPositions(Predicted(end_key), end_key) # {}
<1>1. ScanInv => Open
  <2> SUFFICES ASSUME ScanInv PROVE Open
    OBVIOUS
  <2> DEFINE K == {k \in Keys : db[k] # NoPtr /\ InRange(k)}
  <2>1. K \subseteq Nat /\ IsFiniteSet(K)
    <3>1. K \subseteq Keys
      OBVIOUS
    <3> HIDE DEF K
    <3> QED BY <3>1, KeysAssumption, FS_Subset
  <2>2. SortedSeqs(K) # {}
    <3> HIDE DEF K
    <3> QED BY <2>1, SortedExists
  <2>3. TypeOK /\ SortedFile(model_file) /\ first \in Nat /\ end_key \in Nat
    BY DEF ScanInv, Inv, ScanTypeOK
  <2>4. /\ StartPositions(Predicted(first), first) # {}
        /\ EndPositions(Predicted(end_key), end_key) # {}
    BY <2>3, PositionsExist
  <2> QED BY <2>2, <2>4
<1> QED BY <1>1, ScanInvariance, PTL

\* Unless it reads between positions the learned index did not hold, every step
\* of a scan ends a stage or leaves less of it: the loop over the log never gets
\* to the end of the file, where it would turn for ever, and the merge takes no
\* more steps than both lists have entries.
THEOREM ScanAdvances ==
    ScanSpec => [][pc # "idle" /\ (pc = "read" => Healthy /\ Interior) => Advances]_allVars
<1> DEFINE Adv == pc # "idle" /\ (pc = "read" => Healthy /\ Interior) => Advances
<1>1. ScanInv /\ [ScanNext]_allVars => [Adv]_allVars
  <2> SUFFICES ASSUME ScanInv, ScanNext, pc # "idle", pc = "read" => Healthy /\ Interior
               PROVE  Advances
    OBVIOUS
  <2>1. CASE ReadRecord \/ ReadNothing
    <3>1. pc = "read"
      BY <2>1 DEF ReadRecord, ReadNothing
    <3> QED BY <2>1, <3>1, ReadAdvances
  <2>2. CASE MergeStep
    BY <2>2, MergeAdvances
  <2>3. CASE ScanLsm \/ ScanFails \/ FindPositions \/ ScanCrashes \/ ReadEnds \/ MergeRest
             \/ EndScan
    <3>1. \/ pc = "lsm" /\ pc' \in {"learned", "done"}
          \/ pc = "learned" /\ pc' \in {"read", "done"}
          \/ pc = "read" /\ pc' = "merge"
          \/ pc = "merge" /\ pc' = "done"
          \/ pc = "done" /\ pc' = "idle"
      BY <2>3 DEF ScanLsm, ScanFails, FindPositions, ScanCrashes, ReadEnds, MergeRest, EndScan
    <3>2. Ahead' < Ahead
      BY <3>1 DEF Ahead
    <3> QED BY <3>2 DEF Advances
  <2> QED BY <2>1, <2>2, <2>3 DEF ScanNext, ScanStep, BeginScan
<1> QED BY <1>1, ScanInvariance, PTL DEF ScanSpec
=============================================================================
