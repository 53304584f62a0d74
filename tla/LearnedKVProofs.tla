--------------------------- MODULE LearnedKVProofs ---------------------------
(***************************************************************************)
(* Proofs about the store, for all keys, values, capacities and failures.  *)
(***************************************************************************)
EXTENDS LearnedKV, ValueLogProofs, PiecewiseLinearProofs, FiniteSetTheorems

Record == [key : Keys, val : Values]

-----------------------------------------------------------------------------
(***************************************************************************)
(* The log.                                                                *)
(***************************************************************************)
\* A key with records in the log has a last one, and LastIndex is it.
LEMMA LastIndexIs ==
    ASSUME NEW log \in Seq(Record), NEW k \in LogKeys(log)
    PROVE  /\ LastIndex(log, k) \in 1..Len(log)
           /\ log[LastIndex(log, k)].key = k
           /\ \A m \in 1..Len(log) : m > LastIndex(log, k) => log[m].key # k
BY LastRecord

\* Only one index can be the last one.
LEMMA LastIndexUnique ==
    ASSUME NEW log \in Seq(Record), NEW j \in 1..Len(log), NEW k, log[j].key = k,
           \A m \in 1..Len(log) : m > j => log[m].key # k
    PROVE  LastIndex(log, k) = j
BY LastUnique

LEMMA LogKeysType ==
    ASSUME NEW log \in Seq(Record)
    PROVE  /\ LogKeys(log) \subseteq Keys
           /\ IsFiniteSet(LogKeys(log))
           /\ Cardinality(LogKeys(log)) \in Nat
           /\ Cardinality(LogKeys(log)) <= Len(log)
           /\ \A j \in 1..Len(log) : log[j] \in Record /\ log[j].key \in LogKeys(log)
<1>1. DOMAIN log = 1..Len(log) /\ Len(log) \in Nat
  OBVIOUS
<1>2. \A j \in 1..Len(log) : log[j] \in Record /\ log[j].key \in Keys
  <2> TAKE j \in 1..Len(log)
  <2>1. log[j] \in Record
    OBVIOUS
  <2> QED BY <2>1 DEF Record
<1>3. LogKeys(log) \subseteq Keys
  BY <1>1, <1>2 DEF LogKeys
<1>4. IsFiniteSet(LogKeys(log))
  BY <1>3, KeysAssumption, FS_Subset
<1>5. Cardinality(LogKeys(log)) <= Len(log)
  <2> DEFINE f == [j \in 1..Len(log) |-> log[j].key]
  <2>1. f \in Surjection(1..Len(log), LogKeys(log))
    BY <1>1 DEF Surjection, LogKeys
  <2>2. ExistsSurjection(1..Len(log), LogKeys(log))
    BY <2>1 DEF ExistsSurjection
  <2> QED BY <1>1, <2>2, FS_SurjCardinalityBound
<1>6. Cardinality(LogKeys(log)) \in Nat
  BY <1>4, FS_CardinalityType
<1> QED BY <1>1, <1>2, <1>3, <1>4, <1>5, <1>6 DEF LogKeys

\* Appending a record: its key's last record is the new one, the last records
\* of the other keys stay where they are.
LEMMA AppendLog ==
    ASSUME NEW log \in Seq(Record), NEW k \in Keys, NEW v \in Values
    PROVE  LET new == Append(log, [key |-> k, val |-> v]) IN
           /\ new \in Seq(Record)
           /\ Len(new) = Len(log) + 1
           /\ LogKeys(new) = LogKeys(log) \cup {k}
           /\ LastIndex(new, k) = Len(log) + 1
           /\ new[Len(log) + 1] = [key |-> k, val |-> v]
           /\ \A j \in 1..Len(log) : new[j] = log[j]
           /\ \A l \in LogKeys(log) : l # k => LastIndex(new, l) = LastIndex(log, l)
<1> DEFINE r == [key |-> k, val |-> v]
           new == Append(log, r)
<1>1. r \in Record /\ r.key = k
  BY DEF Record
<1>2. /\ new \in Seq(Record) /\ Len(new) = Len(log) + 1 /\ Len(log) \in Nat
      /\ new[Len(log) + 1] = r /\ \A j \in 1..Len(log) : new[j] = log[j]
      /\ DOMAIN new = 1..(Len(log) + 1) /\ DOMAIN log = 1..Len(log)
  BY <1>1
<1> HIDE DEF new, r
<1>3. LogKeys(new) = LogKeys(log) \cup {k}
  <2>1. ASSUME NEW l \in LogKeys(new) PROVE l \in LogKeys(log) \cup {k}
    <3>1. PICK j \in 1..(Len(log) + 1) : l = new[j].key
      BY <1>2 DEF LogKeys
    <3>2. CASE j = Len(log) + 1
      BY <3>1, <3>2, <1>1, <1>2
    <3>3. CASE j \in 1..Len(log)
      BY <3>1, <3>3, <1>2 DEF LogKeys
    <3> QED BY <3>2, <3>3, <1>2
  <2>2. ASSUME NEW l \in LogKeys(log) PROVE l \in LogKeys(new)
    <3>1. PICK j \in 1..Len(log) : l = log[j].key
      BY <1>2 DEF LogKeys
    <3>2. j \in DOMAIN new /\ new[j].key = l
      BY <3>1, <1>2
    <3> QED BY <3>2 DEF LogKeys
  <2>3. k \in LogKeys(new)
    <3>1. Len(log) + 1 \in DOMAIN new /\ new[Len(log) + 1].key = k
      BY <1>1, <1>2
    <3> QED BY <3>1 DEF LogKeys
  <2> QED BY <2>1, <2>2, <2>3
<1>4. LastIndex(new, k) = Len(log) + 1
  <2>1. Len(log) + 1 \in 1..Len(new) /\ new[Len(log) + 1].key = k
    BY <1>1, <1>2
  <2>2. \A m \in 1..Len(new) : m > Len(log) + 1 => new[m].key # k
    BY <1>2
  <2> QED BY <1>2, <2>1, <2>2, LastIndexUnique
<1>5. ASSUME NEW l \in LogKeys(log), l # k PROVE LastIndex(new, l) = LastIndex(log, l)
  <2>1. /\ LastIndex(log, l) \in 1..Len(log) /\ log[LastIndex(log, l)].key = l
        /\ \A m \in 1..Len(log) : m > LastIndex(log, l) => log[m].key # l
    BY LastIndexIs
  <2>2. LastIndex(log, l) \in 1..Len(new) /\ new[LastIndex(log, l)].key = l
    BY <1>2, <2>1
  <2>3. \A m \in 1..Len(new) : m > LastIndex(log, l) => new[m].key # l
    <3> SUFFICES ASSUME NEW m \in 1..Len(new), m > LastIndex(log, l)
                 PROVE  new[m].key # l
      OBVIOUS
    <3>1. CASE m = Len(log) + 1
      BY <3>1, <1>1, <1>2, <1>5
    <3>2. CASE m \in 1..Len(log)
      BY <3>2, <1>2, <2>1
    <3> QED BY <3>1, <3>2, <1>2
  <2> QED BY <1>2, <2>2, <2>3, LastIndexUnique
<1> QED BY <1>2, <1>3, <1>4, <1>5 DEF new, r
-----------------------------------------------------------------------------
(***************************************************************************)
(* garbage_collection.                                                     *)
(***************************************************************************)
\* A sorted enumeration of a set of keys.
LEMMA SortedSeqIs ==
    ASSUME NEW S \in SUBSET Keys, NEW s \in SortedSeqs(S)
    PROVE  /\ s \in Seq(Keys) /\ DOMAIN s = 1..Len(s) /\ Len(s) \in Nat
           /\ Len(s) = Cardinality(S)
           /\ {s[j] : j \in 1..Len(s)} = S
           /\ \A j, m \in 1..Len(s) : s[j] \in Keys /\ (j < m => s[j] < s[m])
           /\ \A j, m \in 1..Len(s) : s[j] = s[m] => j = m
<1>1. Cardinality(S) \in Nat
  BY KeysAssumption, FS_Subset, FS_CardinalityType
<1> DEFINE n == Cardinality(S)
<1>2. /\ s \in [1..n -> S]
      /\ \A k \in S : \E j \in 1..n : s[j] = k
      /\ \A j, m \in 1..n : j < m => s[j] < s[m]
  BY DEF SortedSeqs
<1> HIDE DEF n
<1>3. s \in Seq(Keys) /\ DOMAIN s = 1..n /\ Len(s) = n
  <2>1. s \in [1..n -> Keys]
    BY <1>2
  <2> QED BY <1>1, <2>1 DEF n
<1>4. {s[j] : j \in 1..Len(s)} = S
  BY <1>2, <1>3
<1>5. \A j, m \in 1..Len(s) : s[j] = s[m] => j = m
  <2> SUFFICES ASSUME NEW j \in 1..n, NEW m \in 1..n, s[j] = s[m] PROVE j = m
    BY <1>3
  <2>1. s[j] \in Nat /\ s[m] \in Nat
    BY <1>2, KeysAssumption
  <2>2. ~(j < m) /\ ~(m < j)
    BY <1>2, <2>1
  <2> QED BY <2>2, <1>1 DEF n
<1> QED BY <1>1, <1>2, <1>3, <1>4, <1>5 DEF n

\* The loop that stops one short of the end drops a key of every nonempty log.
LEMMA SomeKeyDropped ==
    ASSUME NEW log \in Seq(Record), Len(log) > 0, NEW s \in SortedSeqs(Survivors(log))
    PROVE  Survivors(log) # LogKeys(log)
<1>1. Survivors(log) \subseteq LogKeys(log) /\ LogKeys(log) \subseteq Keys
  BY LogKeysType DEF Survivors
<1>2. /\ Len(s) \in Nat /\ {s[j] : j \in 1..Len(s)} = Survivors(log)
      /\ \A j, m \in 1..Len(s) : s[j] \in Keys /\ (j < m => s[j] < s[m])
  BY <1>1, SortedSeqIs
<1> SUFFICES ASSUME Survivors(log) = LogKeys(log) PROVE FALSE
  OBVIOUS
<1>3. Len(s) > 0
  <2>1. log[1].key \in LogKeys(log)
    BY LogKeysType
  <2>2. PICK j \in 1..Len(s) : s[j] = log[1].key
    BY <2>1, <1>2
  <2> QED BY <1>2
<1>4. Len(s) \in 1..Len(s) /\ s[Len(s)] \in Survivors(log)
  BY <1>2, <1>3
<1>5. PICK m \in LogKeys(log) : s[Len(s)] < m
  BY <1>4 DEF Survivors
<1>6. PICK j \in 1..Len(s) : s[j] = m
  BY <1>2
<1>7. s[j] \in Nat /\ s[Len(s)] \in Nat
  BY <1>2, <1>4, KeysAssumption
<1>8. s[j] <= s[Len(s)]
  <2>1. CASE j = Len(s)
    BY <2>1, <1>7
  <2>2. CASE j < Len(s)
    BY <2>2, <1>2, <1>4, <1>7
  <2> QED BY <2>1, <2>2, <1>2
<1> QED BY <1>5, <1>6, <1>7, <1>8

\* This is what makes room for the record put is about to write.
LEMMA SurvivorsFewer ==
    ASSUME NEW log \in Seq(Record), Len(log) > 0, NEW s \in SortedSeqs(Survivors(log))
    PROVE  Len(s) < Len(log)
<1>1. Survivors(log) \subseteq LogKeys(log) /\ LogKeys(log) \subseteq Keys
  BY LogKeysType DEF Survivors
<1>2. Len(s) = Cardinality(Survivors(log)) /\ Len(s) \in Nat
  BY <1>1, SortedSeqIs
<1>3. /\ Cardinality(Survivors(log)) <= Cardinality(LogKeys(log))
      /\ Cardinality(Survivors(log)) # Cardinality(LogKeys(log))
  BY <1>1, SomeKeyDropped, LogKeysType, FS_Subset
<1>4. Cardinality(LogKeys(log)) \in Nat /\ Cardinality(LogKeys(log)) <= Len(log)
  BY LogKeysType
<1> QED BY <1>2, <1>3, <1>4

\* A log of one record for each of a sequence of distinct keys.
LEMMA DistinctLog ==
    ASSUME NEW log \in Seq(Record),
           \A j, m \in 1..Len(log) : log[j].key = log[m].key => j = m
    PROVE  \A j \in 1..Len(log) :
              /\ log[j].key \in LogKeys(log)
              /\ LastIndex(log, log[j].key) = j
<1> TAKE j \in 1..Len(log)
<1>1. log[j].key \in LogKeys(log)
  BY LogKeysType
<1>2. \A m \in 1..Len(log) : m > j => log[m].key # log[j].key
  OBVIOUS
<1> QED BY <1>1, <1>2, LastIndexUnique

LEMMA ValidValueType ==
    ASSUME NEW log \in Seq(Record), NEW k \in LogKeys(log)
    PROVE  ValidValue(log, k) \in Values
<1>1. LastIndex(log, k) \in 1..Len(log)
  BY LastIndexIs
<1>2. log[LastIndex(log, k)] \in Record
  BY <1>1
<1> QED BY <1>2 DEF ValidValue, Record

\* What the rewritten log holds: the survivors in order, with the values they
\* had in the old log.
LEMMA RewrittenIs ==
    ASSUME vlog \in Seq(Record), NEW s \in SortedSeqs(Survivors(vlog))
    PROVE  /\ Rewritten(s) \in Seq(Record) /\ Len(Rewritten(s)) = Len(s)
           /\ \A j \in 1..Len(s) :
                 /\ Rewritten(s)[j].key = s[j]
                 /\ Rewritten(s)[j].val = ValidValue(vlog, s[j])
           /\ \A j, m \in 1..Len(s) : Rewritten(s)[j].key = Rewritten(s)[m].key => j = m
           /\ LogKeys(Rewritten(s)) = Survivors(vlog)
           /\ \A j \in 1..Len(s) : LastIndex(Rewritten(s), s[j]) = j
<1>1. Survivors(vlog) \subseteq LogKeys(vlog) /\ LogKeys(vlog) \subseteq Keys
  BY LogKeysType DEF Survivors
<1>2. /\ s \in Seq(Keys) /\ Len(s) \in Nat /\ {s[j] : j \in 1..Len(s)} = Survivors(vlog)
      /\ \A j, m \in 1..Len(s) : s[j] = s[m] => j = m
  BY <1>1, SortedSeqIs
<1> DEFINE R == Rewritten(s)
<1>3. \A j \in 1..Len(s) : [key |-> s[j], val |-> ValidValue(vlog, s[j])] \in Record
  <2> TAKE j \in 1..Len(s)
  <2>1. s[j] \in LogKeys(vlog) /\ s[j] \in Keys
    BY <1>1, <1>2
  <2>2. ValidValue(vlog, s[j]) \in Values
    BY <2>1, ValidValueType
  <2> QED BY <2>1, <2>2 DEF Record
<1>4. R \in Seq(Record) /\ Len(R) = Len(s) /\ DOMAIN R = 1..Len(s)
  <2>1. R \in [1..Len(s) -> Record]
    BY <1>3 DEF Rewritten, Pairs
  <2> QED BY <1>2, <2>1
<1>5. \A j \in 1..Len(s) : R[j].key = s[j] /\ R[j].val = ValidValue(vlog, s[j])
  BY DEF Rewritten, Pairs
<1> HIDE DEF R
<1>6. \A j, m \in 1..Len(s) : R[j].key = R[m].key => j = m
  BY <1>2, <1>5
<1>7. LogKeys(R) = Survivors(vlog)
  BY <1>2, <1>4, <1>5 DEF LogKeys
<1>8. \A j \in 1..Len(s) : LastIndex(R, s[j]) = j
  BY <1>4, <1>5, <1>6, DistinctLog
<1> QED BY <1>4, <1>5, <1>6, <1>7, <1>8 DEF R

LEMMA BatchPutIs ==
    ASSUME NEW index \in [Keys -> Nat \cup {NoPtr}], NEW S \in SUBSET Keys,
           NEW s \in SortedSeqs(S)
    PROVE  /\ BatchPut(index, s) \in [Keys -> Nat \cup {NoPtr}]
           /\ \A j \in 1..Len(s) : BatchPut(index, s)[s[j]] = j - 1
           /\ \A k \in Keys \ S : BatchPut(index, s)[k] = index[k]
<1>1. /\ DOMAIN s = 1..Len(s) /\ Len(s) \in Nat /\ {s[j] : j \in 1..Len(s)} = S
      /\ \A j \in 1..Len(s) : s[j] \in Keys
      /\ \A j, m \in 1..Len(s) : s[j] = s[m] => j = m
  BY SortedSeqIs
<1>2. \A k \in Keys : (\E j \in DOMAIN s : s[j] = k) =>
        (CHOOSE j \in DOMAIN s : s[j] = k) \in 1..Len(s)
  BY <1>1
<1>3. BatchPut(index, s) \in [Keys -> Nat \cup {NoPtr}]
  <2> SUFFICES ASSUME NEW k \in Keys PROVE BatchPut(index, s)[k] \in Nat \cup {NoPtr}
    BY DEF BatchPut
  <2>1. CASE \E j \in DOMAIN s : s[j] = k
    BY <2>1, <1>1, <1>2 DEF BatchPut
  <2>2. CASE ~\E j \in DOMAIN s : s[j] = k
    BY <2>2 DEF BatchPut
  <2> QED BY <2>1, <2>2
<1>4. \A j \in 1..Len(s) : BatchPut(index, s)[s[j]] = j - 1
  <2> TAKE j \in 1..Len(s)
  <2>1. (CHOOSE m \in DOMAIN s : s[m] = s[j]) = j
    BY <1>1
  <2> QED BY <1>1, <2>1 DEF BatchPut
<1>5. \A k \in Keys \ S : BatchPut(index, s)[k] = index[k]
  BY <1>1 DEF BatchPut
<1> QED BY <1>3, <1>4, <1>5
-----------------------------------------------------------------------------
(***************************************************************************)
(* Type correctness.                                                       *)
(***************************************************************************)
LEMMA FilterBits ==
    ASSUME NEW k \in Keys
    PROVE  BitsOf(k) \subseteq 0..(NumBits - 1)
<1>1. k \in Nat
  BY KeysAssumption
<1>2. \A i \in 0..(NumHashes - 1) : (k + i) % NumBits \in 0..(NumBits - 1)
  BY <1>1, NumBitsAssumption, NumHashesAssumption
<1> QED BY <1>2 DEF BitsOf

StoreTyped(st) ==
    /\ st.vlog \in Seq(Record)
    /\ st.db \in [Keys -> Nat \cup {NoPtr}]
    /\ st.write_pos \in Nat
    /\ st.filter \subseteq 0..(NumBits - 1)
    /\ st.model_file \in Seq(Keys)
    /\ st.key_array_file \in Seq(Keys)
    /\ st.unflushed \in Seq(Record)
    /\ st.faulty \in BOOLEAN
    /\ st.gc_len \in Nat

\* The ways in which put makes the store ready.
LEMMA ReadyCases ==
    ASSUME NEW st \in Ready
    PROVE  \/ write_pos + 1 <= Cap /\ st = Unchanged
           \/ /\ ~(write_pos + 1 <= Cap) /\ LearnedIndexUsed
              /\ \E s \in SortedSeqs(Survivors(vlog)), f \in SUBSET FaultKinds :
                    st = CollectIntoModel(s, f)
           \/ /\ ~(write_pos + 1 <= Cap) /\ ~LearnedIndexUsed
              /\ \E s \in SortedSeqs(Survivors(vlog)), f \in SUBSET FaultKinds :
                    \E m \in 0..Len(s) : st = CollectIntoDb(s, f, m)
<1>1. CASE write_pos + 1 <= Cap
  BY <1>1 DEF Ready
<1>2. CASE ~(write_pos + 1 <= Cap)
  <2>1. st \in GarbageCollection
    BY <1>2 DEF Ready
  <2>2. CASE LearnedIndexUsed
    <3>1. PICK s \in SortedSeqs(Survivors(vlog)) :
            st \in {CollectIntoModel(s, f) :
                        f \in SUBSET (Faults \cap {"destroy", "open", "model", "key_array"})}
      BY <2>1, <2>2 DEF GarbageCollection
    <3>2. PICK f \in SUBSET (Faults \cap {"destroy", "open", "model", "key_array"}) :
            st = CollectIntoModel(s, f)
      BY <3>1
    <3>3. f \in SUBSET FaultKinds
      BY FaultsAssumption
    <3> QED BY <1>2, <2>2, <3>2, <3>3
  <2>3. CASE ~LearnedIndexUsed
    <3>1. PICK s \in SortedSeqs(Survivors(vlog)) :
            st \in {CollectIntoDb(s, f, m) :
                        f \in SUBSET (Faults \cap {"destroy", "open", "write"}),
                        m \in 0..Len(s)}
      BY <2>1, <2>3 DEF GarbageCollection
    <3>2. PICK f \in SUBSET (Faults \cap {"destroy", "open", "write"}), m \in 0..Len(s) :
            st = CollectIntoDb(s, f, m)
      BY <3>1
    <3>3. f \in SUBSET FaultKinds
      BY FaultsAssumption
    <3> QED BY <1>2, <2>3, <3>2, <3>3
  <2> QED BY <2>2, <2>3
<1> QED BY <1>1, <1>2

LEMMA EmptyDbType == EmptyDb \in [Keys -> Nat \cup {NoPtr}]
BY DEF EmptyDb

LEMMA PrefixType ==
    ASSUME NEW S, NEW q \in Seq(S), NEW m \in 0..Len(q)
    PROVE  /\ SubSeq(q, 1, m) \in Seq(S) /\ Len(SubSeq(q, 1, m)) = m
           /\ \A j \in 1..m : SubSeq(q, 1, m)[j] = q[j]
OBVIOUS

\* The records of a sequence behind its first m
LEMMA RestType ==
    ASSUME NEW S, NEW q \in Seq(S), NEW m \in 0..Len(q)
    PROVE  /\ SubSeq(q, m + 1, Len(q)) \in Seq(S)
           /\ Len(SubSeq(q, m + 1, Len(q))) = Len(q) - m
           /\ \A j \in 1..(Len(q) - m) :
                 m + j \in 1..Len(q) /\ SubSeq(q, m + 1, Len(q))[j] = q[m + j]
<1>1. Len(q) \in Nat /\ m \in Nat /\ m <= Len(q)
  OBVIOUS
<1>2. \A j \in 1..(Len(q) - m) : m + j \in 1..Len(q) /\ m + 1 + j - 1 = m + j
  BY <1>1
<1> QED BY <1>1, <1>2

\* What a collection leaves has the right types, whatever failed in it.
LEMMA CollectTyped ==
    ASSUME TypeOK, NEW s \in SortedSeqs(Survivors(vlog)), NEW f \in SUBSET FaultKinds,
           NEW m \in 0..Len(s)
    PROVE  StoreTyped(CollectIntoModel(s, f)) /\ StoreTyped(CollectIntoDb(s, f, m))
<1>0. vlog \in Seq(Record)
  BY DEF TypeOK, Record
<1>1. Survivors(vlog) \in SUBSET Keys
  BY <1>0, LogKeysType DEF Survivors
<1>2. /\ Rewritten(s) \in Seq(Record) /\ Len(Rewritten(s)) = Len(s)
      /\ s \in Seq(Keys) /\ Len(s) \in Nat /\ DOMAIN s = 1..Len(s)
      /\ \A j \in 1..Len(s) : s[j] \in Keys
  BY <1>0, <1>1, RewrittenIs, SortedSeqIs
<1>3. Reopened(f) \in [Keys -> Nat \cup {NoPtr}] /\ FilterReset(f) \subseteq 0..(NumBits - 1)
  BY EmptyDbType DEF TypeOK, Reopened, FilterReset
<1>4. BatchPut(Reopened(f), s) \in [Keys -> Nat \cup {NoPtr}]
  BY <1>1, <1>3, BatchPutIs
<1>5. FilterInsertAll(FilterReset(f), {s[j] : j \in DOMAIN s}) \subseteq 0..(NumBits - 1)
  BY <1>2, <1>3, FilterBits DEF FilterInsertAll
<1>6. SubSeq(Rewritten(s), 1, m) \in Seq(Record)
  BY <1>2, PrefixType
<1>7. StoreTyped(CollectIntoModel(s, f))
  BY <1>2, <1>3 DEF TypeOK, CollectIntoModel, StoreTyped
<1>8. SubSeq(Rewritten(s), m + 1, Len(s)) \in Seq(Record)
  BY <1>2, RestType
<1>9. StoreTyped(CollectIntoDb(s, f, m))
  <2> DEFINE st == CollectIntoDb(s, f, m)
  <2>1. st.vlog \in Seq(Record) /\ st.unflushed \in Seq(Record)
    <3>1. << >> \in Seq(Record)
      OBVIOUS
    <3> QED BY <1>2, <1>6, <1>8, <3>1 DEF CollectIntoDb
  <2>2. st.db \in [Keys -> Nat \cup {NoPtr}] /\ st.filter \subseteq 0..(NumBits - 1)
    BY <1>3, <1>4, <1>5 DEF CollectIntoDb
  <2>3. /\ st.write_pos \in Nat /\ st.gc_len \in Nat /\ st.faulty \in BOOLEAN
        /\ st.model_file \in Seq(Keys) /\ st.key_array_file \in Seq(Keys)
    BY <1>2 DEF TypeOK, CollectIntoDb
  <2> HIDE DEF st
  <2>4. StoreTyped(st)
    BY <2>1, <2>2, <2>3 DEF StoreTyped
  <2> QED BY <2>4 DEF st
<1> QED BY <1>7, <1>9

LEMMA ReadyTyped ==
    ASSUME TypeOK, NEW st \in Ready
    PROVE  StoreTyped(st)
<1>0. vlog \in Seq(Record) /\ unflushed \in Seq(Record)
  BY DEF TypeOK, Record
<1>1. CASE st = Unchanged
  BY <1>0, <1>1 DEF TypeOK, Unchanged, StoreTyped
<1>2. ASSUME NEW s \in SortedSeqs(Survivors(vlog)) PROVE 0 \in 0..Len(s)
  <2>1. Survivors(vlog) \in SUBSET Keys
    BY <1>0, LogKeysType DEF Survivors
  <2> QED BY <2>1, SortedSeqIs
<1> QED BY <1>1, <1>2, CollectTyped, ReadyCases, ZenonT(60)

\* What a kill leaves: the files as they were, or an empty database over the old
\* log or over a prefix of the new one.
LEMMA LeftCases ==
    ASSUME NEW st \in Left
    PROVE  \/ st = Unchanged
           \/ st = [Unchanged EXCEPT !.db = EmptyDb]
           \/ \E s \in SortedSeqs(Survivors(vlog)), f \in SUBSET FaultKinds :
                \E m \in 0..Len(s) :
                    \/ st = [CollectIntoModel(s, f) EXCEPT !.vlog = SubSeq(Rewritten(s), 1, m)]
                    \/ st = [CollectIntoDb(s, f, 0) EXCEPT !.vlog = SubSeq(Rewritten(s), 1, m)]
<1> SUFFICES ASSUME st \in KilledCollection, st # [Unchanged EXCEPT !.db = EmptyDb]
             PROVE  \E s \in SortedSeqs(Survivors(vlog)), f \in SUBSET FaultKinds :
                \E m \in 0..Len(s) :
                    \/ st = [CollectIntoModel(s, f) EXCEPT !.vlog = SubSeq(Rewritten(s), 1, m)]
                    \/ st = [CollectIntoDb(s, f, 0) EXCEPT !.vlog = SubSeq(Rewritten(s), 1, m)]
  BY DEF Left
<1>1. PICK s \in SortedSeqs(Survivors(vlog)) :
        st \in {[c EXCEPT !.vlog = SubSeq(Rewritten(s), 1, m)] :
                    c \in IndexStages(s), m \in 0..Len(s)}
  BY DEF KilledCollection
<1>2. PICK c \in IndexStages(s), m \in 0..Len(s) :
        st = [c EXCEPT !.vlog = SubSeq(Rewritten(s), 1, m)]
  BY <1>1
<1>3. {"model"} \in SUBSET FaultKinds /\ {"key_array"} \in SUBSET FaultKinds
      /\ {"write"} \in SUBSET FaultKinds /\ {} \in SUBSET FaultKinds
  BY DEF FaultKinds
<1>4. \E f \in SUBSET FaultKinds : c = CollectIntoModel(s, f) \/ c = CollectIntoDb(s, f, 0)
  BY <1>2, <1>3 DEF IndexStages
<1> QED BY <1>2, <1>4

LEMMA LeftTyped ==
    ASSUME TypeOK, NEW st \in Left
    PROVE  StoreTyped(st)
<1>0. vlog \in Seq(Record) /\ unflushed \in Seq(Record)
  BY DEF TypeOK, Record
<1>1. CASE st = Unchanged \/ st = [Unchanged EXCEPT !.db = EmptyDb]
  BY <1>0, <1>1, EmptyDbType DEF TypeOK, Unchanged, StoreTyped
<1>2. ASSUME NEW s \in SortedSeqs(Survivors(vlog)), NEW f \in SUBSET FaultKinds,
             NEW m \in 0..Len(s)
      PROVE  /\ StoreTyped(CollectIntoModel(s, f)) /\ StoreTyped(CollectIntoDb(s, f, 0))
             /\ SubSeq(Rewritten(s), 1, m) \in Seq(Record)
  <2>1. Survivors(vlog) \in SUBSET Keys
    BY <1>0, LogKeysType DEF Survivors
  <2>2. 0 \in 0..Len(s) /\ Rewritten(s) \in Seq(Record) /\ Len(Rewritten(s)) = Len(s)
    BY <1>0, <2>1, RewrittenIs, SortedSeqIs
  <2> QED BY <2>2, CollectTyped, PrefixType
<1>3. ASSUME NEW s \in SortedSeqs(Survivors(vlog)), NEW f \in SUBSET FaultKinds,
             NEW m \in 0..Len(s),
             st = [CollectIntoModel(s, f) EXCEPT !.vlog = SubSeq(Rewritten(s), 1, m)]
      PROVE  StoreTyped(st)
  BY <1>2, <1>3, ZenonT(60) DEF StoreTyped, CollectIntoModel
<1>4. ASSUME NEW s \in SortedSeqs(Survivors(vlog)), NEW f \in SUBSET FaultKinds,
             NEW m \in 0..Len(s),
             st = [CollectIntoDb(s, f, 0) EXCEPT !.vlog = SubSeq(Rewritten(s), 1, m)]
      PROVE  StoreTyped(st)
  BY <1>2, <1>4, ZenonT(60) DEF StoreTyped, CollectIntoDb
<1> QED BY <1>1, <1>3, <1>4, LeftCases

\* Whatever position get ends at, it returns a value, nothing or not found.
LEMMA GetOutcomesType ==
    ASSUME TypeOK, NEW k \in Keys
    PROVE  GetOutcomes(k) \subseteq Values \cup {NotFound, Blank}
<1>1. ASSUME NEW p PROVE ReadAt(p) \in Values \cup {Blank}
  <2>1. CASE p \in 0..(Len(vlog) - 1)
    <3>1. vlog \in Seq(Record)
      BY DEF TypeOK, Record
    <3>2. p + 1 \in 1..Len(vlog)
      BY <2>1, <3>1
    <3>3. vlog[p + 1] \in Record
      BY <3>1, <3>2
    <3> QED BY <2>1, <3>3 DEF ReadAt, Record
  <2>2. CASE ~(p \in 0..(Len(vlog) - 1))
    BY <2>2 DEF ReadAt
  <2> QED BY <2>1, <2>2
<1> HIDE DEF ReadAt
<1>2. \A p : ReadAt(p) \in Values \cup {Blank}
  BY <1>1
<1> DEFINE W == Values \cup {NotFound, Blank}
<1>3. \A p : ReadAt(p) \in W
  BY <1>2
<1>4. NotFound \in W
  OBVIOUS
<1> HIDE DEF W
<1>5. {ReadAt(db[k])} \subseteq W /\ {NotFound} \subseteq W
  BY <1>3, <1>4
<1>6. {ReadAt(p) : p \in SearchEnds(k)} \subseteq W
  BY <1>3
<1>7. GetOutcomes(k) \subseteq W
  BY <1>5, <1>6 DEF GetOutcomes
<1> QED BY <1>7 DEF W

LEMMA InitTypeOK == Init => TypeOK
<1> SUFFICES ASSUME Init PROVE TypeOK
  OBVIOUS
<1>1. << >> \in Seq([key : Keys, val : Values]) /\ << >> \in Seq(Keys)
  OBVIOUS
<1>2. [k \in Keys |-> NotFound] \in [Keys -> Values \cup {NotFound}]
  OBVIOUS
<1> QED BY <1>1, <1>2, EmptyDbType DEF Init, TypeOK, NoFile

LEMMA NextTypeOK == TypeOK /\ [Next]_vars => TypeOK'
<1> SUFFICES ASSUME TypeOK, [Next]_vars PROVE TypeOK'
  OBVIOUS
<1>1. ASSUME NEW st \in Ready, NEW k \in Keys, NEW v \in Values, PutOk(st, k, v)
      PROVE  TypeOK'
  <2>1. /\ vlog' = Appended(st, k, v)
      /\ db' = [st.db EXCEPT ![k] = st.write_pos]
      /\ write_pos' = st.write_pos + 1
      /\ filter' = FilterInsert(st.filter, k)
      /\ faulty' = st.faulty
        /\ KeepFiles(st)
    BY <1>1 DEF PutOk
  <2>2. StoreTyped(st)
    BY ReadyTyped
  <2>3. vlog' \in Seq(Record)
    BY <2>1, <2>2, AppendLog DEF StoreTyped, Appended
  <2>4. filter' \subseteq 0..(NumBits - 1)
    BY <2>1, <2>2, FilterBits DEF StoreTyped, FilterInsert
  <2>5. db' \in [Keys -> Nat \cup {NoPtr}] /\ write_pos' \in Nat
    BY <2>1, <2>2 DEF StoreTyped
  <2>6. /\ reply' = Ok /\ latest' = [latest EXCEPT ![k] = v] /\ status' = status
        /\ stale' = stale \ {k}
    BY <1>1 DEF PutOk
  <2>7. latest' \in [Keys -> Values \cup {NotFound}] /\ stale' \subseteq Keys
    BY <2>6 DEF TypeOK
  <2> QED BY <2>1, <2>2, <2>3, <2>4, <2>5, <2>6, <2>7 DEF TypeOK, StoreTyped, KeepFiles, Record
<1>2. ASSUME NEW st \in Ready, NEW k \in Keys, NEW v \in Values, PutFails(st, k, v)
      PROVE  TypeOK'
  <2>1. /\ vlog' = Appended(st, k, v)
        /\ db' = st.db /\ write_pos' = st.write_pos /\ filter' = st.filter
        /\ KeepFiles(st)
    BY <1>2 DEF PutFails
  <2>2. StoreTyped(st)
    BY ReadyTyped
  <2>3. vlog' \in Seq(Record)
    BY <2>1, <2>2, AppendLog DEF StoreTyped, Appended
  <2>4. /\ reply' = Failed /\ latest' = [latest EXCEPT ![k] = v]
        /\ status' = status /\ faulty' = TRUE /\ stale' = stale \ {k}
    BY <1>2 DEF PutFails
  <2>5. latest' \in [Keys -> Values \cup {NotFound}] /\ stale' \subseteq Keys
    BY <2>4 DEF TypeOK
  <2> QED BY <2>1, <2>2, <2>3, <2>4, <2>5 DEF TypeOK, StoreTyped, KeepFiles, Record
<1>3. ASSUME NEW st \in Ready, PutAborts(st) PROVE TypeOK'
  <2>1. /\ vlog' = st.vlog /\ db' = st.db /\ write_pos' = st.write_pos
        /\ filter' = st.filter /\ KeepFiles(st)
    BY <1>3 DEF PutAborts
  <2>2. StoreTyped(st)
    BY ReadyTyped
  <2>3. /\ status' = "aborted" /\ reply' = reply /\ latest' = latest /\ stale' = stale
        /\ faulty' = (faulty \/ st.faulty)
    BY <1>3 DEF PutAborts
  <2> QED BY <2>1, <2>2, <2>3 DEF TypeOK, StoreTyped, KeepFiles, Record
<1>4. ASSUME NEW st \in Ready, NEW k \in Keys, NEW v \in Values, PutCrashes(st, k, v)
      PROVE  TypeOK'
  <2>1. /\ vlog' = IF LearnedIndexUsed THEN Appended(st, k, v) ELSE st.vlog
        /\ db' = st.db /\ write_pos' = st.write_pos /\ filter' = st.filter
        /\ KeepFiles(st)
    BY <1>4 DEF PutCrashes
  <2>2. StoreTyped(st)
    BY ReadyTyped
  <2>3. Appended(st, k, v) \in Seq(Record)
    BY <2>2, AppendLog DEF StoreTyped, Appended
  <2>4. vlog' \in Seq(Record)
    BY <2>1, <2>2, <2>3 DEF StoreTyped
  <2>5. /\ status' = "crashed" /\ reply' = reply /\ faulty' = TRUE
        /\ latest' = IF LearnedIndexUsed THEN [latest EXCEPT ![k] = v] ELSE latest
        /\ stale' = IF LearnedIndexUsed THEN stale \ {k} ELSE stale
    BY <1>4 DEF PutCrashes
  <2>6. latest' \in [Keys -> Values \cup {NotFound}] /\ stale' \subseteq Keys
    BY <2>5 DEF TypeOK
  <2> QED BY <2>1, <2>2, <2>4, <2>5, <2>6 DEF TypeOK, StoreTyped, KeepFiles, Record
<1>5. ASSUME NEW k \in Keys, Get(k) PROVE TypeOK'
  <2>1. UNCHANGED << store, latest, stale, faulty, gc_len >>
    BY <1>5 DEF Get
  <2>2. reply' \in Values \cup {Ok, Failed, NotFound, Blank}
    BY <1>5, GetOutcomesType DEF Get, TypeOK
  <2>3. status' \in {"running", "aborted", "crashed"}
    BY <1>5 DEF Get, TypeOK
  <2> QED BY <2>1, <2>2, <2>3 DEF TypeOK, store
<1>6. CASE Restart
  <2>1. PICK st \in Left :
          /\ vlog' = st.vlog /\ db' = st.db /\ model_file' = st.model_file
          /\ key_array_file' = st.key_array_file /\ gc_len' = st.gc_len
    BY <1>6 DEF Restart
  <2>2. StoreTyped(st)
    BY LeftTyped
  <2>3. /\ write_pos' = 0 /\ filter' = {} /\ status' = "running" /\ reply' = Ok
        /\ faulty' = TRUE /\ latest' = latest /\ stale' = stale /\ unflushed' = << >>
    BY <1>6 DEF Restart, Constructor
  <2>4. << >> \in Seq([key : Keys, val : Values])
    OBVIOUS
  <2> QED BY <2>1, <2>2, <2>3, <2>4 DEF TypeOK, StoreTyped, Record
<1>7. CASE Exit
  <2>1. vlog' \in Seq(Record) /\ unflushed' \in Seq(Record)
    <3>1. vlog \in Seq(Record) /\ unflushed \in Seq(Record)
      BY DEF TypeOK, Record
    <3>2. vlog \o unflushed \in Seq(Record) /\ << >> \in Seq(Record)
      BY <3>1
    <3> QED BY <1>7, <3>2 DEF Exit, Constructor
  <2>2. stale' \subseteq Keys
    <3>1. LogKeys(unflushed) \subseteq Keys
      BY LogKeysType DEF TypeOK, Record
    <3> QED BY <1>7, <3>1 DEF Exit, TypeOK
  <2>3. /\ write_pos' = 0 /\ filter' = {} /\ status' = "running" /\ reply' = Ok
        /\ faulty' = TRUE /\ latest' = latest
        /\ UNCHANGED << db, model_file, key_array_file, gc_len >>
    BY <1>7 DEF Exit, Constructor
  <2> QED BY <2>1, <2>2, <2>3 DEF TypeOK, Record
<1>8. CASE UNCHANGED vars
  BY <1>8 DEF vars, store, TypeOK
<1> QED BY <1>1, <1>2, <1>3, <1>4, <1>5, <1>6, <1>7, <1>8 DEF Next, Put

\* Type correctness of the store (put, get, garbage_collection).
THEOREM TypeCorrect == Spec => []TypeOK
BY InitTypeOK, NextTypeOK, PTL DEF Spec
-----------------------------------------------------------------------------
(***************************************************************************)
(* The inductive invariant of the store.  Its parts are the properties of  *)
(* LearnedKV; here they are restated for a store st that put has made      *)
(* ready, so that collecting and appending can be treated one by one.      *)
(***************************************************************************)
PointersIn(log, index, len) ==
    \A k \in Keys :
        /\ index[k] # NoPtr => k \in LogKeys(log) /\ index[k] + 1 = LastIndex(log, k)
        /\ k \in LogKeys(log) /\ (LearnedIndexUsed => LastIndex(log, k) > len)
                => index[k] # NoPtr

FilterIn(index, bits) ==
    \A k \in Keys : index[k] # NoPtr => PossiblyContains(bits, k)

KeyArrayIn(log, mf, ka, len) ==
    LearnedIndexUsed /\ len >= 2 =>
        /\ Len(ka) = len /\ mf = ka
        /\ \A j \in 1..len : ka[j] = log[j].key
        /\ \A j, m \in 1..len : j < m => ka[j] < ka[m]

LatestIn(log, lat, old) == \A k \in LogKeys(log) \ old : ValidValue(log, k) = lat[k]

\* What a stream left open on the log still holds: values that are the latest ones
\* unless the key is stale already or has been put since.
TailIn(log, tail, len, lat, old) ==
    /\ tail # << >> => len - Len(tail) <= Len(log)
    /\ \A j \in 1..Len(tail) :
        \/ tail[j].key \in old
        \/ \E i \in 1..Len(log) : i > len - Len(tail) /\ log[i].key = tail[j].key
        \/ tail[j].val = lat[tail[j].key]

TailIsLatest == TailIn(vlog, unflushed, gc_len, latest, stale)

\* Only a failed batch write leaves records in an open stream, and only an exit
\* then makes a key stale.
StaleByLateFlush ==
    /\ unflushed # << >> /\ status # "crashed" => "write" \in Faults /\ ~LearnedIndexUsed
    /\ stale # {} => {"write", "exit"} \subseteq Faults /\ ~LearnedIndexUsed

Good(st) ==
    /\ st.write_pos = Len(st.vlog)
    /\ st.gc_len <= st.write_pos
    /\ PointersIn(st.vlog, st.db, st.gc_len)
    /\ FilterIn(st.db, st.filter)
    /\ KeyArrayIn(st.vlog, st.model_file, st.key_array_file, st.gc_len)

Inv ==
    /\ TypeOK
    /\ CounterMatchesLog
    /\ PointersCurrent
    /\ FilterCoversIndex
    /\ KeyArrayMatchesLog
    /\ RecordsAreLatest
    /\ TailIsLatest
    /\ StaleByLateFlush
    /\ AssertOnlyFailsAfterFault

LEMMA EmptyIndexGood ==
    ASSUME NEW k \in Keys
    PROVE  EmptyDb[k] = NoPtr
BY DEF EmptyDb

\* A complete collection with the learned index establishes everything anew,
\* whatever the store was like before.
LEMMA CollectIntoModelGood ==
    ASSUME TypeOK, LearnedIndexUsed, NEW s \in SortedSeqs(Survivors(vlog)),
           NEW f \in SUBSET FaultKinds, ~CollectIntoModel(s, f).faulty
    PROVE  Good(CollectIntoModel(s, f))
<1> DEFINE st == CollectIntoModel(s, f)
<1>0. vlog \in Seq(Record)
  BY DEF TypeOK, Record
<1>1. f = {}
  BY DEF CollectIntoModel
<1>2. Survivors(vlog) \in SUBSET Keys
  BY <1>0, LogKeysType DEF Survivors
<1>3. /\ Rewritten(s) \in Seq(Record) /\ Len(Rewritten(s)) = Len(s)
      /\ LogKeys(Rewritten(s)) = Survivors(vlog)
      /\ \A j \in 1..Len(s) : Rewritten(s)[j].key = s[j] /\ LastIndex(Rewritten(s), s[j]) = j
      /\ Len(s) \in Nat /\ {s[j] : j \in 1..Len(s)} = Survivors(vlog)
      /\ \A j, m \in 1..Len(s) : j < m => s[j] < s[m]
  BY <1>0, <1>2, RewrittenIs, SortedSeqIs
<1>4. /\ st.vlog = Rewritten(s) /\ st.db = EmptyDb /\ st.write_pos = Len(s)
      /\ st.gc_len = Len(s)
      /\ st.model_file = IF Len(s) >= 2 THEN s ELSE model_file
      /\ st.key_array_file = IF Len(s) >= 2 THEN s ELSE key_array_file
  BY <1>1 DEF CollectIntoModel, Reopened, ModelWritten, KeyArrayWritten
<1> HIDE DEF st
<1>5. PointersIn(st.vlog, st.db, st.gc_len)
  <2> SUFFICES ASSUME NEW k \in Keys, k \in LogKeys(Rewritten(s)),
                      LastIndex(Rewritten(s), k) > Len(s)
               PROVE  FALSE
    BY <1>4, EmptyIndexGood DEF PointersIn
  <2>1. LastIndex(Rewritten(s), k) \in 1..Len(s)
    BY <1>3, LastIndexIs
  <2> QED BY <1>3, <2>1
<1>6. FilterIn(st.db, st.filter)
  BY <1>4, EmptyIndexGood DEF FilterIn
<1>7. KeyArrayIn(st.vlog, st.model_file, st.key_array_file, st.gc_len)
  BY <1>3, <1>4 DEF KeyArrayIn
<1> QED BY <1>3, <1>4, <1>5, <1>6, <1>7 DEF Good, st

\* Likewise without it.
LEMMA CollectIntoDbGood ==
    ASSUME TypeOK, ~LearnedIndexUsed, NEW s \in SortedSeqs(Survivors(vlog)),
           NEW f \in SUBSET FaultKinds, NEW m \in 0..Len(s),
           ~CollectIntoDb(s, f, m).faulty
    PROVE  Good(CollectIntoDb(s, f, m))
<1> DEFINE st == CollectIntoDb(s, f, m)
<1>0. vlog \in Seq(Record)
  BY DEF TypeOK, Record
<1>1. f = {}
  BY DEF CollectIntoDb
<1>2. Survivors(vlog) \in SUBSET Keys
  BY <1>0, LogKeysType DEF Survivors
<1>3. /\ Rewritten(s) \in Seq(Record) /\ Len(Rewritten(s)) = Len(s)
      /\ LogKeys(Rewritten(s)) = Survivors(vlog)
      /\ \A j \in 1..Len(s) : LastIndex(Rewritten(s), s[j]) = j
      /\ Len(s) \in Nat /\ {s[j] : j \in 1..Len(s)} = Survivors(vlog)
      /\ DOMAIN s = 1..Len(s)
  BY <1>0, <1>2, RewrittenIs, SortedSeqIs
<1>4. /\ st.vlog = Rewritten(s) /\ st.db = BatchPut(EmptyDb, s) /\ st.write_pos = Len(s)
      /\ st.gc_len = Len(s) /\ st.filter = FilterInsertAll({}, Survivors(vlog))
  BY <1>1, <1>3 DEF CollectIntoDb, BatchWritten, Reopened, FilterReset
<1>5. /\ \A j \in 1..Len(s) : st.db[s[j]] = j - 1
      /\ \A k \in Keys \ Survivors(vlog) : st.db[k] = NoPtr
  BY <1>2, <1>4, EmptyDbType, EmptyIndexGood, BatchPutIs
<1> HIDE DEF st
<1>6. ASSUME NEW k \in Keys
      PROVE  /\ k \in Survivors(vlog) => /\ st.db[k] # NoPtr
                                         /\ st.db[k] + 1 = LastIndex(Rewritten(s), k)
             /\ k \notin Survivors(vlog) => st.db[k] = NoPtr
  <2>1. CASE k \in Survivors(vlog)
    <3>1. PICK j \in 1..Len(s) : s[j] = k
      BY <1>3, <2>1
    <3>2. st.db[k] = j - 1 /\ LastIndex(Rewritten(s), k) = j
      BY <1>3, <1>5, <3>1
    <3> QED BY <1>3, <2>1, <3>2 DEF NoPtr
  <2>2. CASE k \notin Survivors(vlog)
    BY <1>5, <2>2
  <2> QED BY <2>1, <2>2
<1>7. PointersIn(st.vlog, st.db, st.gc_len)
  BY <1>3, <1>4, <1>6 DEF PointersIn
<1>8. FilterIn(st.db, st.filter)
  BY <1>4, <1>6 DEF FilterIn, FilterInsertAll, PossiblyContains
<1>9. KeyArrayIn(st.vlog, st.model_file, st.key_array_file, st.gc_len)
  BY DEF KeyArrayIn
<1> QED BY <1>3, <1>4, <1>7, <1>8, <1>9 DEF Good, st

\* Once put has made the store ready, all is well unless a failure is on record.
LEMMA ReadyGood ==
    ASSUME Inv, status = "running", NEW st \in Ready, ~st.faulty
    PROVE  Good(st)
<1>1. CASE st = Unchanged
  <2>1. /\ st.vlog = vlog /\ st.db = db /\ st.write_pos = write_pos /\ st.filter = filter
        /\ st.model_file = model_file /\ st.key_array_file = key_array_file
        /\ st.gc_len = gc_len /\ st.faulty = faulty
    BY <1>1 DEF Unchanged
  <2>2. Healthy
    BY <2>1 DEF Healthy
  <2> QED BY <2>1, <2>2 DEF Inv, Good, CounterMatchesLog, PointersCurrent, PointersIn,
            FilterCoversIndex, FilterIn, KeyArrayMatchesLog, KeyArrayIn
<1> QED BY <1>1, ReadyCases, CollectIntoModelGood, CollectIntoDbGood DEF Inv

\* The values that survive a collection, or a part of one, are the latest ones.
LEMMA PrefixLatest ==
    ASSUME TypeOK, LatestIn(vlog, latest, stale), NEW s \in SortedSeqs(Survivors(vlog)),
           NEW log \in Seq(Record), Len(log) <= Len(s),
           \A j \in 1..Len(log) : log[j] = Rewritten(s)[j]
    PROVE  LatestIn(log, latest, stale)
<1>0. vlog \in Seq(Record) /\ Len(log) \in Nat
  BY DEF TypeOK, Record
<1>1. Survivors(vlog) \subseteq LogKeys(vlog) /\ LogKeys(vlog) \subseteq Keys
  BY <1>0, LogKeysType DEF Survivors
<1>2. /\ \A j \in 1..Len(s) : /\ Rewritten(s)[j].key = s[j]
                              /\ Rewritten(s)[j].val = ValidValue(vlog, s[j])
      /\ \A j, m \in 1..Len(s) : Rewritten(s)[j].key = Rewritten(s)[m].key => j = m
      /\ Len(s) \in Nat /\ {s[j] : j \in 1..Len(s)} = Survivors(vlog)
  BY <1>0, <1>1, RewrittenIs, SortedSeqIs, SMTT(30)
<1>3. \A j \in 1..Len(log) : j \in 1..Len(s)
  BY <1>0, <1>2
<1>4. \A j, m \in 1..Len(log) : log[j].key = log[m].key => j = m
  BY <1>2, <1>3
<1> SUFFICES ASSUME NEW k \in LogKeys(log) \ stale PROVE ValidValue(log, k) = latest[k]
  BY DEF LatestIn
<1>5. PICK j \in 1..Len(log) : log[j].key = k
  BY DEF LogKeys
<1>6. LastIndex(log, k) = j
  BY <1>4, <1>5, DistinctLog
<1>7. k = s[j] /\ log[j].val = ValidValue(vlog, k) /\ k \in LogKeys(vlog)
  BY <1>1, <1>2, <1>3, <1>5
<1> QED BY <1>6, <1>7 DEF ValidValue, LatestIn

LEMMA ReadyLatest ==
    ASSUME Inv, NEW st \in Ready
    PROVE  LatestIn(st.vlog, latest, stale)
<1>0. vlog \in Seq(Record) /\ TypeOK /\ LatestIn(vlog, latest, stale)
  BY DEF Inv, TypeOK, Record, RecordsAreLatest, LatestIn
<1>1. CASE st = Unchanged
  BY <1>0, <1>1 DEF Unchanged
<1>2. ASSUME NEW s \in SortedSeqs(Survivors(vlog)), NEW m \in 0..Len(s),
             st.vlog = Rewritten(s) \/ st.vlog = SubSeq(Rewritten(s), 1, m)
      PROVE  LatestIn(st.vlog, latest, stale)
  <2>1. /\ Rewritten(s) \in Seq(Record) /\ Len(Rewritten(s)) = Len(s)
    BY <1>0, RewrittenIs
  <2>2. /\ SubSeq(Rewritten(s), 1, m) \in Seq(Record)
        /\ Len(SubSeq(Rewritten(s), 1, m)) = m /\ m <= Len(s)
        /\ \A j \in 1..m : SubSeq(Rewritten(s), 1, m)[j] = Rewritten(s)[j]
    BY <2>1, PrefixType
  <2>3. LatestIn(Rewritten(s), latest, stale)
    BY <1>0, <2>1, PrefixLatest
  <2>4. LatestIn(SubSeq(Rewritten(s), 1, m), latest, stale)
    BY <1>0, <2>2, PrefixLatest
  <2> QED BY <1>2, <2>3, <2>4
<1>3. ASSUME NEW s \in SortedSeqs(Survivors(vlog)) PROVE 0 \in 0..Len(s)
  <2>1. Survivors(vlog) \in SUBSET Keys
    BY <1>0, LogKeysType DEF Survivors
  <2> QED BY <2>1, SortedSeqIs
<1>4. ASSUME NEW s \in SortedSeqs(Survivors(vlog)), NEW f \in SUBSET FaultKinds,
             st = CollectIntoModel(s, f)
      PROVE  LatestIn(st.vlog, latest, stale)
  <2>1. st.vlog = Rewritten(s)
    BY <1>4 DEF CollectIntoModel
  <2> QED BY <1>2, <1>3, <2>1
<1>5. ASSUME NEW s \in SortedSeqs(Survivors(vlog)), NEW f \in SUBSET FaultKinds,
             NEW m \in 0..Len(s), st = CollectIntoDb(s, f, m)
      PROVE  LatestIn(st.vlog, latest, stale)
  <2>1. st.vlog = Rewritten(s) \/ st.vlog = SubSeq(Rewritten(s), 1, m)
    BY <1>5 DEF CollectIntoDb
  <2> QED BY <1>2, <2>1
<1> QED BY <1>1, <1>4, <1>5, ReadyCases

LEMMA LeftLatest ==
    ASSUME Inv, NEW st \in Left
    PROVE  LatestIn(st.vlog, latest, stale)
<1>0. vlog \in Seq(Record) /\ TypeOK /\ LatestIn(vlog, latest, stale)
  BY DEF Inv, TypeOK, Record, RecordsAreLatest, LatestIn
<1>1. CASE st = Unchanged \/ st = [Unchanged EXCEPT !.db = EmptyDb]
  BY <1>0, <1>1 DEF Unchanged
<1>2. ASSUME NEW s \in SortedSeqs(Survivors(vlog)), NEW m \in 0..Len(s)
      PROVE  LatestIn(SubSeq(Rewritten(s), 1, m), latest, stale)
  <2>1. /\ Rewritten(s) \in Seq(Record) /\ Len(Rewritten(s)) = Len(s)
    BY <1>0, RewrittenIs
  <2>2. /\ SubSeq(Rewritten(s), 1, m) \in Seq(Record)
        /\ Len(SubSeq(Rewritten(s), 1, m)) = m /\ m <= Len(s)
        /\ \A j \in 1..m : SubSeq(Rewritten(s), 1, m)[j] = Rewritten(s)[j]
    BY <2>1, PrefixType
  <2> QED BY <1>0, <2>2, PrefixLatest
<1>3. ASSUME NEW s \in SortedSeqs(Survivors(vlog)), NEW f \in SUBSET FaultKinds,
             NEW m \in 0..Len(s),
             st = [CollectIntoModel(s, f) EXCEPT !.vlog = SubSeq(Rewritten(s), 1, m)]
      PROVE  LatestIn(st.vlog, latest, stale)
  <2>1. st.vlog = SubSeq(Rewritten(s), 1, m)
    BY <1>3 DEF CollectIntoModel
  <2> QED BY <1>2, <2>1
<1>4. ASSUME NEW s \in SortedSeqs(Survivors(vlog)), NEW f \in SUBSET FaultKinds,
             NEW m \in 0..Len(s),
             st = [CollectIntoDb(s, f, 0) EXCEPT !.vlog = SubSeq(Rewritten(s), 1, m)]
      PROVE  LatestIn(st.vlog, latest, stale)
  <2>1. st.vlog = SubSeq(Rewritten(s), 1, m)
    BY <1>4 DEF CollectIntoDb
  <2> QED BY <1>2, <2>1
<1> QED BY <1>1, <1>3, <1>4, LeftCases

\* What appending the record does to the properties of the store.
LEMMA AppendGood ==
    ASSUME NEW st, StoreTyped(st), Good(st), NEW k \in Keys, NEW v \in Values
    PROVE  LET log == Appended(st, k, v)
               index == [st.db EXCEPT ![k] = st.write_pos]
           IN  /\ st.write_pos + 1 = Len(log)
               /\ st.gc_len <= st.write_pos + 1
               /\ PointersIn(log, index, st.gc_len)
               /\ FilterIn(index, FilterInsert(st.filter, k))
               /\ KeyArrayIn(log, st.model_file, st.key_array_file, st.gc_len)
<1> DEFINE log == Appended(st, k, v)
           index == [st.db EXCEPT ![k] = st.write_pos]
           n == Len(st.vlog)
<1>1. /\ st.vlog \in Seq(Record) /\ st.db \in [Keys -> Nat \cup {NoPtr}]
      /\ st.gc_len \in Nat /\ n \in Nat /\ st.write_pos = n /\ st.gc_len <= n
  BY DEF StoreTyped, Good
<1>2. /\ log \in Seq(Record) /\ Len(log) = n + 1
      /\ LogKeys(log) = LogKeys(st.vlog) \cup {k}
      /\ LastIndex(log, k) = n + 1
      /\ \A j \in 1..n : log[j] = st.vlog[j]
      /\ \A l \in LogKeys(st.vlog) : l # k => LastIndex(log, l) = LastIndex(st.vlog, l)
  BY <1>1, AppendLog DEF Appended
<1>3. index[k] = n /\ \A l \in Keys : l # k => index[l] = st.db[l]
  BY <1>1
<1> HIDE DEF log, index, n
<1>4. PointersIn(log, index, st.gc_len)
  <2> SUFFICES ASSUME NEW l \in Keys
               PROVE  /\ index[l] # NoPtr => l \in LogKeys(log) /\ index[l] + 1 = LastIndex(log, l)
                      /\ l \in LogKeys(log) /\ (LearnedIndexUsed => LastIndex(log, l) > st.gc_len)
                            => index[l] # NoPtr
    BY DEF PointersIn
  <2>1. CASE l = k
    <3>1. n # NoPtr
      BY <1>1 DEF NoPtr
    <3> QED BY <1>2, <1>3, <2>1, <3>1
  <2>2. CASE l # k
    <3>1. index[l] = st.db[l] /\ (l \in LogKeys(log) <=> l \in LogKeys(st.vlog))
      BY <1>2, <1>3, <2>2
    <3>2. l \in LogKeys(st.vlog) => LastIndex(log, l) = LastIndex(st.vlog, l)
      BY <1>2, <2>2
    <3>3. /\ st.db[l] # NoPtr => l \in LogKeys(st.vlog) /\ st.db[l] + 1 = LastIndex(st.vlog, l)
          /\ l \in LogKeys(st.vlog) /\ (LearnedIndexUsed => LastIndex(st.vlog, l) > st.gc_len)
                => st.db[l] # NoPtr
      BY DEF Good, PointersIn
    <3> QED BY <3>1, <3>2, <3>3
  <2> QED BY <2>1, <2>2
<1>5. FilterIn(index, FilterInsert(st.filter, k))
  <2> SUFFICES ASSUME NEW l \in Keys, index[l] # NoPtr
               PROVE  PossiblyContains(FilterInsert(st.filter, k), l)
    BY DEF FilterIn
  <2>1. CASE l = k
    BY <2>1 DEF PossiblyContains, FilterInsert
  <2>2. CASE l # k
    <3>1. PossiblyContains(st.filter, l)
      BY <1>3, <2>2 DEF Good, FilterIn
    <3> QED BY <3>1 DEF PossiblyContains, FilterInsert
  <2> QED BY <2>1, <2>2
<1>6. KeyArrayIn(log, st.model_file, st.key_array_file, st.gc_len)
  <2> SUFFICES ASSUME LearnedIndexUsed, st.gc_len >= 2
               PROVE  /\ Len(st.key_array_file) = st.gc_len
                      /\ st.model_file = st.key_array_file
                      /\ \A j \in 1..st.gc_len : st.key_array_file[j] = log[j].key
                      /\ \A j, m \in 1..st.gc_len :
                            j < m => st.key_array_file[j] < st.key_array_file[m]
    BY DEF KeyArrayIn
  <2>1. \A j \in 1..st.gc_len : j \in 1..n
    BY <1>1
  <2> QED BY <1>2, <2>1 DEF Good, KeyArrayIn
<1>7. st.write_pos + 1 = Len(log) /\ st.gc_len <= st.write_pos + 1
  BY <1>1, <1>2
<1> QED BY <1>4, <1>5, <1>6, <1>7 DEF log, index

LEMMA AppendLatest ==
    ASSUME NEW st, StoreTyped(st), LatestIn(st.vlog, latest, stale), TypeOK,
           NEW k \in Keys, NEW v \in Values
    PROVE  LatestIn(Appended(st, k, v), [latest EXCEPT ![k] = v], stale \ {k})
<1> DEFINE log == Appended(st, k, v)
           n == Len(st.vlog)
           lat == [latest EXCEPT ![k] = v]
<1>1. /\ st.vlog \in Seq(Record) /\ n \in Nat
      /\ LogKeys(log) = LogKeys(st.vlog) \cup {k}
      /\ LastIndex(log, k) = n + 1 /\ log[n + 1] = [key |-> k, val |-> v]
      /\ \A j \in 1..n : log[j] = st.vlog[j]
      /\ \A l \in LogKeys(st.vlog) : l # k => LastIndex(log, l) = LastIndex(st.vlog, l)
  <2>1. st.vlog \in Seq(Record)
    BY DEF StoreTyped
  <2> QED BY <2>1, AppendLog DEF Appended
<1>2. lat[k] = v /\ \A l \in Keys : l # k => lat[l] = latest[l]
  BY DEF TypeOK
<1> HIDE DEF log, n, lat
<1> SUFFICES ASSUME NEW l \in LogKeys(log) \ (stale \ {k}) PROVE ValidValue(log, l) = lat[l]
  BY DEF LatestIn, log, lat
<1>3. CASE l = k
  BY <1>1, <1>2, <1>3 DEF ValidValue
<1>4. CASE l # k
  <2>1. l \in LogKeys(st.vlog) /\ l \in Keys
    BY <1>1, <1>4, LogKeysType
  <2>2. LastIndex(st.vlog, l) \in 1..n
    BY <1>1, <2>1, LastIndexIs DEF n
  <2>3. ValidValue(log, l) = ValidValue(st.vlog, l)
    BY <1>1, <1>4, <2>1, <2>2 DEF ValidValue
  <2> QED BY <1>2, <1>4, <2>1, <2>3 DEF LatestIn
<1> QED BY <1>3, <1>4

\* An empty buffer holds nothing that could come back.
LEMMA EmptyTail ==
    ASSUME NEW log, NEW len, NEW lat, NEW old
    PROVE  TailIn(log, << >>, len, lat, old)
BY DEF TailIn

\* The rest of a collection that was not flushed holds the latest values.
LEMMA RestLatest ==
    ASSUME TypeOK, LatestIn(vlog, latest, stale), NEW s \in SortedSeqs(Survivors(vlog)),
           NEW m \in 0..Len(s)
    PROVE  TailIn(SubSeq(Rewritten(s), 1, m), SubSeq(Rewritten(s), m + 1, Len(s)),
                  Len(s), latest, stale)
<1> DEFINE R == Rewritten(s)
           log == SubSeq(R, 1, m)
           tail == SubSeq(R, m + 1, Len(s))
<1>0. vlog \in Seq(Record)
  BY DEF TypeOK, Record
<1>1. Survivors(vlog) \subseteq LogKeys(vlog) /\ LogKeys(vlog) \subseteq Keys
  BY <1>0, LogKeysType DEF Survivors
<1>2. /\ R \in Seq(Record) /\ Len(R) = Len(s)
      /\ \A j \in 1..Len(s) : R[j].key = s[j] /\ R[j].val = ValidValue(vlog, s[j])
  BY <1>0, RewrittenIs
<1>3. Len(s) \in Nat /\ {s[j] : j \in 1..Len(s)} = Survivors(vlog)
  BY <1>1, SortedSeqIs
<1> HIDE DEF R
<1>4. Len(log) = m
  BY <1>2, PrefixType
<1>5. /\ Len(tail) = Len(s) - m
      /\ \A j \in 1..(Len(s) - m) : m + j \in 1..Len(s) /\ tail[j] = R[m + j]
  BY <1>2, RestType
<1> HIDE DEF log, tail
<1>6. Len(s) - Len(tail) <= Len(log)
  BY <1>3, <1>4, <1>5
<1>7. ASSUME NEW j \in 1..Len(tail), tail[j].key \notin stale
      PROVE  tail[j].val = latest[tail[j].key]
  <2>1. m + j \in 1..Len(s) /\ tail[j] = R[m + j]
    BY <1>5, <1>7
  <2>2. tail[j].key \in LogKeys(vlog) /\ tail[j].val = ValidValue(vlog, tail[j].key)
    BY <1>1, <1>2, <1>3, <2>1
  <2> QED BY <1>7, <2>2 DEF LatestIn
<1>8. TailIn(log, tail, Len(s), latest, stale)
  BY <1>6, <1>7 DEF TailIn
<1> QED BY <1>8 DEF log, tail, R

LEMMA ReadyTail ==
    ASSUME Inv, NEW st \in Ready
    PROVE  TailIn(st.vlog, st.unflushed, st.gc_len, latest, stale)
<1>0. TypeOK /\ LatestIn(vlog, latest, stale)
  BY DEF Inv, RecordsAreLatest, LatestIn
<1>1. CASE st = Unchanged
  BY <1>1 DEF Unchanged, Inv, TailIsLatest
<1>2. ASSUME NEW s, NEW f, st = CollectIntoModel(s, f)
      PROVE  TailIn(st.vlog, st.unflushed, st.gc_len, latest, stale)
  <2>1. st.unflushed = << >>
    BY <1>2 DEF CollectIntoModel
  <2> QED BY <2>1, EmptyTail
<1>3. ASSUME NEW s \in SortedSeqs(Survivors(vlog)), NEW f,
             NEW m \in 0..Len(s), st = CollectIntoDb(s, f, m)
      PROVE  TailIn(st.vlog, st.unflushed, st.gc_len, latest, stale)
  <2>1. CASE BatchWritten(f)
    <3>1. st.unflushed = << >>
      BY <1>3, <2>1 DEF CollectIntoDb
    <3> QED BY <3>1, EmptyTail
  <2>2. CASE ~BatchWritten(f)
    <3>1. /\ st.vlog = SubSeq(Rewritten(s), 1, m) /\ st.gc_len = Len(s)
          /\ st.unflushed = SubSeq(Rewritten(s), m + 1, Len(s))
      BY <1>3, <2>2 DEF CollectIntoDb
    <3> QED BY <1>0, <3>1, RestLatest
  <2> QED BY <2>1, <2>2
<1> QED BY <1>1, <1>2, <1>3, ReadyCases

\* A put takes its key out of the buffer's claim, whatever the buffer holds of it.
LEMMA AppendTail ==
    ASSUME NEW st, StoreTyped(st), TailIn(st.vlog, st.unflushed, st.gc_len, latest, stale),
           TypeOK, NEW k \in Keys, NEW v \in Values
    PROVE  TailIn(Appended(st, k, v), st.unflushed, st.gc_len,
                  [latest EXCEPT ![k] = v], stale \ {k})
<1> DEFINE log == Appended(st, k, v)
           n == Len(st.vlog)
           tail == st.unflushed
           from == st.gc_len - Len(tail)
           lat == [latest EXCEPT ![k] = v]
<1>1. /\ st.vlog \in Seq(Record) /\ n \in Nat /\ Len(log) = n + 1
      /\ log[n + 1] = [key |-> k, val |-> v]
      /\ \A j \in 1..n : log[j] = st.vlog[j]
  <2>1. st.vlog \in Seq(Record)
    BY DEF StoreTyped
  <2> QED BY <2>1, AppendLog DEF Appended
<1>2. tail \in Seq(Record) /\ Len(tail) \in Nat /\ from \in Int
  BY DEF StoreTyped
<1>3. lat[k] = v /\ \A l \in Keys : l # k => lat[l] = latest[l]
  BY DEF TypeOK
<1>4. /\ tail # << >> => from <= n
      /\ \A j \in 1..Len(tail) :
            \/ tail[j].key \in stale
            \/ \E i \in 1..n : i > from /\ st.vlog[i].key = tail[j].key
            \/ tail[j].val = latest[tail[j].key]
  BY DEF TailIn
<1>5. \A j \in 1..Len(tail) : tail[j].key \in Keys
  BY <1>2, LogKeysType DEF Record
<1> HIDE DEF log, n, tail, from, lat
<1>6. tail # << >> => from <= Len(log)
  BY <1>1, <1>2, <1>4
<1>7. ASSUME NEW j \in 1..Len(tail)
      PROVE  \/ tail[j].key \in stale \ {k}
             \/ \E i \in 1..Len(log) : i > from /\ log[i].key = tail[j].key
             \/ tail[j].val = lat[tail[j].key]
  <2>1. tail # << >>
    BY <1>2, <1>7
  <2>2. CASE tail[j].key = k
    <3>1. n + 1 \in 1..Len(log) /\ n + 1 > from /\ log[n + 1].key = k
      BY <1>1, <1>2, <1>4, <2>1
    <3> QED BY <2>2, <3>1
  <2>3. CASE tail[j].key # k
    <3>1. \A i \in 1..n : i \in 1..Len(log) /\ log[i] = st.vlog[i]
      BY <1>1
    <3> QED BY <1>3, <1>4, <1>5, <2>3, <3>1
  <2> QED BY <2>2, <2>3
<1>8. TailIn(log, tail, st.gc_len, lat, stale \ {k})
  BY <1>6, <1>7 DEF TailIn, from
<1> QED BY <1>8 DEF log, tail, lat

\* A put that goes on has a database, so its collection left records in an open
\* stream only because the batch write failed.
LEMMA ReadyByLateFlush ==
    ASSUME Inv, status = "running", NEW st \in Ready, st.opened \/ LearnedIndexUsed,
           st.unflushed # << >>
    PROVE  "write" \in Faults /\ ~LearnedIndexUsed
<1>1. CASE st = Unchanged
  BY <1>1 DEF Unchanged, Inv, StaleByLateFlush
<1>2. CASE st \in GarbageCollection /\ LearnedIndexUsed
  <2>1. PICK s \in SortedSeqs(Survivors(vlog)) :
          st \in {CollectIntoModel(s, f) :
                      f \in SUBSET (Faults \cap {"destroy", "open", "model", "key_array"})}
    BY <1>2 DEF GarbageCollection
  <2>2. PICK f : st = CollectIntoModel(s, f)
    BY <2>1
  <2> QED BY <2>2 DEF CollectIntoModel
<1>3. CASE st \in GarbageCollection /\ ~LearnedIndexUsed
  <2>1. PICK s \in SortedSeqs(Survivors(vlog)) :
          st \in {CollectIntoDb(s, f, m) :
                      f \in SUBSET (Faults \cap {"destroy", "open", "write"}),
                      m \in 0..Len(s)}
    BY <1>3 DEF GarbageCollection
  <2>2. PICK f \in SUBSET (Faults \cap {"destroy", "open", "write"}), m \in 0..Len(s) :
          st = CollectIntoDb(s, f, m)
    BY <2>1
  <2>3. ~BatchWritten(f) /\ "open" \notin f
    BY <1>3, <2>2 DEF CollectIntoDb
  <2>4. "write" \in f
    BY <2>3 DEF BatchWritten
  <2> QED BY <1>3, <2>4
<1> QED BY <1>1, <1>2, <1>3 DEF Ready

\* From a healthy store, the record always fits after the collection.
LEMMA HealthyFits ==
    ASSUME Inv, Healthy, NEW st \in Ready
    PROVE  Fits(st)
<1>0. vlog \in Seq(Record) /\ write_pos \in Nat /\ Cap \in Nat \ {0}
  BY CapAssumption DEF Inv, TypeOK, Record
<1>1. write_pos = Len(vlog) /\ write_pos <= Cap
  BY DEF Inv, CounterMatchesLog
<1>2. CASE write_pos + 1 <= Cap /\ st = Unchanged
  BY <1>2 DEF Fits, Unchanged
<1>3. ASSUME ~(write_pos + 1 <= Cap), NEW s \in SortedSeqs(Survivors(vlog)),
             st.write_pos = Len(s)
      PROVE  Fits(st)
  <2>1. Len(vlog) = Cap /\ Len(vlog) > 0
    BY <1>0, <1>1, <1>3
  <2>2. Len(s) < Len(vlog)
    BY <1>0, <2>1, SurvivorsFewer
  <2>3. Survivors(vlog) \in SUBSET Keys
    BY <1>0, LogKeysType DEF Survivors
  <2>4. Len(s) \in Nat
    BY <2>3, SortedSeqIs
  <2> QED BY <1>0, <1>3, <2>1, <2>2, <2>4 DEF Fits
<1>4. ASSUME NEW s, NEW f PROVE CollectIntoModel(s, f).write_pos = Len(s)
  BY DEF CollectIntoModel
<1>5. ASSUME NEW s, NEW f, NEW m PROVE CollectIntoDb(s, f, m).write_pos = Len(s)
  BY DEF CollectIntoDb
<1> QED BY <1>2, <1>3, <1>4, <1>5, ReadyCases

LEMMA InitInv == Init => Inv
<1> SUFFICES ASSUME Init PROVE Inv
  OBVIOUS
<1>1. TypeOK
  BY InitTypeOK
<1>2. LogKeys(vlog) = {} /\ Len(vlog) = 0
  BY DEF Init, LogKeys
<1>3. \A k \in Keys : db[k] = NoPtr
  BY EmptyIndexGood DEF Init
<1>4. CounterMatchesLog
  BY <1>2, CapAssumption DEF Init, CounterMatchesLog
<1>5. KeyArrayMatchesLog
  BY DEF Init, KeyArrayMatchesLog
<1>6. PointersCurrent /\ FilterCoversIndex
  BY <1>2, <1>3 DEF PointersCurrent, FilterCoversIndex
<1>7. RecordsAreLatest /\ StaleByLateFlush /\ AssertOnlyFailsAfterFault
  BY <1>2 DEF Init, RecordsAreLatest, StaleByLateFlush, AssertOnlyFailsAfterFault
<1>8. TailIsLatest
  BY EmptyTail DEF Init, TailIsLatest
<1> QED BY <1>1, <1>4, <1>5, <1>6, <1>7, <1>8 DEF Inv

\* The records and the buffer after a put that reached the log, and after one that
\* did not.
LEMMA PutKeepsLatest ==
    ASSUME Inv, status = "running", NEW st \in Ready, unflushed' = st.unflushed,
           gc_len' = st.gc_len, st.opened \/ LearnedIndexUsed \/ status' = "crashed",
           \/ \E k \in Keys, v \in Values :
                /\ vlog' = Appended(st, k, v)
                /\ latest' = [latest EXCEPT ![k] = v]
                /\ stale' = stale \ {k}
           \/ vlog' = st.vlog /\ latest' = latest /\ stale' = stale
    PROVE  RecordsAreLatest' /\ TailIsLatest' /\ StaleByLateFlush'
<1>1. StoreTyped(st) /\ TypeOK
  BY ReadyTyped DEF Inv
<1>2. LatestIn(vlog', latest', stale') /\ TailIn(vlog', unflushed', gc_len', latest', stale')
  <2>1. CASE vlog' = st.vlog /\ latest' = latest /\ stale' = stale
    BY <2>1, ReadyLatest, ReadyTail
  <2>2. ASSUME NEW k \in Keys, NEW v \in Values, vlog' = Appended(st, k, v),
               latest' = [latest EXCEPT ![k] = v], stale' = stale \ {k}
        PROVE  /\ LatestIn(vlog', latest', stale')
               /\ TailIn(vlog', unflushed', gc_len', latest', stale')
    BY <1>1, <2>2, ReadyLatest, ReadyTail, AppendLatest, AppendTail
  <2> QED BY <2>1, <2>2
<1>3. StaleByLateFlush'
  <2>1. unflushed' # << >> /\ status' # "crashed" => "write" \in Faults /\ ~LearnedIndexUsed
    BY ReadyByLateFlush
  <2>2. stale' \subseteq stale
    OBVIOUS
  <2> QED BY <2>1, <2>2 DEF StaleByLateFlush, Inv
<1> QED BY <1>2, <1>3 DEF LatestIn, RecordsAreLatest, TailIsLatest

LEMMA PutOkInv ==
    ASSUME Inv, TypeOK', status = "running", NEW st \in Ready,
           NEW k \in Keys, NEW v \in Values, PutOk(st, k, v)
    PROVE  Inv'
<1>1. /\ Fits(st)
      /\ vlog' = Appended(st, k, v)
      /\ db' = [st.db EXCEPT ![k] = st.write_pos]
      /\ write_pos' = st.write_pos + 1
      /\ filter' = FilterInsert(st.filter, k)
      /\ faulty' = st.faulty
      /\ model_file' = st.model_file
      /\ key_array_file' = st.key_array_file
      /\ gc_len' = st.gc_len
  BY DEF PutOk, KeepFiles
<1>2. /\ status = "running" /\ status' = "running" /\ latest' = [latest EXCEPT ![k] = v]
  BY DEF PutOk
<1>3. StoreTyped(st) /\ TypeOK
  BY ReadyTyped DEF Inv
<1>4. RecordsAreLatest' /\ TailIsLatest' /\ StaleByLateFlush'
  <2>1. unflushed' = st.unflushed /\ stale' = stale \ {k} /\ st.opened
    BY DEF PutOk, KeepFiles
  <2> QED BY <1>1, <1>2, <2>1, PutKeepsLatest
<1>5. ASSUME ~faulty'
      PROVE  /\ write_pos' = Len(vlog') /\ write_pos' <= Cap /\ gc_len' <= write_pos'
             /\ PointersIn(vlog', db', gc_len') /\ FilterIn(db', filter')
             /\ KeyArrayIn(vlog', model_file', key_array_file', gc_len')
  <2>1. Good(st)
    BY <1>1, <1>2, <1>5, ReadyGood
  <2> QED BY <1>1, <1>3, <2>1, AppendGood DEF Fits
<1>6. CounterMatchesLog' /\ PointersCurrent' /\ FilterCoversIndex' /\ KeyArrayMatchesLog'
  BY <1>5 DEF Healthy, CounterMatchesLog, PointersCurrent, PointersIn,
              FilterCoversIndex, FilterIn, KeyArrayMatchesLog, KeyArrayIn
<1>7. AssertOnlyFailsAfterFault'
  BY <1>2 DEF AssertOnlyFailsAfterFault
<1> QED BY <1>4, <1>6, <1>7 DEF Inv

\* A store that has stopped, or in which something failed, satisfies the parts
\* that speak of a healthy one trivially.
LEMMA FaultyInv ==
    ASSUME TypeOK', RecordsAreLatest', TailIsLatest', StaleByLateFlush',
           status' # "running" \/ faulty',
           status' = "aborted" => faulty'
    PROVE  Inv'
BY DEF Inv, Healthy, CounterMatchesLog, PointersCurrent, FilterCoversIndex,
       KeyArrayMatchesLog, AssertOnlyFailsAfterFault

LEMMA PutFailsInv ==
    ASSUME Inv, TypeOK', status = "running", NEW st \in Ready,
           NEW k \in Keys, NEW v \in Values, PutFails(st, k, v)
    PROVE  Inv'
<1>1. /\ vlog' = Appended(st, k, v) /\ unflushed' = st.unflushed /\ gc_len' = st.gc_len
      /\ latest' = [latest EXCEPT ![k] = v] /\ stale' = stale \ {k} /\ st.opened
  BY DEF PutFails, KeepFiles
<1>2. status' = "running" /\ faulty'
  BY DEF PutFails
<1>3. RecordsAreLatest' /\ TailIsLatest' /\ StaleByLateFlush'
  BY <1>1, PutKeepsLatest
<1> QED BY <1>2, <1>3, FaultyInv

LEMMA PutAbortsInv ==
    ASSUME Inv, TypeOK', status = "running", NEW st \in Ready, PutAborts(st)
    PROVE  Inv'
<1>1. /\ status' = "aborted" /\ faulty' = (faulty \/ st.faulty)
      /\ ~(Fits(st) /\ Placed(st))
  BY DEF PutAborts
<1>2. /\ vlog' = st.vlog /\ unflushed' = st.unflushed /\ gc_len' = st.gc_len
      /\ latest' = latest /\ stale' = stale /\ (st.opened \/ LearnedIndexUsed)
  BY DEF PutAborts, KeepFiles
<1>3. RecordsAreLatest' /\ TailIsLatest' /\ StaleByLateFlush'
  BY <1>2, PutKeepsLatest
<1>4. faulty'
  <2> SUFFICES ASSUME ~faulty, ~st.faulty PROVE Fits(st) /\ Placed(st)
    BY <1>1
  <2>1. Good(st) /\ Fits(st)
    BY ReadyGood, HealthyFits DEF Healthy
  <2> QED BY <2>1 DEF Good, Placed
<1> QED BY <1>1, <1>3, <1>4, FaultyInv

LEMMA PutCrashesInv ==
    ASSUME Inv, TypeOK', status = "running", NEW st \in Ready,
           NEW k \in Keys, NEW v \in Values, PutCrashes(st, k, v)
    PROVE  Inv'
<1>1. /\ status' = "crashed" /\ unflushed' = st.unflushed /\ gc_len' = st.gc_len
      /\ vlog' = IF LearnedIndexUsed THEN Appended(st, k, v) ELSE st.vlog
      /\ latest' = IF LearnedIndexUsed THEN [latest EXCEPT ![k] = v] ELSE latest
      /\ stale' = IF LearnedIndexUsed THEN stale \ {k} ELSE stale
  BY DEF PutCrashes, KeepFiles
<1>2. \/ /\ vlog' = Appended(st, k, v) /\ latest' = [latest EXCEPT ![k] = v]
         /\ stale' = stale \ {k}
      \/ vlog' = st.vlog /\ latest' = latest /\ stale' = stale
  BY <1>1
<1>3. RecordsAreLatest' /\ TailIsLatest' /\ StaleByLateFlush'
  BY <1>1, <1>2, PutKeepsLatest
<1> QED BY <1>1, <1>3, FaultyInv

LEMMA RestartInv ==
    ASSUME Inv, TypeOK', Restart
    PROVE  Inv'
<1>1. PICK st \in Left : vlog' = st.vlog
  BY DEF Restart
<1>2. /\ faulty' /\ status' = "running" /\ latest' = latest /\ stale' = stale
      /\ unflushed' = << >>
  BY DEF Restart, Constructor
<1>3. RecordsAreLatest'
  BY <1>1, <1>2, LeftLatest DEF LatestIn, RecordsAreLatest
<1>4. TailIsLatest'
  BY <1>2, EmptyTail DEF TailIsLatest
<1>5. StaleByLateFlush'
  BY <1>2 DEF StaleByLateFlush, Inv
<1> QED BY <1>2, <1>3, <1>4, <1>5, FaultyInv

\* A late flush brings the latest value of a key, or makes the key stale.
LEMMA ExitInv ==
    ASSUME Inv, TypeOK', Exit
    PROVE  Inv'
<1>1. /\ faulty' /\ status' = "running" /\ latest' = latest /\ unflushed' = << >>
      /\ vlog' = vlog \o unflushed /\ stale' = stale \cup (LogKeys(unflushed) \cap PutSince)
      /\ "exit" \in Faults /\ status # "crashed"
  BY DEF Exit, Constructor
<1>2. vlog \in Seq(Record) /\ unflushed \in Seq(Record)
  BY DEF Inv, TypeOK, Record
<1>3. JoinedValues(vlog', vlog, unflushed)
  BY <1>1, <1>2, NewerPartWins
<1>4. RecordsAreLatest'
  <2> SUFFICES ASSUME NEW k \in LogKeys(vlog') \ stale' PROVE ValidValue(vlog', k) = latest[k]
    BY <1>1 DEF RecordsAreLatest
  <2>1. k \notin stale /\ (k \in LogKeys(unflushed) => k \notin PutSince)
    BY <1>1
  <2>2. CASE k \in LogKeys(unflushed)
    <3> DEFINE j == LastIndex(unflushed, k)
    <3>1. j \in 1..Len(unflushed) /\ unflushed[j].key = k
      BY <1>2, <2>2, LastIndexIs
    <3>2. ASSUME NEW i \in 1..Len(vlog), i > gc_len - Len(unflushed) PROVE vlog[i].key # k
      <4>1. i \in DOMAIN vlog
        BY <1>2
      <4> QED BY <2>1, <2>2, <3>2, <4>1 DEF PutSince
    <3> HIDE DEF j
    <3>3. unflushed[j].val = latest[k]
      BY <2>1, <3>1, <3>2 DEF Inv, TailIsLatest, TailIn
    <3>4. ValidValue(unflushed, k) = unflushed[j].val
      BY DEF ValidValue, j
    <3> QED BY <1>3, <2>2, <3>3, <3>4 DEF JoinedValues
  <2>3. CASE k \notin LogKeys(unflushed)
    <3>1. k \in LogKeys(vlog) /\ ValidValue(vlog', k) = ValidValue(vlog, k)
      BY <1>3, <2>3 DEF JoinedValues
    <3> QED BY <2>1, <3>1 DEF Inv, RecordsAreLatest
  <2> QED BY <2>2, <2>3
<1>5. TailIsLatest'
  BY <1>1, EmptyTail DEF TailIsLatest
<1>6. StaleByLateFlush'
  <2>1. unflushed = << >> => LogKeys(unflushed) = {}
    BY DEF LogKeys
  <2> QED BY <1>1, <2>1 DEF StaleByLateFlush, Inv
<1> QED BY <1>1, <1>4, <1>5, <1>6, FaultyInv

LEMMA NextInv == Inv /\ [Next]_vars => Inv'
<1> SUFFICES ASSUME Inv, [Next]_vars PROVE Inv'
  OBVIOUS
<1>0. TypeOK'
  BY NextTypeOK DEF Inv
<1>1. CASE Put
  <2>1. PICK st \in Ready :
            \/ PutAborts(st)
            \/ \E k \in Keys, v \in Values :
                PutOk(st, k, v) \/ PutFails(st, k, v) \/ PutCrashes(st, k, v)
    BY <1>1 DEF Put
  <2>2. status = "running"
    BY <1>1 DEF Put
  <2> QED BY <1>0, <2>1, <2>2, PutOkInv, PutFailsInv, PutAbortsInv, PutCrashesInv
<1>2. ASSUME NEW k \in Keys, Get(k) PROVE Inv'
  <2>1. UNCHANGED << store, latest, stale, faulty, gc_len >> /\ status = "running"
    BY <1>2 DEF Get
  <2>2. CASE status' = "crashed"
    <3>1. RecordsAreLatest' /\ TailIsLatest' /\ StaleByLateFlush'
      BY <2>1, <2>2 DEF Inv, store, RecordsAreLatest, TailIsLatest, TailIn, StaleByLateFlush
    <3> QED BY <1>0, <2>2, <3>1, FaultyInv
  <2>3. CASE status' = status
    BY <1>0, <2>1, <2>3 DEF Inv, store, Healthy, CounterMatchesLog, PointersCurrent,
       FilterCoversIndex, KeyArrayMatchesLog, RecordsAreLatest, TailIsLatest, TailIn,
       StaleByLateFlush, AssertOnlyFailsAfterFault
  <2> QED BY <1>2, <2>2, <2>3 DEF Get
<1>3. CASE Restart
  BY <1>0, <1>3, RestartInv
<1>4. CASE Exit
  BY <1>0, <1>4, ExitInv
<1>5. CASE UNCHANGED vars
  BY <1>0, <1>5 DEF Inv, vars, store, Healthy, CounterMatchesLog, PointersCurrent,
     FilterCoversIndex, KeyArrayMatchesLog, RecordsAreLatest, TailIsLatest, TailIn,
     StaleByLateFlush, AssertOnlyFailsAfterFault
<1> QED BY <1>1, <1>2, <1>3, <1>4, <1>5 DEF Next

\* The inductive invariant holds in every reachable state of the store.
THEOREM Invariance == Spec => []Inv
BY InitInv, NextInv, PTL DEF Spec

\* In a healthy store write_pos counts the records of vlog and stays within the
\* group (put, garbage_collection).
THEOREM CounterCorrect == Spec => []CounterMatchesLog
<1>1. Inv => CounterMatchesLog
  BY DEF Inv
<1> QED BY <1>1, Invariance, PTL

\* In a healthy store the index points at the last record of every key it has to
\* know, through overwrites and renumbering (put, garbage_collection).
THEOREM PointersCorrect == Spec => []PointersCurrent
<1>1. Inv => PointersCurrent
  BY DEF Inv
<1> QED BY <1>1, Invariance, PTL

\* In a healthy store the Bloom filter has no false negatives (get).
THEOREM FilterCorrect == Spec => []FilterCoversIndex
<1>1. Inv => FilterCoversIndex
  BY DEF Inv
<1> QED BY <1>1, Invariance, PTL

\* In a healthy store the files of the learned index describe the records the
\* last garbage collection wrote.
THEOREM KeyArrayCorrect == Spec => []KeyArrayMatchesLog
<1>1. Inv => KeyArrayMatchesLog
  BY DEF Inv
<1> QED BY <1>1, Invariance, PTL

\* Whatever fails, the last record of a key is the last one put for it, unless an
\* exit flushed the rest of a failed collection behind that put
\* (garbage_collection).
THEOREM NoOldValueReturns == Spec => []RecordsAreLatest
<1>1. Inv => RecordsAreLatest
  BY DEF Inv
<1> QED BY <1>1, Invariance, PTL

\* An older value comes back only in one way: without the learned index, when the
\* batch write of a collection fails and the process then exits and is started
\* again.  Otherwise no key is ever stale, and the two theorems about the latest
\* values hold for every key.
THEOREM StaleOnlyByLateFlush ==
    Spec => [](stale # {} => {"write", "exit"} \subseteq Faults /\ ~LearnedIndexUsed)
<1> DEFINE Rare == stale # {} => {"write", "exit"} \subseteq Faults /\ ~LearnedIndexUsed
<1>1. Inv => Rare
  BY DEF Inv, StaleByLateFlush
<1> QED BY <1>1, Invariance, PTL

\* The asserts of put never fail unless a call failed or the process was started again
\* on its files since the last complete collection.
THEOREM AssertHolds == Spec => []AssertOnlyFailsAfterFault
<1>1. Inv => AssertOnlyFailsAfterFault
  BY DEF Inv
<1> QED BY <1>1, Invariance, PTL

\* A healthy store is always able to take another put: one more record fits, or a
\* garbage collection in which nothing fails makes room for it, and then neither
\* assert of put stands in its way.
THEOREM PutCanSucceed ==
    Spec => [](Healthy => \E st \in Ready : st.opened /\ ~st.faulty /\ Fits(st) /\ Placed(st))
<1> DEFINE Able == Healthy => \E st \in Ready : st.opened /\ ~st.faulty /\ Fits(st) /\ Placed(st)
<1>1. Inv => Able
  <2> SUFFICES ASSUME Inv, Healthy
               PROVE  \E st \in Ready : st.opened /\ ~st.faulty /\ Fits(st) /\ Placed(st)
    OBVIOUS
  <2>1. PICK st \in Ready : st.opened /\ ~st.faulty
    <3>1. CASE write_pos + 1 <= Cap
      <4>1. Unchanged \in Ready /\ Unchanged.opened /\ ~Unchanged.faulty
        BY <3>1 DEF Ready, Unchanged, Healthy
      <4> QED BY <4>1
    <3>2. CASE ~(write_pos + 1 <= Cap)
      <4>1. Survivors(vlog) \in SUBSET Keys
        BY LogKeysType DEF Survivors, Inv, TypeOK, Record
      <4>2. Survivors(vlog) \subseteq Nat /\ IsFiniteSet(Survivors(vlog))
        BY <4>1, KeysAssumption, FS_Subset
      <4>3. PICK s \in SortedSeqs(Survivors(vlog)) : TRUE
        BY <4>2, SortedExists
      <4>4. 0 \in 0..Len(s)
        <5>1. Len(s) \in Nat
          BY <4>1, <4>3, SortedSeqIs
        <5> QED BY <5>1
      <4>5. CollectIntoModel(s, {}) \in Ready \/ CollectIntoDb(s, {}, 0) \in Ready
        <5> DEFINE Fm == SUBSET (Faults \cap {"destroy", "open", "model", "key_array"})
                   Fd == SUBSET (Faults \cap {"destroy", "open", "write"})
                   Out(x) == IF LearnedIndexUsed THEN {CollectIntoModel(x, f) : f \in Fm}
                             ELSE {CollectIntoDb(x, f, m) : f \in Fd, m \in 0..Len(x)}
        <5>1. {} \in Fm /\ {} \in Fd
          OBVIOUS
        <5>2. Ready = UNION {Out(x) : x \in SortedSeqs(Survivors(vlog))}
          <6>1. Ready = GarbageCollection
            BY <3>2 DEF Ready
          <6> QED BY <6>1 DEF GarbageCollection
        <5> HIDE DEF Fm, Fd
        <5>3. CollectIntoModel(s, {}) \in Out(s) \/ CollectIntoDb(s, {}, 0) \in Out(s)
          <6>1. CollectIntoModel(s, {}) \in {CollectIntoModel(s, f) : f \in Fm}
            BY <5>1
          <6>2. CollectIntoDb(s, {}, 0) \in {CollectIntoDb(s, f, m) : f \in Fd, m \in 0..Len(s)}
            BY <4>4, <5>1
          <6> QED BY <6>1, <6>2
        <5> HIDE DEF Out
        <5> QED BY <4>3, <5>2, <5>3, Zenon
      <4>6. /\ CollectIntoModel(s, {}).opened /\ ~CollectIntoModel(s, {}).faulty
            /\ CollectIntoDb(s, {}, 0).opened /\ ~CollectIntoDb(s, {}, 0).faulty
        BY DEF CollectIntoModel, CollectIntoDb
      <4> QED BY <4>5, <4>6
    <3> QED BY <3>1, <3>2
  <2>2. Good(st) /\ Fits(st)
    BY <2>1, ReadyGood, HealthyFits DEF Healthy
  <2>3. Placed(st)
    BY <2>2 DEF Good, Placed
  <2> QED BY <2>1, <2>2, <2>3
<1> QED BY <1>1, Invariance, PTL

\* What get returns without the learned index, in every state of the invariant.
LEMMA ReadsInv ==
    ASSUME ~LearnedIndexUsed, Inv
    PROVE  ReadsReturnLatest /\ AbsentKeysNotFound
<1> SUFFICES ASSUME Healthy, NEW k \in Keys
             PROVE  /\ k \in LogKeys(vlog) =>
                            /\ GetOutcomes(k) = {ValidValue(vlog, k)}
                            /\ k \notin stale => GetOutcomes(k) = {latest[k]}
                    /\ k \notin LogKeys(vlog) => GetOutcomes(k) = {NotFound}
  <2>1. LogKeys(vlog) \subseteq Keys
    BY LogKeysType DEF Inv, TypeOK, Record
  <2> QED BY <2>1 DEF ReadsReturnLatest, AbsentKeysNotFound
<1>0. vlog \in Seq(Record) /\ Len(vlog) \in Nat
  BY DEF Inv, TypeOK, Record
<1>1. CASE k \in LogKeys(vlog)
  <2>1. db[k] # NoPtr /\ db[k] + 1 = LastIndex(vlog, k) /\ db[k] \in Nat
    BY <1>1 DEF Inv, PointersCurrent, TypeOK
  <2>2. InIndex(k)
    BY <2>1 DEF Inv, FilterCoversIndex, InIndex
  <2>3. LastIndex(vlog, k) \in 1..Len(vlog)
    BY <1>0, <1>1, LastIndexIs
  <2>4. ReadAt(db[k]) = ValidValue(vlog, k)
    <3>1. db[k] \in 0..(Len(vlog) - 1)
      BY <1>0, <2>1, <2>3
    <3> QED BY <2>1, <3>1 DEF ReadAt, ValidValue
  <2>5. k \notin stale => ValidValue(vlog, k) = latest[k]
    BY <1>1 DEF Inv, RecordsAreLatest
  <2> QED BY <1>1, <2>2, <2>4, <2>5 DEF GetOutcomes
<1>2. CASE k \notin LogKeys(vlog)
  <2>1. db[k] = NoPtr
    BY <1>2 DEF Inv, PointersCurrent
  <2> QED BY <1>2, <2>1 DEF GetOutcomes, InIndex
<1> QED BY <1>1, <1>2

\* Without the learned index get reports a key that has no record as not found,
\* although its bits may be in the filter and its pointer in a destroyed database.
THEOREM AbsentCorrect == Spec => []AbsentKeysNotFound
<1>1. Inv => AbsentKeysNotFound
  BY ReadsInv DEF AbsentKeysNotFound
<1> QED BY <1>1, Invariance, PTL
-----------------------------------------------------------------------------
(***************************************************************************)
(* What is lost, and what pointers name after failures.                    *)
(***************************************************************************)
\* Making the store ready loses no key unless it collects, and a collection in
\* which nothing fails only the largest one.
LEMMA ReadyKeeps ==
    ASSUME TypeOK, NEW st \in Ready, NEW k \in LogKeys(vlog)
    PROVE  \/ k \in LogKeys(st.vlog)
           \/ write_pos + 1 > Cap /\ (~st.faulty => \A m \in LogKeys(vlog) : m <= k)
<1>0. vlog \in Seq(Record) /\ write_pos \in Nat /\ Cap \in Nat
  BY CapAssumption DEF TypeOK, Record
<1>1. CASE st = Unchanged
  BY <1>1 DEF Unchanged
<1>2. CASE ~(write_pos + 1 <= Cap)
  <2>1. write_pos + 1 > Cap
    BY <1>0, <1>2
  <2>2. LogKeys(vlog) \subseteq Nat
    BY <1>0, LogKeysType, KeysAssumption
  <2>3. k \notin Survivors(vlog) => \A m \in LogKeys(vlog) : m <= k
    BY <2>2 DEF Survivors
  <2>4. ASSUME NEW s \in SortedSeqs(Survivors(vlog)), NEW f \in SUBSET FaultKinds,
               st = CollectIntoModel(s, f)
        PROVE  LogKeys(st.vlog) = Survivors(vlog)
    <3>1. st.vlog = Rewritten(s)
      BY <2>4 DEF CollectIntoModel
    <3> QED BY <1>0, <3>1, RewrittenIs
  <2>5. ASSUME NEW s \in SortedSeqs(Survivors(vlog)), NEW f \in SUBSET FaultKinds,
               NEW m \in 0..Len(s), st = CollectIntoDb(s, f, m), ~st.faulty
        PROVE  LogKeys(st.vlog) = Survivors(vlog)
    <3>1. f = {}
      BY <2>5 DEF CollectIntoDb
    <3>2. st.vlog = Rewritten(s)
      BY <2>5, <3>1 DEF CollectIntoDb, BatchWritten
    <3> QED BY <1>0, <3>2, RewrittenIs
  <2> QED BY <1>2, <2>1, <2>3, <2>4, <2>5, ReadyCases
<1> QED BY <1>1, <1>2, ReadyCases

LEMMA LeftKeeps ==
    ASSUME TypeOK, NEW st \in Left, NEW k \in LogKeys(vlog)
    PROVE  k \in LogKeys(st.vlog) \/ write_pos + 1 > Cap
<1>1. CASE st = Unchanged
  BY <1>1 DEF Unchanged
<1>2. CASE st # Unchanged
  BY <1>2 DEF Left
<1> QED BY <1>1, <1>2

KeyKept(k) ==
    \/ k \in LogKeys(vlog')
    \/ /\ write_pos + 1 > Cap
       /\ ~faulty' => \A m \in LogKeys(vlog) : m <= k

\* A key loses its records only when garbage_collection runs, and if nothing fails
\* in it only the largest key does; put, get and restarts lose none.
THEOREM KeyLoss == Spec => OnlyLargestKeyLost
<1>1. TypeOK /\ [Next]_vars => [\A k \in LogKeys(vlog) : KeyKept(k)]_vars
  <2> SUFFICES ASSUME TypeOK, Next, NEW k \in LogKeys(vlog) PROVE KeyKept(k)
    BY DEF vars
  <2>0. vlog \in Seq(Record)
    BY DEF TypeOK, Record
  <2>1. ASSUME NEW st \in Ready, NEW l \in Keys, NEW v \in Values,
               vlog' = Appended(st, l, v), faulty' = st.faulty \/ faulty' = TRUE
        PROVE  KeyKept(k)
    <3>1. StoreTyped(st)
      BY ReadyTyped
    <3>2. LogKeys(vlog') = LogKeys(st.vlog) \cup {l}
      BY <2>1, <3>1, AppendLog DEF Appended, StoreTyped
    <3> QED BY <2>1, <3>2, ReadyKeeps DEF KeyKept
  <2>2. ASSUME NEW st \in Ready, PutAborts(st) PROVE KeyKept(k)
    <3>1. vlog' = st.vlog /\ faulty' = (faulty \/ st.faulty)
      BY <2>2 DEF PutAborts
    <3> QED BY <3>1, ReadyKeeps DEF KeyKept
  <2>3. ASSUME NEW st \in Ready, NEW l \in Keys, NEW v \in Values, PutCrashes(st, l, v)
        PROVE  KeyKept(k)
    <3>1. /\ vlog' = IF LearnedIndexUsed THEN Appended(st, l, v) ELSE st.vlog
          /\ faulty' = TRUE
      BY <2>3 DEF PutCrashes
    <3>2. CASE ~LearnedIndexUsed
      BY <3>1, <3>2, ReadyKeeps DEF KeyKept
    <3> QED BY <2>1, <3>1, <3>2
  <2>4. CASE Put
    <3>1. PICK st \in Ready :
            \/ PutAborts(st)
            \/ \E l \in Keys, v \in Values :
                PutOk(st, l, v) \/ PutFails(st, l, v) \/ PutCrashes(st, l, v)
      BY <2>4 DEF Put
    <3>2. ASSUME NEW l \in Keys, NEW v \in Values, PutOk(st, l, v) PROVE KeyKept(k)
      BY <2>1, <3>2 DEF PutOk
    <3>3. ASSUME NEW l \in Keys, NEW v \in Values, PutFails(st, l, v) PROVE KeyKept(k)
      BY <2>1, <3>3 DEF PutFails
    <3> QED BY <2>2, <2>3, <3>1, <3>2, <3>3
  <2>5. ASSUME NEW l \in Keys, Get(l) PROVE KeyKept(k)
    BY <2>5 DEF Get, store, KeyKept
  <2>6. CASE Restart
    <3>1. PICK st \in Left : vlog' = st.vlog
      BY <2>6 DEF Restart
    <3>2. faulty' = TRUE
      BY <2>6 DEF Restart, Constructor
    <3> QED BY <3>1, <3>2, LeftKeeps DEF KeyKept
  <2>7. CASE Exit
    <3>1. vlog' = vlog \o unflushed /\ unflushed \in Seq(Record)
      BY <2>7 DEF Exit, TypeOK, Record
    <3>2. JoinedValues(vlog', vlog, unflushed)
      BY <2>0, <3>1, NewerPartWins
    <3> QED BY <3>2 DEF JoinedValues, KeyKept
  <2> QED BY <2>4, <2>5, <2>6, <2>7 DEF Next
<1> QED BY <1>1, TypeCorrect, PTL DEF Spec, OnlyLargestKeyLost, KeyKept

\* With the learned index a collection that can destroy the database leaves it
\* empty, whatever else fails in it; so does one that is killed.
LEMMA ReadyDb ==
    ASSUME LearnedIndexUsed, "destroy" \notin Faults, NEW st \in Ready
    PROVE  st = Unchanged \/ st.db = EmptyDb
<1> SUFFICES ASSUME st \in GarbageCollection PROVE st.db = EmptyDb
  BY DEF Ready
<1>1. PICK s \in SortedSeqs(Survivors(vlog)) :
        st \in {CollectIntoModel(s, f) :
                    f \in SUBSET (Faults \cap {"destroy", "open", "model", "key_array"})}
  BY DEF GarbageCollection
<1>2. PICK f \in SUBSET (Faults \cap {"destroy", "open", "model", "key_array"}) :
        st = CollectIntoModel(s, f)
  BY <1>1
<1>3. "destroy" \notin f
  OBVIOUS
<1> QED BY <1>2, <1>3 DEF CollectIntoModel, Reopened

LEMMA LeftDb ==
    ASSUME LearnedIndexUsed, NEW st \in Left
    PROVE  st = Unchanged \/ st.db = EmptyDb
<1>1. CASE st = [Unchanged EXCEPT !.db = EmptyDb]
  BY <1>1 DEF Unchanged
<1>2. CASE st \in KilledCollection /\ st # [Unchanged EXCEPT !.db = EmptyDb]
  <2>1. PICK s \in SortedSeqs(Survivors(vlog)) :
          st \in {[c EXCEPT !.vlog = SubSeq(Rewritten(s), 1, m)] :
                      c \in IndexStages(s), m \in 0..Len(s)}
    BY <1>2 DEF KilledCollection
  <2>2. PICK c \in IndexStages(s), m \in 0..Len(s) :
          st = [c EXCEPT !.vlog = SubSeq(Rewritten(s), 1, m)]
    BY <2>1
  <2>3. PICK f \in {{"model"}, {"key_array"}, {}} : c = CollectIntoModel(s, f)
    BY <2>2 DEF IndexStages
  <2>4. "destroy" \notin f
    OBVIOUS
  <2> QED BY <2>2, <2>3, <2>4 DEF CollectIntoModel, Reopened
<1> QED BY <1>1, <1>2 DEF Left

OwnIn(log, index) ==
    \A k \in Keys : index[k] # NoPtr => index[k] < Len(log) /\ log[index[k] + 1].key = k

LEMMA OwnReady ==
    ASSUME OwnIn(vlog, db), NEW st, st = Unchanged \/ st.db = EmptyDb
    PROVE  OwnIn(st.vlog, st.db)
<1>1. CASE st = Unchanged
  BY <1>1 DEF Unchanged
<1>2. CASE st.db = EmptyDb
  BY <1>2, EmptyIndexGood DEF OwnIn
<1> QED BY <1>1, <1>2

\* Appending moves no record, and the pointer put makes names the new one when the
\* log ends where write_pos says.
LEMMA OwnAppended ==
    ASSUME NEW st, StoreTyped(st), OwnIn(st.vlog, st.db), NEW k \in Keys, NEW v \in Values
    PROVE  /\ OwnIn(Appended(st, k, v), st.db)
           /\ st.write_pos = Len(st.vlog) =>
                OwnIn(Appended(st, k, v), [st.db EXCEPT ![k] = st.write_pos])
<1> DEFINE log == Appended(st, k, v)
           n == Len(st.vlog)
           index == [st.db EXCEPT ![k] = n]
<1>1. /\ Len(log) = n + 1 /\ n \in Nat /\ log[n + 1] = [key |-> k, val |-> v]
      /\ \A j \in 1..n : log[j] = st.vlog[j]
  BY AppendLog DEF StoreTyped, Appended
<1>2. index[k] = n /\ (\A l \in Keys : l # k => index[l] = st.db[l])
      /\ \A l \in Keys : st.db[l] = NoPtr \/ st.db[l] \in Nat
  BY DEF StoreTyped
<1> HIDE DEF log, n, index
<1>3. ASSUME NEW l \in Keys, st.db[l] # NoPtr
      PROVE  st.db[l] < Len(log) /\ log[st.db[l] + 1].key = l
  <2>1. st.db[l] < n /\ st.vlog[st.db[l] + 1].key = l /\ st.db[l] \in Nat
    BY <1>2, <1>3 DEF OwnIn, n
  <2>2. st.db[l] + 1 \in 1..n
    BY <1>1, <2>1
  <2> QED BY <1>1, <2>1, <2>2
<1>4. OwnIn(log, st.db)
  BY <1>3 DEF OwnIn
<1>5. OwnIn(log, index)
  <2> SUFFICES ASSUME NEW l \in Keys, index[l] # NoPtr
               PROVE  index[l] < Len(log) /\ log[index[l] + 1].key = l
    BY DEF OwnIn
  <2>1. CASE l = k
    BY <1>1, <1>2, <2>1
  <2>2. CASE l # k
    BY <1>2, <1>3, <2>2
  <2> QED BY <2>1, <2>2
<1> QED BY <1>4, <1>5 DEF log, n, index

\* In the LevelDB variant with the learned index no failure, abort, crash, kill or
\* restart makes a pointer name a record of another key: the assert of put on the
\* log's end keeps record and pointer together.
THEOREM PointersOwn == Spec => []PointersNameOwnRecords
<1>1. CASE ~(PositionChecked /\ LearnedIndexUsed /\ "destroy" \notin Faults)
  <2>1. PointersNameOwnRecords
    BY <1>1 DEF PointersNameOwnRecords
  <2> QED BY <2>1, PTL
<1>2. CASE PositionChecked /\ LearnedIndexUsed /\ "destroy" \notin Faults
  <2>1. Init => OwnIn(vlog, db)
    BY EmptyIndexGood DEF Init, OwnIn
  <2>2. TypeOK /\ OwnIn(vlog, db) /\ [Next]_vars => OwnIn(vlog, db)'
    <3> SUFFICES ASSUME TypeOK, OwnIn(vlog, db), [Next]_vars PROVE OwnIn(vlog', db')
      OBVIOUS
    <3>1. ASSUME NEW st \in Ready
          PROVE  StoreTyped(st) /\ OwnIn(st.vlog, st.db)
      BY <1>2, <3>1, ReadyTyped, ReadyDb, OwnReady
    <3>2. ASSUME NEW st \in Ready, NEW k \in Keys, NEW v \in Values, PutOk(st, k, v)
          PROVE  OwnIn(vlog', db')
      <4>1. /\ vlog' = Appended(st, k, v) /\ db' = [st.db EXCEPT ![k] = st.write_pos]
            /\ st.write_pos = Len(st.vlog)
        BY <1>2, <3>2 DEF PutOk, Placed
      <4> QED BY <3>1, <4>1, OwnAppended
    <3>3. ASSUME NEW st \in Ready, NEW k \in Keys, NEW v \in Values,
                 PutFails(st, k, v) \/ PutCrashes(st, k, v)
          PROVE  OwnIn(vlog', db')
      <4>1. vlog' = Appended(st, k, v) /\ db' = st.db
        BY <1>2, <3>3 DEF PutFails, PutCrashes
      <4> QED BY <3>1, <4>1, OwnAppended
    <3>4. ASSUME NEW st \in Ready, PutAborts(st) PROVE OwnIn(vlog', db')
      BY <3>1, <3>4 DEF PutAborts
    <3>5. CASE Put
      BY <3>2, <3>3, <3>4, <3>5 DEF Put
    <3>6. ASSUME NEW k \in Keys, Get(k) PROVE OwnIn(vlog', db')
      BY <3>6 DEF Get, store
    <3>7. CASE Restart
      <4>1. PICK st \in Left : vlog' = st.vlog /\ db' = st.db
        BY <3>7 DEF Restart
      <4> QED BY <1>2, <4>1, LeftDb, OwnReady
    <3>8. CASE Exit
      <4>1. /\ vlog' = vlog \o unflushed /\ db' = db
            /\ vlog \in Seq(Record) /\ unflushed \in Seq(Record)
        BY <3>8 DEF Exit, TypeOK, Record
      <4>2. /\ Len(vlog) \in Nat /\ Len(vlog) <= Len(vlog')
            /\ \A j \in 1..Len(vlog) : vlog'[j] = vlog[j]
        BY <4>1
      <4>3. ASSUME NEW k \in Keys, db[k] # NoPtr
            PROVE  db[k] < Len(vlog') /\ vlog'[db[k] + 1].key = k
        <5>1. db[k] \in Nat /\ db[k] < Len(vlog) /\ vlog[db[k] + 1].key = k
          BY <4>3 DEF OwnIn, TypeOK
        <5>2. db[k] + 1 \in 1..Len(vlog) /\ Len(vlog') \in Nat
          BY <4>1, <4>2, <5>1
        <5> QED BY <4>2, <5>1, <5>2
      <4> QED BY <4>1, <4>3 DEF OwnIn
    <3>9. CASE UNCHANGED vars
      BY <3>9 DEF vars, store
    <3> QED BY <3>5, <3>6, <3>7, <3>8, <3>9 DEF Next
  <2>3. OwnIn(vlog, db) => PointersNameOwnRecords
    BY DEF OwnIn, PointersNameOwnRecords
  <2> QED BY <2>1, <2>2, <2>3, TypeCorrect, PTL DEF Spec
<1> QED BY <1>1, <1>2
-----------------------------------------------------------------------------
(***************************************************************************)
(* The client's view.                                                      *)
(***************************************************************************)
ContentsOf(log) ==
    [k \in Keys |-> IF k \in LogKeys(log) THEN ValidValue(log, k) ELSE NotFound]

LEMMA ContentsAppended ==
    ASSUME NEW log \in Seq(Record), NEW k \in Keys, NEW v \in Values
    PROVE  ContentsOf(Append(log, [key |-> k, val |-> v])) = [ContentsOf(log) EXCEPT ![k] = v]
<1> DEFINE new == Append(log, [key |-> k, val |-> v])
           n == Len(log)
<1>1. /\ n \in Nat /\ LogKeys(new) = LogKeys(log) \cup {k}
      /\ LastIndex(new, k) = n + 1 /\ new[n + 1] = [key |-> k, val |-> v]
      /\ \A j \in 1..n : new[j] = log[j]
      /\ \A l \in LogKeys(log) : l # k => LastIndex(new, l) = LastIndex(log, l)
  BY AppendLog
<1> HIDE DEF new, n
<1>2. ASSUME NEW l \in LogKeys(log), l # k PROVE ValidValue(new, l) = ValidValue(log, l)
  <2>1. LastIndex(log, l) \in 1..n
    BY LastIndexIs DEF n
  <2> QED BY <1>1, <1>2, <2>1 DEF ValidValue
<1>3. ValidValue(new, k) = v
  BY <1>1 DEF ValidValue
<1>4. \A l \in Keys : ContentsOf(new)[l] = [ContentsOf(log) EXCEPT ![k] = v][l]
  BY <1>1, <1>2, <1>3 DEF ContentsOf
<1> QED BY <1>4 DEF ContentsOf, new

\* The contents of the rewritten log: those of the old one without its largest key.
LEMMA ContentsRewritten ==
    ASSUME vlog \in Seq(Record), Len(vlog) > 0, NEW s \in SortedSeqs(Survivors(vlog))
    PROVE  \E max \in LogKeys(vlog) :
              /\ \A m \in LogKeys(vlog) : m <= max
              /\ ContentsOf(Rewritten(s)) = [ContentsOf(vlog) EXCEPT ![max] = NotFound]
<1>1. LogKeys(vlog) \subseteq Keys /\ Survivors(vlog) \subseteq LogKeys(vlog)
  BY LogKeysType DEF Survivors
<1>2. \A m \in LogKeys(vlog) : m \in Nat
  BY <1>1, KeysAssumption
<1>3. PICK max \in LogKeys(vlog) : max \notin Survivors(vlog)
  <2>1. Survivors(vlog) # LogKeys(vlog)
    BY SomeKeyDropped
  <2> QED BY <1>1, <2>1
<1>4. \A m \in LogKeys(vlog) : m <= max
  BY <1>2, <1>3 DEF Survivors
<1>5. \A m \in LogKeys(vlog) : m # max => m \in Survivors(vlog)
  BY <1>2, <1>4 DEF Survivors
<1>6. /\ LogKeys(Rewritten(s)) = Survivors(vlog)
      /\ \A j \in 1..Len(s) : /\ Rewritten(s)[j].val = ValidValue(vlog, s[j])
                              /\ LastIndex(Rewritten(s), s[j]) = j
      /\ {s[j] : j \in 1..Len(s)} = Survivors(vlog)
  BY <1>1, RewrittenIs, SortedSeqIs
<1>7. \A k \in Survivors(vlog) : ValidValue(Rewritten(s), k) = ValidValue(vlog, k)
  BY <1>6 DEF ValidValue
<1>8. \A k \in Keys :
        ContentsOf(Rewritten(s))[k] = [ContentsOf(vlog) EXCEPT ![max] = NotFound][k]
  BY <1>1, <1>3, <1>5, <1>6, <1>7 DEF ContentsOf
<1>9. ContentsOf(Rewritten(s)) = [ContentsOf(vlog) EXCEPT ![max] = NotFound]
  BY <1>8 DEF ContentsOf
<1> QED BY <1>4, <1>9

\* Without the learned index and without failures the store never stops and is
\* never unhealthy.
LEMMA StaysHealthy ==
    ASSUME ~LearnedIndexUsed, Faults = {}, Inv, Healthy, [Next]_vars
    PROVE  /\ Healthy'
           /\ \/ UNCHANGED vars
              \/ \E k \in Keys : Get(k) /\ ~GetCrashes(k)
              \/ \E st \in Ready, k \in Keys, v \in Values : PutOk(st, k, v)
<1>0. TypeOK /\ TypeOK'
  BY NextTypeOK DEF Inv
<1>1. ASSUME NEW st \in Ready PROVE st.opened /\ ~st.faulty
  <2>1. CASE write_pos + 1 <= Cap
    BY <1>1, <2>1 DEF Ready, Unchanged, Healthy
  <2>2. CASE ~(write_pos + 1 <= Cap)
    <3>1. st \in GarbageCollection
      BY <1>1, <2>2 DEF Ready
    <3>2. PICK r \in SortedSeqs(Survivors(vlog)) :
            st \in {CollectIntoDb(r, f, m) :
                        f \in SUBSET (Faults \cap {"destroy", "open", "write"}),
                        m \in 0..Len(r)}
      BY <3>1 DEF GarbageCollection
    <3>3. PICK m \in 0..Len(r) : st = CollectIntoDb(r, {}, m)
      BY <3>2
    <3> QED BY <3>3 DEF CollectIntoDb
  <2> QED BY <2>1, <2>2
<1>2. CASE Put
  <2>1. PICK st \in Ready :
            \/ PutAborts(st)
            \/ \E k \in Keys, v \in Values :
                PutOk(st, k, v) \/ PutFails(st, k, v) \/ PutCrashes(st, k, v)
    BY <1>2 DEF Put
  <2>2. ~PutAborts(st)
    <3>1. Good(st) /\ Fits(st)
      BY <1>1, ReadyGood, HealthyFits DEF Healthy
    <3> QED BY <3>1 DEF Good, Placed, PutAborts
  <2>3. ASSUME NEW k \in Keys, NEW v \in Values PROVE ~PutFails(st, k, v) /\ ~PutCrashes(st, k, v)
    BY <1>1 DEF PutFails, PutCrashes
  <2>4. PICK k \in Keys, v \in Values : PutOk(st, k, v)
    BY <2>1, <2>2, <2>3
  <2>5. status' = status /\ faulty' = st.faulty
    BY <2>4 DEF PutOk
  <2> QED BY <1>1, <2>4, <2>5 DEF Healthy
<1>3. ASSUME NEW k \in Keys, Get(k)
      PROVE  Healthy' /\ Get(k) /\ ~GetCrashes(k)
  BY <1>3 DEF Get, GetCrashes, Healthy
<1>4. ~Restart /\ ~Exit
  BY DEF Restart, Exit
<1>5. CASE UNCHANGED vars
  BY <1>5 DEF vars, Healthy
<1> QED BY <1>2, <1>3, <1>4, <1>5 DEF Next

\* Without the learned index and without failures, a client cannot tell the store
\* from the map of LossyMap: log, pointers, filter and the renumbering by
\* garbage_collection are invisible, and what a collection does to the contents is
\* to drop the largest key.
THEOREM Refinement ==
    ASSUME ~LearnedIndexUsed, Faults = {}
    PROVE  Spec => ImplementsLossyMap
<1>1. Contents = ContentsOf(vlog)
  BY DEF Contents, ContentsOf
<1>2. Init => Healthy /\ Abstract!Init
  BY DEF Init, Healthy, Abstract!Init, Contents, LogKeys
<1>3. Inv /\ Healthy /\ [Next]_vars => Healthy' /\ [Abstract!Next]_(Abstract!vars)
  <2> SUFFICES ASSUME Inv, Healthy, [Next]_vars
               PROVE  Healthy' /\ [Abstract!Next]_(Abstract!vars)
    OBVIOUS
  <2>0. vlog \in Seq(Record) /\ Len(vlog) \in Nat /\ Contents' = ContentsOf(vlog')
    BY DEF Inv, TypeOK, Record, Contents, ContentsOf
  <2>1. CASE UNCHANGED vars
    BY <1>1, <2>0, <2>1 DEF vars, store, Abstract!vars, Healthy
  <2>2. ASSUME NEW k \in Keys, Get(k), ~GetCrashes(k) PROVE Abstract!Next
    <3>1. reply' \in GetOutcomes(k) /\ vlog' = vlog
      BY <2>2 DEF Get, store
    <3>2. GetOutcomes(k) = {Contents[k]}
      BY ReadsInv DEF ReadsReturnLatest, AbsentKeysNotFound, Contents
    <3>3. Abstract!Get(k)
      BY <1>1, <2>0, <3>1, <3>2 DEF Abstract!Get
    <3> QED BY <3>3 DEF Abstract!Next
  <2>3. ASSUME NEW st \in Ready, NEW k \in Keys, NEW v \in Values, PutOk(st, k, v)
        PROVE  Abstract!Next
    <3>1. vlog' = Append(st.vlog, [key |-> k, val |-> v]) /\ reply' = Ok
      BY <2>3 DEF PutOk, Appended
    <3>2. Contents' = [ContentsOf(st.vlog) EXCEPT ![k] = v]
      <4>1. st.vlog \in Seq(Record)
        BY ReadyTyped DEF Inv, StoreTyped
      <4> QED BY <2>0, <3>1, <4>1, ContentsAppended
    <3>3. CASE st = Unchanged
      <4>1. Abstract!Put(k, v)
        BY <1>1, <3>1, <3>2, <3>3 DEF Abstract!Put, Unchanged
      <4> QED BY <4>1 DEF Abstract!Next
    <3>4. CASE ~(write_pos + 1 <= Cap)
      <4>1. PICK s \in SortedSeqs(Survivors(vlog)) : st.vlog = Rewritten(s)
        <5>1. PICK s \in SortedSeqs(Survivors(vlog)) :
                st \in {CollectIntoDb(s, f, m) :
                            f \in SUBSET (Faults \cap {"destroy", "open", "write"}),
                            m \in 0..Len(s)}
          BY <3>4 DEF Ready, GarbageCollection
        <5>2. PICK f \in SUBSET (Faults \cap {"destroy", "open", "write"}), m \in 0..Len(s) :
                st = CollectIntoDb(s, f, m)
          BY <5>1
        <5>3. f = {}
          OBVIOUS
        <5> QED BY <5>2, <5>3 DEF CollectIntoDb, BatchWritten
      <4>2. Len(vlog) > 0
        BY <2>0, <3>4, CapAssumption DEF Inv, CounterMatchesLog
      <4>3. PICK max \in LogKeys(vlog) :
              /\ \A m \in LogKeys(vlog) : m <= max
              /\ ContentsOf(st.vlog) = [ContentsOf(vlog) EXCEPT ![max] = NotFound]
        BY <2>0, <4>1, <4>2, ContentsRewritten
      <4>4. Abstract!Stored = LogKeys(vlog)
        <5>1. LogKeys(vlog) \subseteq Keys
          BY <2>0, LogKeysType
        <5>2. \A l \in LogKeys(vlog) : ValidValue(vlog, l) # NotFound
          BY <2>0, ValidValueType, ValuesAssumption
        <5> QED BY <5>1, <5>2 DEF Abstract!Stored, Contents
      <4>5. Abstract!PutCollecting(k, v)
        BY <1>1, <3>1, <3>2, <4>3, <4>4 DEF Abstract!PutCollecting
      <4> QED BY <4>5 DEF Abstract!Next
    <3> QED BY <3>3, <3>4, ReadyCases
  <2> QED BY <2>1, <2>2, <2>3, StaysHealthy
<1> QED BY <1>2, <1>3, Invariance, PTL DEF Spec, ImplementsLossyMap, Abstract!Spec
-----------------------------------------------------------------------------
(***************************************************************************)
(* Reads through the learned index.                                        *)
(***************************************************************************)
\* The positions the model is built for: the records of the new log.
LEMMA RecordNumbers ==
    ASSUME NEW s \in Seq(Keys), \A j, m \in 1..Len(s) : j < m => s[j] < s[m]
    PROVE  /\ Len(s) \in Nat
           /\ Points(s, [m \in DOMAIN s |-> m - 1])
           /\ \A j \in 1..Len(s) : [m \in DOMAIN s |-> m - 1][j] = j - 1
<1>1. Len(s) \in Nat /\ DOMAIN s = 1..Len(s) /\ s \in Seq(Nat)
  <2>1. Len(s) \in Nat /\ DOMAIN s = 1..Len(s) /\ \A j \in 1..Len(s) : s[j] \in Keys
    OBVIOUS
  <2>2. Keys \subseteq Nat
    BY KeysAssumption
  <2>3. \A j \in 1..Len(s) : s[j] \in Nat
    BY <2>1, <2>2
  <2>4. s = [j \in 1..Len(s) |-> s[j]]
    OBVIOUS
  <2> QED BY <2>1, <2>3, <2>4
<1>2. \A j \in 1..Len(s) : [m \in DOMAIN s |-> m - 1][j] = j - 1 /\ j - 1 \in Nat
  BY <1>1
<1> HIDE DEF Points
<1>3. Points(s, [m \in DOMAIN s |-> m - 1])
  BY <1>1, <1>2 DEF Points
<1> QED BY <1>1, <1>2, <1>3

\* The search for a key of an ascending key array ends at the key's position:
\* PLRBuild's LookupLeadsToRecord, for the function BuildModel.
LEMMA SearchLeads ==
    ASSUME NEW s \in Seq(Keys), 2 <= Len(s), Len(s) <= Cap,
           \A j, m \in 1..Len(s) : j < m => s[j] < s[m],
           NEW j \in 1..Len(s), NEW pos,
           pos = QueryModel(BuildModel(s, [m \in DOMAIN s |-> m - 1]), s[j])
    PROVE  pos \in Nat /\ j - 1 \in Window(pos) \cup {pos + ErrBound}
<1> DEFINE ys == [m \in DOMAIN s |-> m - 1]
           S == BuildModel(s, ys)
<1>1. Len(s) \in Nat /\ Points(s, ys) /\ ys[j] = j - 1
  BY RecordNumbers
<1>2. Models(S, s, ys, 1..Len(s))
  BY <1>1, BuildModelModels
<1>3. s[j] \in Nat /\ S \in Seq(Segment)
  <2>1. s \in Seq(Nat)
    BY <1>1 DEF Points
  <2> QED BY <1>2, <2>1 DEF Models
<1>4. ys[j] + ErrBound <= MaxInt
  BY <1>1, MaxIntCovers, CapAssumption, ErrBoundAssumption, MaxIntAssumption
<1> HIDE DEF ys, S
<1>5. pos = QueryModel(S, s[j])
  BY DEF S, ys
<1>6. pos \in Nat
  BY <1>3, <1>5, PositionType
<1>7. ys[j] \in Window(pos) \cup {pos + ErrBound}
  BY <1>1, <1>2, <1>4, <1>5, LookupInModel
<1> QED BY <1>1, <1>6, <1>7

\* In an ascending key array the search cannot stop anywhere else: no earlier
\* entry equals the key, and a window that ends before the key holds no
\* uninitialised entry.
LEMMA SearchEndsAtKey ==
    ASSUME TypeOK, NEW k \in Keys, NEW j \in 1..Len(key_array_file),
           key_array_file[j] = k, model_file = key_array_file,
           Len(key_array_file) >= 2, Len(key_array_file) <= Cap,
           \A i, m \in 1..Len(key_array_file) : i < m => key_array_file[i] < key_array_file[m]
    PROVE  SearchEnds(k) = {j - 1}
<1> DEFINE ka == key_array_file
           pos == Predicted(k)
<1>1. /\ ka \in Seq(Keys) /\ Len(ka) \in Nat /\ DOMAIN ka = 1..Len(ka) /\ ka # NoFile
  BY DEF TypeOK, NoFile
<1>2. pos \in Nat /\ j - 1 \in Window(pos) \cup {pos + ErrBound}
  <2>1. pos = QueryModel(BuildModel(ka, [m \in DOMAIN ka |-> m - 1]), ka[j])
    BY <1>1 DEF Predicted
  <2> HIDE DEF pos
  <2> QED BY <1>1, <2>1, SearchLeads
<1>3. \A m \in 1..Len(ka) : ka[m] = k => m = j
  <2> TAKE m \in 1..Len(ka)
  <2> HIDE DEF ka
  <2>1. ka[m] \in Keys /\ k \in Keys
    BY <1>1
  <2>2. ka[m] \in Nat /\ k \in Nat
    BY <2>1, KeysAssumption
  <2>3. /\ m < j => ka[m] < ka[j]
        /\ j < m => ka[j] < ka[m]
        /\ ka[j] = k /\ j \in 1..Len(ka)
    BY DEF ka
  <2> QED BY <1>1, <2>2, <2>3
<1>4. Hits(k) = {p \in Window(pos) : p < Len(ka) /\ ka[p + 1] = k}
  BY DEF Hits
<1>5. SearchEnds(k) = IF Hits(k) # {} THEN Hits(k)
                      ELSE {p \in Window(pos) : p >= Len(ka)} \cup {pos + ErrBound}
  BY DEF SearchEnds
<1>6. \A p \in Window(pos) : p \in Nat /\ p < pos + ErrBound
  <2> HIDE DEF pos
  <2> QED BY <1>2, ErrBoundAssumption DEF Window, WindowStart
<1> HIDE DEF pos, ka
<1>7. \A p \in Hits(k) : p = j - 1
  <2> TAKE p \in Hits(k)
  <2>1. p \in Nat /\ p < Len(ka) /\ ka[p + 1] = k
    BY <1>4, <1>6
  <2>2. p + 1 \in 1..Len(ka)
    BY <1>1, <2>1
  <2>3. p + 1 = j
    BY <1>3, <2>1, <2>2
  <2> QED BY <2>1, <2>3
<1>8. j \in 1..Len(ka) /\ ka[j] = k
  BY DEF ka
<1>9. CASE j - 1 \in Window(pos)
  <2>1. j - 1 < Len(ka) /\ (j - 1) + 1 = j
    BY <1>1, <1>8
  <2>2. j - 1 \in Hits(k)
    BY <1>4, <1>8, <1>9, <2>1
  <2> QED BY <1>5, <1>7, <2>2
<1>10. CASE j - 1 \notin Window(pos)
  <2>1. j - 1 = pos + ErrBound
    BY <1>2, <1>10
  <2>2. Hits(k) = {}
    BY <1>4, <1>7, <1>10
  <2>3. {p \in Window(pos) : p >= Len(ka)} = {}
    BY <1>1, <1>2, <1>6, <1>8, <2>1, ErrBoundAssumption
  <2> QED BY <1>5, <2>1, <2>2, <2>3
<1> QED BY <1>9, <1>10

\* With and without the learned index get returns the last record of every key
\* found in the index or covered by a learned index, which by NoOldValueReturns is
\* the value last put for every key that is not stale.
THEOREM ReadsCorrect == Spec => []ReadsReturnLatest
<1>1. ASSUME Inv, LearnedIndexUsed PROVE ReadsReturnLatest
  <2> SUFFICES ASSUME Healthy, NEW k \in LogKeys(vlog), InIndex(k) \/ gc_len >= 2
               PROVE  /\ GetOutcomes(k) = {ValidValue(vlog, k)}
                      /\ k \notin stale => ValidValue(vlog, k) = latest[k]
    BY <1>1 DEF ReadsReturnLatest
  <2> DEFINE last == LastIndex(vlog, k)
  <2>1. vlog \in Seq(Record) /\ Len(vlog) \in Nat /\ gc_len \in Nat /\ gc_len <= Len(vlog)
    BY <1>1 DEF Inv, TypeOK, Record, CounterMatchesLog
  <2>2. k \in Keys /\ last \in 1..Len(vlog) /\ vlog[last].key = k
    BY <2>1, LogKeysType, LastIndexIs
  <2>3. /\ ReadAt(last - 1) = ValidValue(vlog, k)
        /\ k \notin stale => ValidValue(vlog, k) = latest[k]
    <3>1. last - 1 \in 0..(Len(vlog) - 1) /\ (last - 1) + 1 = last
      BY <2>1, <2>2
    <3>2. ReadAt(last - 1) = vlog[last].val
      BY <3>1 DEF ReadAt
    <3>3. k \notin stale => ValidValue(vlog, k) = latest[k]
      BY <1>1 DEF Inv, RecordsAreLatest
    <3> QED BY <3>2, <3>3 DEF ValidValue
  <2>4. CASE InIndex(k)
    <3>1. db[k] + 1 = last /\ db[k] \in Nat
      BY <1>1, <2>2, <2>4 DEF Inv, PointersCurrent, TypeOK, InIndex
    <3>2. db[k] = last - 1
      BY <2>2, <3>1
    <3> QED BY <2>3, <2>4, <3>2 DEF GetOutcomes
  <2>5. CASE ~InIndex(k)
    <3>1. gc_len >= 2 /\ db[k] = NoPtr
      BY <1>1, <2>2, <2>5 DEF Inv, FilterCoversIndex, InIndex
    <3>2. last \in 1..gc_len
      BY <1>1, <2>1, <2>2, <3>1 DEF Inv, PointersCurrent
    <3>3. /\ Len(key_array_file) = gc_len /\ model_file = key_array_file
          /\ key_array_file[last] = k
          /\ \A i, m \in 1..gc_len : i < m => key_array_file[i] < key_array_file[m]
      BY <1>1, <2>2, <3>1, <3>2 DEF Inv, KeyArrayMatchesLog
    <3>4. SearchEnds(k) = {last - 1}
      <4>1. gc_len <= Cap
        BY <1>1, <2>1, CapAssumption DEF Inv, CounterMatchesLog, TypeOK
      <4> HIDE DEF last
      <4> QED BY <1>1, <2>2, <3>1, <3>2, <3>3, <4>1, SearchEndsAtKey DEF Inv
    <3> QED BY <1>1, <2>3, <2>5, <3>4 DEF GetOutcomes
  <2> QED BY <2>4, <2>5
<1>2. Inv => ReadsReturnLatest
  BY <1>1, ReadsInv
<1> QED BY <1>2, Invariance, PTL
=============================================================================
