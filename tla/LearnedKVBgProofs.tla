-------------------------- MODULE LearnedKVBgProofs --------------------------
(***************************************************************************)
(* Proofs about the variant with a collector thread, for all keys, values  *)
(* and capacities, and any number of puts during a collection.             *)
(***************************************************************************)
EXTENDS LearnedKVBg, ValueLogProofs, TLAPS

Ptrs == [Keys -> Nat \cup {NoPtr}]

\* What a call hands from one of its parts to the next
State ==
    [vlog : Records, li_vlog : Records, new_vlog : Records, new_li_vlog : Records,
     db : Ptrs, new_db : Ptrs, key_array_file : Seq(Keys),
     new_key_array_file : Seq(Keys), total_num : Int, gc_in_progress : BOOLEAN]

\* The records that taking over subtracts from total_num
Base == Len(vlog) + Len(li_vlog)

\* Before the first collection nobody else counts: total_num is exact, up to
\* the increment that a put is about to make.
CountExact ==
    ~started /\ status = "running" /\ ~faulty =>
        /\ pc = "idle" => total_num = Len(vlog)
        /\ pc = "count" => total_num + 1 = Len(vlog)
        /\ pc = "store" => reg = total_num /\ total_num + 1 = Len(vlog)

\* During a collection every copy of the counter, in memory or in the hands of
\* a thread, is at least the number of records collected.
CountSafe ==
    gc_in_progress /\ status = "running" /\ ~faulty =>
        /\ total_num >= Base
        /\ pc = "store" => reg >= Base
        /\ gc_pc = "store" => gc_reg >= Base

\* The life of the collector
Phases ==
    /\ gc_done => gc_in_progress /\ gc_pc = "none"
    /\ gc_in_progress => started
    /\ ~gc_in_progress => gc_pc = "none"

\* Nothing collected is in place before the first collection is taken over.
NoIndexYet == ~started => key_array_file = NoFile /\ li_vlog = NoFile

\* Nobody holds a wrapped copy of the counter, unless a put failed.
CopiesNatural == ~faulty => reg >= 0 /\ gc_reg >= 0

\* Every pointer names a record with the last value put for its key.
PointToLast(ptr, log, last) ==
    \A k \in Keys : ptr[k] # NoPtr => ptr[k] < Len(log) /\ log[ptr[k] + 1].val = last[k]

\* The second database points to the last records of the second log.
NewPointers ==
    /\ ~gc_in_progress => new_db = EmptyDb /\ new_vlog = NoFile
    /\ ~faulty => PointToLast(new_db, new_vlog, latest)

\* The inductive invariant
Inv ==
    /\ TypeOK /\ CountExact /\ CountSafe /\ CopiesNatural /\ Phases
    /\ NoIndexYet /\ IndexNeverRead /\ NewPointers
-----------------------------------------------------------------------------
(***************************************************************************)
(* The parts of a call.                                                    *)
(***************************************************************************)
\* What a call may rely on once it has taken over
Good(st) ==
    /\ ~started =>
            /\ ~st.gc_in_progress /\ st.li_vlog = NoFile /\ st.key_array_file = NoFile
            /\ ~faulty => st.total_num = Len(st.vlog)
    /\ ~faulty => st.total_num >= 0 /\ PointToLast(st.new_db, st.new_vlog, latest)
    /\ st.gc_in_progress =>
            /\ ~gc_done /\ st.key_array_file = NoFile
            /\ ~faulty => st.total_num >= Len(st.vlog) + Len(st.li_vlog)
            /\ ~faulty /\ gc_pc = "store" => gc_reg >= Len(st.vlog) + Len(st.li_vlog)
    /\ ~st.gc_in_progress =>
            gc_pc = "none" /\ st.new_db = EmptyDb /\ st.new_vlog = NoFile

\* Taking over never wraps the unsigned counter, and leaves a call a state it
\* may rely on.
LEMMA EnteredGood ==
    ASSUME Inv, status = "running", pc = "idle"
    PROVE  Entered \in State /\ Good(Entered)
<1> USE DEF Inv, TypeOK
<1>1. EmptyDb \in Ptrs /\ NoFile \in Records /\ NoFile \in Seq(Keys) /\ Len(NoFile) = 0
  BY DEF EmptyDb, Ptrs, NoFile, Records, NoPtr
<1>2. Len(vlog) \in Nat /\ Len(li_vlog) \in Nat
  BY DEF Records
<1>3. CASE ~gc_done
  <2>1. Entered = Untouched
    BY <1>3 DEF Entered
  <2>2. Untouched \in State
    BY DEF Untouched, State, Ptrs
  <2>3. Good(Untouched)
    BY <1>3, <1>2 DEF Good, Untouched, CountExact, CountSafe, Base, Phases, NoIndexYet,
                      IndexNeverRead, NewPointers
  <2> QED BY <2>1, <2>2, <2>3
<1>4. CASE gc_done
  <2>1. Entered = TakenOver
    BY <1>4 DEF Entered
  <2>2. gc_in_progress /\ started /\ gc_pc = "none"
    BY <1>4 DEF Phases
  <2>3. ~faulty => total_num >= Len(vlog) + Len(li_vlog)
    BY <2>2 DEF CountSafe, Base
  <2>4. /\ total_num - Len(vlog) - Len(li_vlog) \in Int
        /\ ~faulty => total_num - Len(vlog) - Len(li_vlog) >= 0
    BY <2>3, <1>2
  <2>5. TakenOver \in State
    BY <1>1, <2>4 DEF TakenOver, State, Ptrs
  <2>6. Good(TakenOver)
    BY <1>1, <2>2, <2>4 DEF Good, TakenOver, EmptyDb, PointToLast
  <2> QED BY <2>1, <2>5, <2>6
<1> QED BY <1>3, <1>4

\* The record goes to the log in use; nothing else is disturbed.
LEMMA AppendedIs ==
    ASSUME NEW st \in State, NEW k \in Keys, NEW v \in Values
    PROVE  /\ Appended(st, k, v) \in State
           /\ Appended(st, k, v).li_vlog = st.li_vlog
           /\ Appended(st, k, v).new_li_vlog = st.new_li_vlog
           /\ Appended(st, k, v).key_array_file = st.key_array_file
           /\ Appended(st, k, v).total_num = st.total_num
           /\ Appended(st, k, v).gc_in_progress = st.gc_in_progress
           /\ Appended(st, k, v).db = st.db
           /\ Appended(st, k, v).new_db = st.new_db
           /\ st.gc_in_progress =>
                /\ Appended(st, k, v).vlog = st.vlog
                /\ Appended(st, k, v).new_vlog = Append(st.new_vlog, Record(k, v))
           /\ ~st.gc_in_progress =>
                /\ Appended(st, k, v).vlog = Append(st.vlog, Record(k, v))
                /\ Len(Appended(st, k, v).vlog) = Len(st.vlog) + 1
                /\ Appended(st, k, v).new_vlog = st.new_vlog
<1>1. Record(k, v) \in [key : Keys, val : Values]
  BY DEF Record
<1>2. st.vlog \in Records /\ st.new_vlog \in Records
  BY DEF State
<1>3. /\ Append(st.vlog, Record(k, v)) \in Records
      /\ Len(Append(st.vlog, Record(k, v))) = Len(st.vlog) + 1
      /\ Append(st.new_vlog, Record(k, v)) \in Records
  BY <1>1, <1>2 DEF Records
<1>4. CASE st.gc_in_progress
  <2>1. Appended(st, k, v) = [st EXCEPT !.new_vlog = Append(st.new_vlog, Record(k, v))]
    BY <1>4 DEF Appended, State
  <2> QED BY <1>3, <1>4, <2>1 DEF State
<1>5. CASE ~st.gc_in_progress
  <2>1. Appended(st, k, v) = [st EXCEPT !.vlog = Append(st.vlog, Record(k, v))]
    BY <1>5 DEF Appended, State
  <2> QED BY <1>3, <1>5, <2>1 DEF State
<1> QED BY <1>4, <1>5

\* Its position goes to the database in use.
LEMMA StoredIs ==
    ASSUME NEW st \in State, NEW k \in Keys, NEW v \in Values
    PROVE  /\ Stored(st, k, v) \in State
           /\ Stored(st, k, v).vlog = Appended(st, k, v).vlog
           /\ Stored(st, k, v).new_vlog = Appended(st, k, v).new_vlog
           /\ Stored(st, k, v).li_vlog = Appended(st, k, v).li_vlog
           /\ Stored(st, k, v).new_li_vlog = Appended(st, k, v).new_li_vlog
           /\ Stored(st, k, v).key_array_file = Appended(st, k, v).key_array_file
           /\ Stored(st, k, v).total_num = Appended(st, k, v).total_num
           /\ Stored(st, k, v).gc_in_progress = Appended(st, k, v).gc_in_progress
           /\ st.gc_in_progress =>
                Stored(st, k, v).new_db = [st.new_db EXCEPT ![k] = Len(st.new_vlog)]
           /\ ~st.gc_in_progress => Stored(st, k, v).new_db = st.new_db
<1> DEFINE app == Appended(st, k, v)
<1>1. app \in State /\ app.db = st.db /\ app.new_db = st.new_db
  BY AppendedIs
<1>2. Len(st.vlog) \in Nat /\ Len(st.new_vlog) \in Nat
  BY DEF State, Records
<1> HIDE DEF app
<1>3. /\ [app.db EXCEPT ![k] = Len(st.vlog)] \in Ptrs
      /\ [app.new_db EXCEPT ![k] = Len(st.new_vlog)] \in Ptrs
  BY <1>1, <1>2 DEF State, Ptrs
<1>4. CASE st.gc_in_progress
  <2>1. Stored(st, k, v) =
            [app EXCEPT !.new_db = [app.new_db EXCEPT ![k] = Len(st.new_vlog)]]
    BY <1>1, <1>4 DEF Stored, State, app
  <2> QED BY <1>1, <1>3, <1>4, <2>1 DEF State, app
<1>5. CASE ~st.gc_in_progress
  <2>1. Stored(st, k, v) = [app EXCEPT !.db = [app.db EXCEPT ![k] = Len(st.vlog)]]
    BY <1>1, <1>5 DEF Stored, State, app
  <2> QED BY <1>1, <1>3, <1>5, <2>1 DEF State, app
<1> QED BY <1>4, <1>5

\* A put that appends a key's record keeps every pointer of the second database
\* at the last record of its key.
LEMMA NewPointersKept ==
    ASSUME NEW log \in Records, NEW ptr \in Ptrs, NEW k \in Keys, NEW v \in Values,
           NEW last \in [Keys -> Values \cup {NotFound}],
           PointToLast(ptr, log, last)
    PROVE  PointToLast([ptr EXCEPT ![k] = Len(log)], Append(log, Record(k, v)),
                       [last EXCEPT ![k] = v])
<1> DEFINE log2 == Append(log, Record(k, v))
           ptr2 == [ptr EXCEPT ![k] = Len(log)]
           last2 == [last EXCEPT ![k] = v]
<1>1. Record(k, v) \in [key : Keys, val : Values] /\ Record(k, v).val = v
  BY DEF Record
<1>2. /\ Len(log) \in Nat /\ Len(log2) = Len(log) + 1
      /\ log2[Len(log) + 1] = Record(k, v)
      /\ \A j \in 1..Len(log) : log2[j] = log[j]
  BY <1>1 DEF Records
<1> HIDE DEF log2
<1>3. SUFFICES ASSUME NEW l \in Keys, ptr2[l] # NoPtr
               PROVE  ptr2[l] < Len(log2) /\ log2[ptr2[l] + 1].val = last2[l]
  BY DEF PointToLast, log2
<1>4. CASE l = k
  BY <1>1, <1>2, <1>4 DEF Ptrs
<1>5. CASE l # k
  <2>1. ptr2[l] = ptr[l] /\ last2[l] = last[l] /\ ptr[l] # NoPtr
    BY <1>3, <1>5 DEF Ptrs
  <2>2. ptr[l] \in Nat /\ ptr[l] < Len(log) /\ log[ptr[l] + 1].val = last[l]
    BY <2>1 DEF Ptrs, PointToLast
  <2>3. ptr[l] + 1 \in 1..Len(log)
    BY <2>2, <1>2
  <2> QED BY <1>2, <2>1, <2>2, <2>3
<1> QED BY <1>4, <1>5
-----------------------------------------------------------------------------
(***************************************************************************)
(* Every step keeps the invariant.                                         *)
(***************************************************************************)
\* The types of what a call leaves
LEMMA LeavesTypes ==
    ASSUME NEW st \in State, Leaves(st)
    PROVE  /\ vlog' \in Records /\ li_vlog' \in Records /\ new_vlog' \in Records
           /\ new_li_vlog' \in Records
           /\ key_array_file' \in Seq(Keys) /\ new_key_array_file' \in Seq(Keys)
           /\ db' \in [Keys -> Nat \cup {NoPtr}] /\ new_db' \in [Keys -> Nat \cup {NoPtr}]
           /\ total_num' \in Int /\ gc_in_progress' \in BOOLEAN /\ gc_done' \in BOOLEAN
           /\ Len(vlog') \in Nat /\ Len(li_vlog') \in Nat
<1>1. /\ st.vlog \in Records /\ st.li_vlog \in Records /\ st.new_vlog \in Records
      /\ st.new_li_vlog \in Records
      /\ st.key_array_file \in Seq(Keys) /\ st.new_key_array_file \in Seq(Keys)
      /\ st.db \in Ptrs /\ st.new_db \in Ptrs
      /\ st.total_num \in Int /\ st.gc_in_progress \in BOOLEAN
  BY DEF State
<1>2. Len(st.vlog) \in Nat /\ Len(st.li_vlog) \in Nat
  BY <1>1 DEF Records
<1> QED BY <1>1, <1>2, Zenon DEF Leaves, Ptrs

\* The parts of put up to the append: what is left for the counter, the phases
\* and the files, however the put ends.
LEMMA AppendStep ==
    ASSUME Inv, status = "running", pc = "idle", StartsCollector,
           NEW k \in Keys, NEW v \in Values, NEW new \in State, Leaves(new),
           new.vlog = Appended(Prepared, k, v).vlog,
           new.li_vlog = Appended(Prepared, k, v).li_vlog,
           new.key_array_file = Appended(Prepared, k, v).key_array_file,
           new.total_num = Appended(Prepared, k, v).total_num,
           new.gc_in_progress = Appended(Prepared, k, v).gc_in_progress,
           gc_reg' = gc_reg, gc_left' = gc_left
    PROVE  /\ Phases' /\ NoIndexYet' /\ IndexNeverRead'
           /\ started' \in BOOLEAN /\ gc_pc' \in {"none", "read", "write", "store"}
           /\ ~faulty => /\ total_num' >= 0
                         /\ ~started' => total_num' + 1 = Len(vlog')
                         /\ gc_in_progress' =>
                                /\ total_num' >= Base'
                                /\ gc_pc' = "store" => gc_reg' >= Base'
<1> DEFINE starts == MustCollect(Entered)
<1>1. Entered \in State /\ Good(Entered)
  BY EnteredGood
<1>2. /\ Prepared \in State
      /\ Prepared.vlog = Entered.vlog /\ Prepared.li_vlog = Entered.li_vlog
      /\ Prepared.key_array_file = Entered.key_array_file
      /\ Prepared.total_num = Entered.total_num
      /\ Prepared.gc_in_progress = (starts \/ Entered.gc_in_progress)
  BY <1>1 DEF State, Prepared
<1>3. IF starts THEN ~started /\ started' = TRUE /\ gc_pc' = "read"
                ELSE UNCHANGED << started, gc_pc >>
  BY DEF StartsCollector
<1> HIDE DEF starts
<1>4. /\ li_vlog' = Entered.li_vlog /\ key_array_file' = Entered.key_array_file
      /\ total_num' = Entered.total_num
      /\ gc_in_progress' = Prepared.gc_in_progress /\ gc_done' = FALSE
      /\ Prepared.gc_in_progress => vlog' = Entered.vlog
      /\ ~Prepared.gc_in_progress => Len(vlog') = Len(Entered.vlog) + 1
  <2> DEFINE app == Appended(Prepared, k, v)
  <2>1. /\ app.li_vlog = Prepared.li_vlog /\ app.key_array_file = Prepared.key_array_file
        /\ app.total_num = Prepared.total_num
        /\ app.gc_in_progress = Prepared.gc_in_progress
        /\ Prepared.gc_in_progress => app.vlog = Prepared.vlog
        /\ ~Prepared.gc_in_progress => Len(app.vlog) = Len(Prepared.vlog) + 1
    BY <1>2, AppendedIs, Zenon
  <2> HIDE DEF app
  <2> QED BY <1>2, <2>1 DEF Leaves, app
<1>5. /\ Entered.gc_in_progress \in BOOLEAN /\ Len(Entered.vlog) \in Nat
      /\ Len(Entered.li_vlog) \in Nat /\ Entered.total_num \in Int
  BY <1>1 DEF State, Records
<1>6. starts => ~Entered.gc_in_progress
  BY DEF starts, MustCollect
<1>7. Phases'
  <2>1. CASE starts
    BY <2>1, <1>2, <1>3, <1>4 DEF Phases
  <2>2. CASE ~starts
    <3>1. gc_in_progress' = Entered.gc_in_progress /\ gc_pc' = gc_pc /\ started' = started
      BY <2>2, <1>2, <1>3, <1>4, <1>5
    <3>2. Entered.gc_in_progress => started
      BY <1>1 DEF Good
    <3>3. ~Entered.gc_in_progress => gc_pc = "none"
      BY <1>1 DEF Good
    <3> QED BY <1>4, <3>1, <3>2, <3>3 DEF Phases
  <2> QED BY <2>1, <2>2
<1>8. NoIndexYet' /\ IndexNeverRead'
  <2>1. ~started => Entered.key_array_file = NoFile /\ Entered.li_vlog = NoFile
    BY <1>1 DEF Good
  <2>2. Entered.gc_in_progress => Entered.key_array_file = NoFile
    BY <1>1 DEF Good
  <2>3. gc_in_progress' => ~started \/ Entered.gc_in_progress
    BY <1>2, <1>3, <1>4
  <2>4. ~started' => ~started
    BY <1>3
  <2> QED BY <1>4, <2>1, <2>2, <2>3, <2>4 DEF NoIndexYet, IndexNeverRead
<1>9. started' \in BOOLEAN /\ gc_pc' \in {"none", "read", "write", "store"}
  BY <1>3 DEF Inv, TypeOK
<1>10. ASSUME ~faulty PROVE total_num' >= 0
  BY <1>1, <1>4, <1>10 DEF Good
<1>11. ASSUME ~faulty, ~started' PROVE total_num' + 1 = Len(vlog')
  <2>1. ~starts /\ ~started
    BY <1>3, <1>11
  <2>2. ~Entered.gc_in_progress /\ Entered.total_num = Len(Entered.vlog)
    BY <1>1, <1>11, <2>1 DEF Good
  <2> QED BY <1>2, <1>4, <1>5, <2>1, <2>2
<1>12. ASSUME ~faulty, gc_in_progress'
       PROVE  total_num' >= Base' /\ (gc_pc' = "store" => gc_reg' >= Base')
  <2>1. vlog' = Entered.vlog /\ li_vlog' = Entered.li_vlog /\ total_num' = Entered.total_num
    BY <1>4, <1>12
  <2>2. CASE starts
    <3>1. ~started /\ gc_pc' = "read"
      BY <1>3, <2>2
    <3>2. Entered.li_vlog = NoFile /\ Entered.total_num = Len(Entered.vlog)
      BY <1>1, <1>12, <3>1 DEF Good
    <3>3. Len(Entered.li_vlog) = 0
      BY <3>2 DEF NoFile
    <3> QED BY <2>1, <3>1, <3>2, <3>3, <1>5 DEF Base
  <2>3. CASE ~starts
    <3>1. Entered.gc_in_progress /\ gc_pc' = gc_pc /\ gc_reg' = gc_reg
      BY <1>2, <1>3, <1>4, <1>12, <2>3
    <3> QED BY <1>1, <1>12, <2>1, <3>1 DEF Good, Base
  <2> QED BY <2>2, <2>3
<1> QED BY <1>7, <1>8, <1>9, <1>10, <1>11, <1>12

\* put, with or without starting the collector
LEMMA PutStep ==
    ASSUME Inv, NEW k \in Keys, NEW v \in Values, Put(k, v)
    PROVE  Inv'
<1> DEFINE new == Stored(Prepared, k, v)
           app == Appended(Prepared, k, v)
<1>1. status = "running" /\ pc = "idle" /\ Entered \in State /\ Good(Entered)
  BY EnteredGood DEF Put
<1>2. /\ Prepared \in State
      /\ Prepared.new_vlog = Entered.new_vlog /\ Prepared.new_db = Entered.new_db
  BY <1>1 DEF State, Prepared
<1>3. /\ Leaves(new) /\ StartsCollector
      /\ pc' = "count" /\ latest' = [latest EXCEPT ![k] = v]
      /\ UNCHANGED << status, reg, gc_reg, gc_left, reply, faulty >>
  BY DEF Put
<1>4. /\ new \in State
      /\ new.vlog = app.vlog /\ new.li_vlog = app.li_vlog
      /\ new.key_array_file = app.key_array_file /\ new.total_num = app.total_num
      /\ new.gc_in_progress = app.gc_in_progress /\ new.new_vlog = app.new_vlog
      /\ app.gc_in_progress = Prepared.gc_in_progress
      /\ Prepared.gc_in_progress =>
            /\ app.new_vlog = Append(Prepared.new_vlog, Record(k, v))
            /\ new.new_db = [Prepared.new_db EXCEPT ![k] = Len(Prepared.new_vlog)]
      /\ ~Prepared.gc_in_progress =>
            app.new_vlog = Prepared.new_vlog /\ new.new_db = Prepared.new_db
  <2>1. /\ new \in State
        /\ new.vlog = app.vlog /\ new.li_vlog = app.li_vlog
        /\ new.key_array_file = app.key_array_file /\ new.total_num = app.total_num
        /\ new.gc_in_progress = app.gc_in_progress /\ new.new_vlog = app.new_vlog
        /\ Prepared.gc_in_progress =>
                new.new_db = [Prepared.new_db EXCEPT ![k] = Len(Prepared.new_vlog)]
        /\ ~Prepared.gc_in_progress => new.new_db = Prepared.new_db
    BY <1>2, StoredIs, Zenon
  <2>2. /\ app.gc_in_progress = Prepared.gc_in_progress
        /\ Prepared.gc_in_progress => app.new_vlog = Append(Prepared.new_vlog, Record(k, v))
        /\ ~Prepared.gc_in_progress => app.new_vlog = Prepared.new_vlog
    BY <1>2, AppendedIs, Zenon
  <2> HIDE DEF new, app
  <2> QED BY <2>1, <2>2
<1> HIDE DEF new, app
<1>5. /\ Phases' /\ NoIndexYet' /\ IndexNeverRead'
      /\ started' \in BOOLEAN /\ gc_pc' \in {"none", "read", "write", "store"}
      /\ ~faulty => /\ total_num' >= 0
                    /\ ~started' => total_num' + 1 = Len(vlog')
                    /\ gc_in_progress' =>
                            /\ total_num' >= Base'
                            /\ gc_pc' = "store" => gc_reg' >= Base'
  BY <1>1, <1>3, <1>4, AppendStep DEF app
<1>6. TypeOK'
  <2>1. latest' \in [Keys -> Values \cup {NotFound}]
    BY <1>3 DEF Inv, TypeOK
  <2> QED BY <1>3, <1>4, <1>5, <2>1, LeavesTypes DEF Inv, TypeOK
<1>7. CountExact' /\ CountSafe' /\ CopiesNatural'
  BY <1>3, <1>5 DEF Inv, CountExact, CountSafe, CopiesNatural
<1>8. NewPointers'
  <2>1. /\ new_vlog' = app.new_vlog /\ new_db' = new.new_db
        /\ gc_in_progress' = Prepared.gc_in_progress
    BY <1>3, <1>4 DEF Leaves
  <2>2. CASE Prepared.gc_in_progress
    <3>1. /\ new_vlog' = Append(Entered.new_vlog, Record(k, v))
          /\ new_db' = [Entered.new_db EXCEPT ![k] = Len(Entered.new_vlog)]
          /\ gc_in_progress'
      BY <1>2, <1>4, <2>1, <2>2
    <3>2. ASSUME ~faulty PROVE PointToLast(new_db', new_vlog', latest')
      <4>1. latest \in [Keys -> Values \cup {NotFound}]
        BY DEF Inv, TypeOK
      <4>2. Entered.new_vlog \in Records /\ Entered.new_db \in Ptrs
        BY <1>1 DEF State
      <4>3. PointToLast(Entered.new_db, Entered.new_vlog, latest)
        BY <1>1, <3>2 DEF Good
      <4>4. PointToLast([Entered.new_db EXCEPT ![k] = Len(Entered.new_vlog)],
                        Append(Entered.new_vlog, Record(k, v)), [latest EXCEPT ![k] = v])
        BY <4>1, <4>2, <4>3, NewPointersKept
      <4> QED BY <1>3, <3>1, <4>4
    <3> QED BY <1>3, <3>1, <3>2 DEF NewPointers
  <2>3. CASE ~Prepared.gc_in_progress
    <3>1. ~Entered.gc_in_progress
      BY <1>1, <2>3 DEF Prepared, State
    <3>2. new_db' = EmptyDb /\ new_vlog' = NoFile
      BY <1>1, <1>2, <1>4, <2>1, <2>3, <3>1 DEF Good
    <3> QED BY <3>2 DEF NewPointers, EmptyDb, PointToLast
  <2> QED BY <2>2, <2>3
<1> QED BY <1>5, <1>6, <1>7, <1>8 DEF Inv

\* put whose write to the database fails, or crashes
LEMMA FailedPutStep ==
    ASSUME Inv, NEW k \in Keys, NEW v \in Values, PutFails(k, v) \/ PutCrashes(k, v)
    PROVE  Inv'
<1> DEFINE new == Appended(Prepared, k, v)
<1>1. status = "running" /\ pc = "idle" /\ Entered \in State /\ Good(Entered)
  BY EnteredGood DEF PutFails, PutCrashes
<1>2. /\ Prepared \in State
      /\ Prepared.new_vlog = Entered.new_vlog /\ Prepared.new_db = Entered.new_db
  BY <1>1 DEF State, Prepared
<1>3. /\ Leaves(new) /\ StartsCollector
      /\ latest' = [latest EXCEPT ![k] = v]
      /\ UNCHANGED << pc, reg, gc_reg, gc_left >>
      /\ \/ status' = status /\ reply' = Failed /\ faulty' = TRUE
         \/ /\ status' = "crashed" /\ reply' = reply /\ faulty' = faulty
            /\ MustCollect(Entered)
  BY DEF PutFails, PutCrashes
<1>4. /\ new \in State /\ new.new_db = Prepared.new_db
      /\ new.gc_in_progress = Prepared.gc_in_progress
      /\ ~Prepared.gc_in_progress => new.new_vlog = Prepared.new_vlog
  BY <1>2, AppendedIs, Zenon
<1>5. /\ Phases' /\ NoIndexYet' /\ IndexNeverRead'
      /\ started' \in BOOLEAN /\ gc_pc' \in {"none", "read", "write", "store"}
      /\ ~faulty => total_num' >= 0
  <2>1. gc_reg' = gc_reg /\ gc_left' = gc_left
    BY <1>3
  <2> QED BY <1>1, <1>3, <1>4, <2>1, AppendStep
<1> HIDE DEF new
<1>6. TypeOK'
  <2>1. latest' \in [Keys -> Values \cup {NotFound}]
    BY <1>3 DEF Inv, TypeOK
  <2>2. /\ faulty' \in BOOLEAN /\ (~faulty' => total_num' >= 0)
        /\ reply' \in Values \cup {Ok, Failed, NotFound, Blank, Mangled}
        /\ status' \in {"running", "terminated", "crashed"}
    BY <1>1, <1>3, <1>5 DEF Inv, TypeOK
  <2> QED BY <1>3, <1>4, <1>5, <2>1, <2>2, LeavesTypes DEF Inv, TypeOK
<1>7. CountExact' /\ CountSafe' /\ CopiesNatural'
  BY <1>3 DEF Inv, CountExact, CountSafe, CopiesNatural
<1>8. NewPointers'
  <2>1. /\ new_vlog' = new.new_vlog /\ new_db' = Entered.new_db
        /\ gc_in_progress' = Prepared.gc_in_progress
    BY <1>2, <1>3, <1>4 DEF Leaves
  <2>2. ASSUME ~gc_in_progress' PROVE new_db' = EmptyDb /\ new_vlog' = NoFile
    <3>1. ~Entered.gc_in_progress
      BY <1>1, <2>1, <2>2 DEF Prepared, State
    <3> QED BY <1>1, <1>2, <1>4, <2>1, <2>2, <3>1 DEF Good
  <2>3. ASSUME ~faulty' PROVE PointToLast(new_db', new_vlog', latest')
    <3>1. ~Entered.gc_in_progress
      BY <1>3, <2>3 DEF MustCollect
    <3>2. new_db' = EmptyDb
      BY <1>1, <2>1, <3>1 DEF Good
    <3> QED BY <3>2 DEF PointToLast, EmptyDb
  <2> QED BY <2>2, <2>3 DEF NewPointers
<1> QED BY <1>5, <1>6, <1>7, <1>8 DEF Inv

\* What a call without a put, or one that ends the program, leaves
LEMMA LeaveStep ==
    ASSUME Inv, status = "running", pc = "idle",
           UNCHANGED << pc, reg, latest, faulty, started, collector >>,
           status' \in {"running", "terminated", "crashed"},
           reply' \in Values \cup {Ok, Failed, NotFound, Blank, Mangled},
           \/ Leaves(Entered)
           \/ Leaves(Prepared) /\ MustCollect(Entered) /\ started /\ status' = "terminated"
    PROVE  Inv'
<1>1. Entered \in State /\ Good(Entered)
  BY EnteredGood
<1>2. pc' = pc /\ reg' = reg /\ latest' = latest /\ started' = started
      /\ faulty' = faulty /\ gc_pc' = gc_pc /\ gc_reg' = gc_reg /\ gc_left' = gc_left
  BY DEF collector
<1>3. PICK st \in State :
        /\ Leaves(st)
        /\ st.vlog = Entered.vlog /\ st.li_vlog = Entered.li_vlog
        /\ st.new_vlog = Entered.new_vlog /\ st.new_db = Entered.new_db
        /\ st.key_array_file = Entered.key_array_file
        /\ st.total_num = Entered.total_num
        /\ \/ st.gc_in_progress = Entered.gc_in_progress
           \/ st.gc_in_progress = TRUE /\ started /\ status' # "running"
  <2>1. CASE Leaves(Entered)
    BY <1>1, <2>1
  <2>2. CASE Leaves(Prepared) /\ MustCollect(Entered) /\ started /\ status' = "terminated"
    <3> DEFINE st == [Entered EXCEPT !.gc_in_progress = TRUE]
    <3>1. /\ st \in State
          /\ st.vlog = Entered.vlog /\ st.li_vlog = Entered.li_vlog
          /\ st.new_vlog = Entered.new_vlog /\ st.new_db = Entered.new_db
          /\ st.key_array_file = Entered.key_array_file
          /\ st.total_num = Entered.total_num /\ st.gc_in_progress = TRUE
      BY <1>1 DEF State
    <3> HIDE DEF st
    <3>2. Leaves(st)
      BY <2>2 DEF st, Prepared
    <3> QED BY <2>2, <3>1, <3>2
  <2> QED BY <2>1, <2>2
<1>4. /\ vlog' = Entered.vlog /\ li_vlog' = Entered.li_vlog
      /\ new_vlog' = Entered.new_vlog /\ new_db' = Entered.new_db
      /\ key_array_file' = Entered.key_array_file
      /\ total_num' = Entered.total_num /\ gc_done' = FALSE
      /\ gc_in_progress' = st.gc_in_progress
  BY <1>3 DEF Leaves
<1>5. /\ Entered.gc_in_progress \in BOOLEAN /\ Len(Entered.vlog) \in Nat
      /\ Len(Entered.li_vlog) \in Nat /\ Entered.total_num \in Int
  BY <1>1 DEF State, Records
<1>6. TypeOK'
  <2>1. ~faulty' => total_num' >= 0
    BY <1>1, <1>2, <1>4 DEF Good
  <2> QED BY <1>2, <1>3, <2>1, LeavesTypes DEF Inv, TypeOK
<1>7. CountExact' /\ CopiesNatural'
  BY <1>1, <1>2, <1>4 DEF Inv, CountExact, CopiesNatural, Good
<1>8. CountSafe'
  <2> SUFFICES ASSUME gc_in_progress', status' = "running", ~faulty'
               PROVE  total_num' >= Base' /\ (gc_pc' = "store" => gc_reg' >= Base')
    BY <1>2 DEF CountSafe
  <2>1. Entered.gc_in_progress
    BY <1>3, <1>4
  <2>2. ~faulty
    BY <1>2 DEF Inv, TypeOK
  <2>3. /\ Entered.total_num >= Len(Entered.vlog) + Len(Entered.li_vlog)
        /\ gc_pc = "store" => gc_reg >= Len(Entered.vlog) + Len(Entered.li_vlog)
    BY <1>1, <2>1, <2>2 DEF Good
  <2> QED BY <1>2, <1>4, <2>3 DEF Base
<1>9. Phases'
  <2>1. gc_in_progress' => started
    <3>1. Entered.gc_in_progress => started
      BY <1>1 DEF Good
    <3> QED BY <1>3, <1>4, <3>1
  <2>2. ~gc_in_progress' => gc_pc = "none"
    <3>1. ~Entered.gc_in_progress => gc_pc = "none"
      BY <1>1 DEF Good
    <3> QED BY <1>3, <1>4, <3>1
  <2> QED BY <1>2, <1>4, <2>1, <2>2 DEF Phases
<1>10. NoIndexYet' /\ IndexNeverRead'
  <2>1. ~started => Entered.key_array_file = NoFile /\ Entered.li_vlog = NoFile
    BY <1>1 DEF Good
  <2>2. Entered.gc_in_progress => Entered.key_array_file = NoFile
    BY <1>1 DEF Good
  <2>3. gc_in_progress' /\ status' = "running" => Entered.gc_in_progress
    BY <1>3, <1>4
  <2> QED BY <1>2, <1>4, <2>1, <2>2, <2>3 DEF NoIndexYet, IndexNeverRead
<1>11. NewPointers'
  <2>1. ~Entered.gc_in_progress => Entered.new_db = EmptyDb /\ Entered.new_vlog = NoFile
    BY <1>1 DEF Good
  <2>2. ~faulty => PointToLast(Entered.new_db, Entered.new_vlog, latest)
    BY <1>1 DEF Good
  <2>3. ~gc_in_progress' => ~Entered.gc_in_progress
    BY <1>3, <1>4
  <2> QED BY <1>2, <1>4, <2>1, <2>2, <2>3 DEF NewPointers
<1> QED BY <1>6, <1>7, <1>8, <1>9, <1>10, <1>11 DEF Inv

\* What get returns are values of the logs, or none.
LEMMA GetReplies ==
    ASSUME Inv, status = "running", pc = "idle", NEW k \in Keys,
           NEW r \in GetOutcomes(Entered, k)
    PROVE  r \in Values \cup {Ok, Failed, NotFound, Blank, Mangled}
<1>1. Entered \in State
  BY EnteredGood
<1>2. /\ Entered.vlog \in Records /\ Entered.new_vlog \in Records
      /\ Entered.db \in Ptrs /\ Entered.new_db \in Ptrs
  BY <1>1 DEF State
<1>3. ASSUME NEW log \in Records, NEW p \in Nat PROVE ReadIn(log, p) \in Values \cup {Blank}
  <2>1. CASE p < Len(log)
    <3>1. p + 1 \in 1..Len(log)
      BY <2>1 DEF Records
    <3>2. log[p + 1] \in [key : Keys, val : Values]
      <4> DEFINE R == [key : Keys, val : Values]
      <4>1. log \in Seq(R)
        BY DEF Records
      <4> HIDE DEF R
      <4>2. log[p + 1] \in R
        BY <3>1, <4>1
      <4> QED BY <4>2 DEF R
    <3> QED BY <2>1, <3>2 DEF ReadIn
  <2>2. CASE ~(p < Len(log))
    BY <2>2 DEF ReadIn
  <2> QED BY <2>1, <2>2
<1>4. Position(Entered, k) # NoPtr => Position(Entered, k) \in Nat
  BY <1>2 DEF Position, Ptrs
<1>5. 0..Len(Entered.vlog) \subseteq Nat
  BY <1>2 DEF Records
<1>6. CASE ~Entered.gc_in_progress
  <2>0. SUFFICES ASSUME r # Mangled PROVE r \in Values \cup {Blank}
    OBVIOUS
  <2>1. PICK p \in 0..Len(Entered.vlog) : r = ReadIn(Entered.vlog, p)
    BY <1>6, <2>0 DEF GetOutcomes
  <2>2. p \in Nat
    BY <1>5
  <2> QED BY <1>2, <1>3, <2>1, <2>2
<1>7. CASE Entered.gc_in_progress /\ Position(Entered, k) # NoPtr
  <2>1. r = ReadIn(Entered.new_vlog, Position(Entered, k))
    BY <1>7 DEF GetOutcomes
  <2> QED BY <1>2, <1>3, <1>4, <1>7, <2>1
<1>8. CASE Entered.gc_in_progress /\ Position(Entered, k) = NoPtr
  BY <1>8 DEF GetOutcomes
<1> QED BY <1>6, <1>7, <1>8

\* The two halves of the client's increment: what it writes back may undo
\* increments of the collector, but never goes below what it read.
LEMMA CountStep ==
    ASSUME Inv, CountRead \/ CountWrite
    PROVE  Inv'
<1> USE DEF Inv, TypeOK
<1>1. Len(vlog) \in Nat /\ Len(li_vlog) \in Nat
  BY DEF Records
<1>2. CASE CountRead
  <2> USE <1>2 DEF CountRead, files, collector
  <2>1. TypeOK'
    OBVIOUS
  <2>2. CountExact' /\ CopiesNatural'
    BY DEF CountExact, CopiesNatural
  <2>3. CountSafe'
    BY DEF CountSafe, Base
  <2>4. Phases' /\ NoIndexYet' /\ IndexNeverRead' /\ NewPointers'
    BY DEF Phases, NoIndexYet, IndexNeverRead, NewPointers
  <2> QED BY <2>1, <2>2, <2>3, <2>4
<1>3. CASE CountWrite
  <2> USE <1>3 DEF CountWrite, files, collector
  <2>1. TypeOK'
    BY DEF CopiesNatural
  <2>2. CountExact' /\ CopiesNatural'
    BY DEF CountExact, CopiesNatural
  <2>3. CountSafe'
    BY <1>1 DEF CountSafe, Base
  <2>4. Phases' /\ NoIndexYet' /\ IndexNeverRead' /\ NewPointers'
    BY DEF Phases, NoIndexYet, IndexNeverRead, NewPointers
  <2> QED BY <2>1, <2>2, <2>3, <2>4
<1> QED BY <1>2, <1>3

\* The records the collector writes back are records.
LEMMA CollectedType ==
    ASSUME TypeOK, NEW left \in Collected
    PROVE  left \in Records
<1> DEFINE log == li_vlog \o vlog
<1>1. log \in Seq([key : Keys, val : Values])
  BY DEF TypeOK, Records
<1> HIDE DEF log
<1>2. PICK s \in SortedSeqs(Survivors(log)) : left = Pairs(log, s)
  BY DEF Collected, log
<1>3. Pairs(log, s) \in Seq([key : Keys, val : Values])
  BY <1>1, KeysAssumption, CollectedRecords
<1> QED BY <1>2, <1>3 DEF Records

\* The steps of the collector
LEMMA CollectorStep ==
    ASSUME Inv, Collector
    PROVE  Inv'
<1>1. Len(vlog) \in Nat /\ Len(li_vlog) \in Nat
  BY DEF Inv, TypeOK, Records
<1>2. gc_pc # "none" => gc_in_progress /\ ~gc_done /\ started
  BY DEF Inv, Phases
<1>3. CASE GcRead
  <2> USE <1>3 DEF GcRead, files, client
  <2>1. gc_left' \in Records
    BY CollectedType DEF Inv
  <2>2. TypeOK'
    BY <2>1 DEF Inv, TypeOK
  <2>3. CountExact' /\ CountSafe' /\ CopiesNatural'
    BY <1>2 DEF Inv, TypeOK, CountExact, CountSafe, CopiesNatural, Base
  <2>4. Phases' /\ NoIndexYet' /\ IndexNeverRead' /\ NewPointers'
    BY <1>2 DEF Inv, Phases, NoIndexYet, IndexNeverRead, NewPointers
  <2> QED BY <2>2, <2>3, <2>4 DEF Inv
<1>4. CASE GcWrite
  <2> USE <1>4 DEF GcWrite, client
  <2>1. gc_left' \in Records /\ new_li_vlog' \in Records
    <3> DEFINE R == [key : Keys, val : Values]
    <3>1. gc_left \in Seq(R) /\ gc_left # << >> /\ new_li_vlog \in Seq(R)
      BY DEF Inv, TypeOK, Records
    <3> HIDE DEF R
    <3>2. Tail(gc_left) \in Seq(R) /\ Append(new_li_vlog, Head(gc_left)) \in Seq(R)
      BY <3>1
    <3> QED BY <3>2 DEF R, Records
  <2>2. TypeOK'
    BY <2>1 DEF Inv, TypeOK
  <2>3. CountExact' /\ CountSafe' /\ CopiesNatural'
    BY <1>2 DEF Inv, TypeOK, CountExact, CountSafe, CopiesNatural, Base
  <2>4. Phases' /\ NoIndexYet' /\ IndexNeverRead' /\ NewPointers'
    BY <1>2 DEF Inv, Phases, NoIndexYet, IndexNeverRead, NewPointers
  <2> QED BY <2>2, <2>3, <2>4 DEF Inv
<1>5. CASE GcCount
  <2> USE <1>5 DEF GcCount, files, client
  <2>1. TypeOK'
    BY DEF Inv, TypeOK, CopiesNatural
  <2>2. CountExact' /\ CountSafe' /\ CopiesNatural'
    BY <1>1, <1>2 DEF Inv, TypeOK, CountExact, CountSafe, CopiesNatural, Base
  <2>3. Phases' /\ NoIndexYet' /\ IndexNeverRead' /\ NewPointers'
    BY <1>2 DEF Inv, Phases, NoIndexYet, IndexNeverRead, NewPointers
  <2> QED BY <2>1, <2>2, <2>3 DEF Inv
<1>6. CASE GcFinish
  <2> USE <1>6 DEF GcFinish, client
  <2>1. new_key_array_file' \in Seq(Keys)
    <3> DEFINE R == [key : Keys, val : Values]
               n == Len(new_li_vlog)
               f == [j \in 1..n |-> new_li_vlog[j].key]
    <3>1. new_li_vlog \in Seq(R)
      BY DEF Inv, TypeOK, Records
    <3>2. n \in Nat /\ \A j \in 1..n : new_li_vlog[j] \in R
      <4> HIDE DEF R
      <4> QED BY <3>1
    <3>3. new_key_array_file' = f \/ new_key_array_file' = NoFile
      BY DEF NewKeyArrays
    <3> HIDE DEF n
    <3>4. f \in [1..n -> Keys]
      BY <3>2
    <3> HIDE DEF f
    <3>5. f \in Seq(Keys) /\ NoFile \in Seq(Keys)
      BY <3>2, <3>4 DEF NoFile
    <3> QED BY <3>3, <3>5
  <2>2. TypeOK'
    BY <2>1 DEF Inv, TypeOK
  <2>3. CountExact' /\ CountSafe' /\ CopiesNatural'
    BY <1>2 DEF Inv, TypeOK, CountExact, CountSafe, CopiesNatural, Base
  <2>4. Phases' /\ NoIndexYet' /\ IndexNeverRead' /\ NewPointers'
    BY <1>2 DEF Inv, Phases, NoIndexYet, IndexNeverRead, NewPointers
  <2> QED BY <2>2, <2>3, <2>4 DEF Inv
<1> QED BY <1>3, <1>4, <1>5, <1>6 DEF Collector

\* Every step keeps the invariant.
LEMMA NextInv ==
    ASSUME Inv, [Next]_vars
    PROVE  Inv'
<1>1. ASSUME NEW k \in Keys, NEW v \in Values, Put(k, v) PROVE Inv'
  BY <1>1, PutStep
<1>2. ASSUME NEW k \in Keys, NEW v \in Values, PutFails(k, v) \/ PutCrashes(k, v)
      PROVE  Inv'
  BY <1>2, FailedPutStep
<1>3. CASE PutTerminates
  <2>1. reply' \in Values \cup {Ok, Failed, NotFound, Blank, Mangled}
    BY <1>3 DEF PutTerminates, Inv, TypeOK
  <2> QED BY <1>3, <2>1, LeaveStep DEF PutTerminates
<1>4. ASSUME NEW k \in Keys, Get(k) PROVE Inv'
  <2>1. status = "running" /\ pc = "idle" /\ Leaves(Entered)
        /\ UNCHANGED << pc, reg, latest, faulty, started, collector >>
    BY <1>4 DEF Get
  <2>2. CASE GetCrashes(Entered, k)
    <3>1. status' = "crashed" /\ reply' = reply
      BY <1>4, <2>2 DEF Get
    <3> QED BY <2>1, <3>1, LeaveStep DEF Inv, TypeOK
  <2>3. CASE ~GetCrashes(Entered, k)
    <3>1. status' = "running" /\ reply' \in GetOutcomes(Entered, k)
      BY <1>4, <2>1, <2>3 DEF Get
    <3>2. reply' \in Values \cup {Ok, Failed, NotFound, Blank, Mangled}
      BY <2>1, <3>1, GetReplies
    <3> QED BY <2>1, <3>1, <3>2, LeaveStep
  <2> QED BY <2>2, <2>3
<1>5. CASE CountRead \/ CountWrite
  BY <1>5, CountStep
<1>6. CASE Collector
  BY <1>6, CollectorStep
<1>7. CASE UNCHANGED vars
  BY <1>7 DEF vars, files, client, collector, Inv, TypeOK, CountExact, CountSafe, Base,
              CopiesNatural, Phases, NoIndexYet, IndexNeverRead, NewPointers
<1> QED BY <1>1, <1>2, <1>3, <1>4, <1>5, <1>6, <1>7 DEF Next, Client
-----------------------------------------------------------------------------
(***************************************************************************)
(* What the collector has written while the client goes on, and what the   *)
(* logs say of every key.                                                  *)
(***************************************************************************)
\* What is written and what is left make up one collection of the old logs,
\* which nobody changes before it is taken over.
CollectorProgress ==
    /\ ~gc_in_progress \/ gc_pc = "read" => new_li_vlog = NoFile
    /\ gc_pc \in {"write", "store"} => new_li_vlog \o gc_left \in Collected
    /\ gc_done => new_li_vlog \in Collected

\* The inductive invariant of the logs, together with Inv
LogInv == CollectorProgress /\ NewestIsLatest

\* The logs of a state that a call hands on
Logs(st) == st.li_vlog \o st.vlog \o st.new_vlog

\* A key has records in the logs, or lost them to a collection taken over.
Kept(k, logs) ==
    \/ k \in LogKeys(logs)
    \/ gc_done /\ \A m \in LogKeys(li_vlog \o vlog) : m <= k

\* What taking over leaves of the logs
LogsGood(st) ==
    /\ Newest(Logs(st), latest)
    /\ \A k \in LogKeys(AllLogs) : Kept(k, Logs(st))
    /\ st.gc_in_progress =>
            /\ st.vlog = vlog /\ st.li_vlog = li_vlog
            /\ st.new_li_vlog = new_li_vlog
    /\ ~st.gc_in_progress => st.new_li_vlog = NoFile /\ st.new_vlog = NoFile

\* The keys of a log of records
LEMMA RecordKeys ==
    ASSUME NEW log \in Records
    PROVE  LogKeys(log) \subseteq Keys
<1> DEFINE R == [key : Keys, val : Values]
<1>1. \A j \in DOMAIN log : log[j] \in R
  <2>1. log \in Seq(R)
    BY DEF Records
  <2> HIDE DEF R
  <2> QED BY <2>1
<1> QED BY <1>1 DEF LogKeys

\* The empty log before or behind another one
LEMMA EmptyPart ==
    ASSUME NEW a \in Records
    PROVE  a \o NoFile = a /\ NoFile \o a = a
<1> DEFINE R == [key : Keys, val : Values]
<1>1. a \in Seq(R)
  BY DEF Records
<1> HIDE DEF R
<1> QED BY <1>1 DEF NoFile

\* The collector moves a pair from what is left to what is written.
LEMMA PairMoves ==
    ASSUME NEW a \in Records, NEW b \in Records, b # << >>
    PROVE  Append(a, Head(b)) \o Tail(b) = a \o b
<1> DEFINE R == [key : Keys, val : Values]
<1>1. a \in Seq(R) /\ b \in Seq(R)
  BY DEF Records
<1> HIDE DEF R
<1> QED BY <1>1

\* However far the client got with the second log, taking over leaves the last
\* value of every key that has records, and loses at most the largest key.
LEMMA EnteredLogs ==
    ASSUME Inv, LogInv, status = "running", pc = "idle"
    PROVE  LogsGood(Entered)
<1>1. CASE ~gc_done
  <2>1. Entered = Untouched
    BY <1>1 DEF Entered
  <2>2. Logs(Untouched) = AllLogs
    BY DEF Logs, Untouched, AllLogs
  <2>3. /\ Untouched.vlog = vlog /\ Untouched.li_vlog = li_vlog
        /\ Untouched.new_li_vlog = new_li_vlog /\ Untouched.new_vlog = new_vlog
        /\ Untouched.gc_in_progress = gc_in_progress
    BY DEF Untouched
  <2>4. ~gc_in_progress => new_li_vlog = NoFile /\ new_vlog = NoFile
    BY DEF Inv, LogInv, CollectorProgress, NewPointers
  <2>5. Newest(AllLogs, latest)
    BY DEF LogInv, NewestIsLatest, Newest
  <2> QED BY <2>1, <2>2, <2>3, <2>4, <2>5, Zenon DEF LogsGood, Kept
<1>2. CASE gc_done
  <2> DEFINE old == li_vlog \o vlog
  <2>1. /\ vlog \in Records /\ li_vlog \in Records /\ new_vlog \in Records
        /\ old \in Records /\ NoFile \in Records
    <3>1. vlog \in Records /\ li_vlog \in Records /\ new_vlog \in Records
      BY DEF Inv, TypeOK
    <3>2. old \in Records /\ NoFile \in Records
      BY <3>1 DEF Records, NoFile
    <3> QED BY <3>1, <3>2
  <2>2. PICK s \in SortedSeqs(Survivors(old)) : new_li_vlog = Pairs(old, s)
    BY <1>2 DEF LogInv, CollectorProgress, Collected
  <2>3. Newest(old \o new_vlog, latest) /\ AllLogs = old \o new_vlog
    BY DEF LogInv, NewestIsLatest, Newest, AllLogs
  <2> HIDE DEF old
  <2>4. /\ Newest(new_li_vlog \o new_vlog, latest)
        /\ LogKeys(new_li_vlog \o new_vlog) = Survivors(old) \cup LogKeys(new_vlog)
    <3>1. /\ old \in Seq([key : Keys, val : Values]) /\ Keys \subseteq Nat
          /\ new_vlog \in Seq([key : Keys, val : Values]) /\ IsFiniteSet(Keys)
      BY <2>1, KeysAssumption DEF Records
    <3>2. Replaces(Pairs(old, s), old, new_vlog, latest)
      BY <2>3, <3>1, NewestCollected, Zenon
    <3> QED BY <2>2, <3>2 DEF Replaces
  <2>5. LogKeys(old \o new_vlog) = LogKeys(old) \cup LogKeys(new_vlog)
    <3>1. JoinedValues(old \o new_vlog, old, new_vlog)
      BY <2>1, NewerPartWins DEF Records
    <3> QED BY <3>1 DEF JoinedValues
  <2>6. Entered = TakenOver
    BY <1>2 DEF Entered
  <2>7. Logs(TakenOver) = new_li_vlog \o new_vlog
    <3>1. new_li_vlog \o new_vlog \in Records
      BY DEF Inv, TypeOK, Records
    <3>2. (new_li_vlog \o new_vlog) \o NoFile = new_li_vlog \o new_vlog
      BY <3>1, EmptyPart
    <3> QED BY <3>2 DEF Logs, TakenOver
  <2>8. ASSUME NEW k \in LogKeys(AllLogs) PROVE Kept(k, new_li_vlog \o new_vlog)
    <3>1. LogKeys(old) \subseteq Nat
      BY <2>1, RecordKeys, KeysAssumption
    <3>2. CASE k \in Survivors(old) \cup LogKeys(new_vlog)
      BY <2>4, <3>2 DEF Kept
    <3>3. CASE k \in LogKeys(old) /\ k \notin Survivors(old)
      <4>1. \A m \in LogKeys(old) : m <= k
        BY <3>1, <3>3 DEF Survivors
      <4> QED BY <1>2, <4>1 DEF Kept, old
    <3> QED BY <2>3, <2>5, <3>2, <3>3
  <2>9. ~TakenOver.gc_in_progress /\ TakenOver.new_li_vlog = NoFile
        /\ TakenOver.new_vlog = NoFile
    BY DEF TakenOver
  <2> QED BY <2>4, <2>6, <2>7, <2>8, <2>9 DEF LogsGood
<1> QED BY <1>1, <1>2

\* The files of the collection after a call that may have started it
LEMMA ProgressKept ==
    ASSUME Inv, LogInv, LogsGood(Entered), status = "running", pc = "idle",
           gc_left' = gc_left, gc_done' = FALSE,
           new_li_vlog' = Entered.new_li_vlog, li_vlog' = Entered.li_vlog,
           gc_in_progress' => vlog' = Entered.vlog,
           Entered.gc_in_progress => gc_in_progress',
           \/ gc_pc' = gc_pc
           \/ gc_pc' = "read" /\ ~Entered.gc_in_progress
    PROVE  CollectorProgress'
<1>1. Entered \in State /\ Good(Entered)
  BY EnteredGood
<1>2. CASE gc_pc' = gc_pc /\ gc_pc # "none"
  <2>1. gc_in_progress /\ ~gc_done
    BY <1>2 DEF Inv, Phases
  <2>2. Entered.gc_in_progress
    BY <2>1 DEF Entered, Untouched
  <2>3. vlog' = vlog /\ li_vlog' = li_vlog /\ new_li_vlog' = new_li_vlog /\ gc_in_progress'
    BY <2>2 DEF LogsGood
  <2>4. Collected' = Collected
    BY <2>3 DEF Collected
  <2> QED BY <1>2, <2>1, <2>3, <2>4 DEF LogInv, CollectorProgress
<1>3. CASE gc_pc' = "none" \/ (gc_pc' = "read" /\ ~Entered.gc_in_progress)
  <2>1. ~Entered.gc_in_progress => Entered.new_li_vlog = NoFile
    BY DEF LogsGood
  <2>2. ~gc_in_progress' => ~Entered.gc_in_progress
    OBVIOUS
  <2> QED BY <1>3, <2>1, <2>2 DEF CollectorProgress
<1> QED BY <1>2, <1>3

\* A put, however it ends: its record is the newest of all logs.
LEMMA PutLogs ==
    ASSUME Inv, LogInv, status = "running", pc = "idle", StartsCollector,
           NEW k \in Keys, NEW v \in Values, NEW new \in State, Leaves(new),
           new.vlog = Appended(Prepared, k, v).vlog,
           new.li_vlog = Appended(Prepared, k, v).li_vlog,
           new.new_vlog = Appended(Prepared, k, v).new_vlog,
           new.new_li_vlog = Appended(Prepared, k, v).new_li_vlog,
           new.gc_in_progress = Appended(Prepared, k, v).gc_in_progress,
           gc_left' = gc_left, latest' = [latest EXCEPT ![k] = v]
    PROVE  LogInv' /\ \A l \in LogKeys(AllLogs) : Kept(l, AllLogs')
<1> DEFINE R == [key : Keys, val : Values]
           r == Record(k, v)
<1>1. Entered \in State /\ Good(Entered) /\ LogsGood(Entered)
  BY EnteredGood, EnteredLogs
<1>2. /\ Prepared \in State
      /\ Prepared.vlog = Entered.vlog /\ Prepared.li_vlog = Entered.li_vlog
      /\ Prepared.new_vlog = Entered.new_vlog
      /\ Prepared.new_li_vlog = Entered.new_li_vlog
      /\ Prepared.gc_in_progress = (MustCollect(Entered) \/ Entered.gc_in_progress)
  BY <1>1 DEF State, Prepared
<1>3. /\ li_vlog' = Entered.li_vlog /\ new_li_vlog' = Entered.new_li_vlog
      /\ gc_in_progress' = Prepared.gc_in_progress /\ gc_done' = FALSE
      /\ Prepared.gc_in_progress =>
            vlog' = Entered.vlog /\ new_vlog' = Append(Entered.new_vlog, r)
      /\ ~Prepared.gc_in_progress =>
            vlog' = Append(Entered.vlog, r) /\ new_vlog' = Entered.new_vlog
  <2>1. /\ Appended(Prepared, k, v).li_vlog = Prepared.li_vlog
        /\ Appended(Prepared, k, v).new_li_vlog = Prepared.new_li_vlog
        /\ Appended(Prepared, k, v).gc_in_progress = Prepared.gc_in_progress
        /\ Prepared.gc_in_progress =>
              /\ Appended(Prepared, k, v).vlog = Prepared.vlog
              /\ Appended(Prepared, k, v).new_vlog = Append(Prepared.new_vlog, r)
        /\ ~Prepared.gc_in_progress =>
              /\ Appended(Prepared, k, v).vlog = Append(Prepared.vlog, r)
              /\ Appended(Prepared, k, v).new_vlog = Prepared.new_vlog
    BY <1>2, AppendedIs, Zenon
  <2> HIDE DEF r
  <2> QED BY <1>2, <2>1, Zenon DEF Leaves
<1>4. /\ r \in R /\ r.key = k /\ r.val = v
      /\ Entered.vlog \in Seq(R) /\ Entered.li_vlog \in Seq(R)
      /\ Entered.new_vlog \in Seq(R)
  BY <1>1 DEF Record, State, Records
<1>5. /\ latest'[k] = v /\ \A l \in Keys : l # k => latest'[l] = latest[l]
  BY DEF Inv, TypeOK
<1>6. CollectorProgress'
  <2>1. Entered.gc_in_progress \in BOOLEAN
    BY <1>1 DEF State
  <2>2. \/ gc_pc' = gc_pc
        \/ gc_pc' = "read" /\ ~Entered.gc_in_progress
    BY DEF StartsCollector, MustCollect
  <2>3. gc_in_progress' => vlog' = Entered.vlog
    BY <1>3
  <2>4. Entered.gc_in_progress => gc_in_progress'
    BY <1>2, <1>3
  <2> QED BY <1>1, <1>3, <2>2, <2>3, <2>4, ProgressKept
<1> DEFINE old == Entered.li_vlog \o Entered.vlog
<1>7. old \in Seq(R) /\ Logs(Entered) = old \o Entered.new_vlog
  <2> HIDE DEF R
  <2> QED BY <1>4 DEF Logs
<1> HIDE DEF R, r
<1>8. /\ Newest(Logs(Entered), latest)
      /\ \A l \in LogKeys(AllLogs) : Kept(l, Logs(Entered))
  BY <1>1 DEF LogsGood
<1>9. LogKeys(Logs(Entered)) \subseteq Keys
  <2>1. Logs(Entered) \in Records
    BY <1>4, <1>7 DEF Records, R
  <2> QED BY <2>1, RecordKeys
<1>10. Newest(AllLogs', latest') /\ LogKeys(AllLogs') = LogKeys(Logs(Entered)) \cup {k}
  <2>1. CASE Prepared.gc_in_progress
    <3>1. AllLogs' = old \o Append(Entered.new_vlog, r)
      BY <1>3, <2>1 DEF AllLogs
    <3> HIDE DEF old
    <3>2. /\ Newest(old \o Entered.new_vlog, latest) /\ latest'[r.key] = r.val
          /\ \A l \in LogKeys(old \o Entered.new_vlog) : l # r.key => latest'[l] = latest[l]
      BY <1>4, <1>5, <1>7, <1>8, <1>9
    <3>3. Gains(old \o Append(Entered.new_vlog, r), old \o Entered.new_vlog, r.key, latest')
      BY <1>4, <1>7, <3>2, NewestAppended, Zenon
    <3> QED BY <1>4, <1>7, <3>1, <3>3 DEF Gains
  <2>2. CASE ~Prepared.gc_in_progress
    <3>1. Entered.new_vlog = NoFile
      BY <1>1, <1>2, <2>2 DEF Good
    <3>2. Logs(Entered) = Entered.li_vlog \o Entered.vlog
      <4>1. old \in Records
        BY <1>7 DEF Records, R
      <4> QED BY <1>7, <3>1, <4>1, EmptyPart
    <3>3. AllLogs' = Entered.li_vlog \o Append(Entered.vlog, r)
      <4>1. Entered.li_vlog \o Append(Entered.vlog, r) \in Seq(R)
        BY <1>4
      <4>2. Entered.li_vlog \o Append(Entered.vlog, r) \in Records
        BY <4>1 DEF Records, R
      <4>3. AllLogs' = (Entered.li_vlog \o Append(Entered.vlog, r)) \o NoFile
        BY <1>3, <2>2, <3>1 DEF AllLogs
      <4> QED BY <4>2, <4>3, EmptyPart
    <3>4. /\ Newest(Entered.li_vlog \o Entered.vlog, latest) /\ latest'[r.key] = r.val
          /\ \A l \in LogKeys(Entered.li_vlog \o Entered.vlog) :
                l # r.key => latest'[l] = latest[l]
      BY <1>4, <1>5, <1>8, <1>9, <3>2
    <3>5. Gains(Entered.li_vlog \o Append(Entered.vlog, r),
                Entered.li_vlog \o Entered.vlog, r.key, latest')
      BY <1>4, <3>4, NewestAppended, Zenon
    <3> QED BY <1>4, <3>2, <3>3, <3>5 DEF Gains
  <2> QED BY <2>1, <2>2
<1>11. NewestIsLatest'
  BY <1>10 DEF NewestIsLatest, Newest
<1>12. \A l \in LogKeys(AllLogs) : Kept(l, AllLogs')
  BY <1>8, <1>10 DEF Kept
<1> QED BY <1>6, <1>11, <1>12 DEF LogInv

\* A call that only takes over, or ends the program
LEMMA LeaveLogs ==
    ASSUME Inv, LogInv, status = "running", pc = "idle",
           UNCHANGED << latest, collector >>,
           Leaves(Entered) \/ Leaves(Prepared)
    PROVE  LogInv' /\ \A l \in LogKeys(AllLogs) : Kept(l, AllLogs')
<1>1. Entered \in State /\ Good(Entered) /\ LogsGood(Entered)
  BY EnteredGood, EnteredLogs
<1>2. /\ Prepared.vlog = Entered.vlog /\ Prepared.li_vlog = Entered.li_vlog
      /\ Prepared.new_vlog = Entered.new_vlog
      /\ Prepared.new_li_vlog = Entered.new_li_vlog
      /\ Entered.gc_in_progress => Prepared.gc_in_progress
  BY <1>1 DEF State, Prepared
<1>3. /\ vlog' = Entered.vlog /\ li_vlog' = Entered.li_vlog
      /\ new_vlog' = Entered.new_vlog /\ new_li_vlog' = Entered.new_li_vlog
      /\ gc_done' = FALSE
      /\ Entered.gc_in_progress => gc_in_progress'
  BY <1>2, Zenon DEF Leaves
<1>4. latest' = latest /\ gc_pc' = gc_pc /\ gc_left' = gc_left
  BY DEF collector
<1>5. CollectorProgress'
  BY <1>1, <1>3, <1>4, ProgressKept
<1>6. AllLogs' = Logs(Entered)
  BY <1>3 DEF AllLogs, Logs
<1>7. Newest(Logs(Entered), latest) /\ \A k \in LogKeys(AllLogs) : Kept(k, Logs(Entered))
  BY <1>1 DEF LogsGood
<1>8. NewestIsLatest'
  BY <1>4, <1>6, <1>7 DEF NewestIsLatest, Newest
<1> QED BY <1>5, <1>6, <1>7, <1>8, Zenon DEF LogInv

\* The steps of the collector: none of them touches a log that a client sees.
LEMMA CollectorLogs ==
    ASSUME Inv, LogInv, Collector
    PROVE  LogInv' /\ \A l \in LogKeys(AllLogs) : Kept(l, AllLogs')
<1>1. /\ vlog' = vlog /\ li_vlog' = li_vlog /\ new_vlog' = new_vlog /\ latest' = latest
      /\ gc_in_progress' = gc_in_progress
  BY DEF Collector, GcRead, GcWrite, GcCount, GcFinish, files, client
<1>2. AllLogs' = AllLogs /\ Collected' = Collected
  BY <1>1 DEF AllLogs, Collected
<1>3. NewestIsLatest'
  BY <1>1, <1>2 DEF LogInv, NewestIsLatest
<1>4. gc_pc # "none" => gc_in_progress /\ ~gc_done
  BY DEF Inv, Phases
<1>5. gc_left \in Records /\ new_li_vlog \in Records
  BY DEF Inv, TypeOK
<1>6. CollectorProgress'
  <2>1. CASE GcRead
    <3>1. /\ gc_in_progress' /\ gc_done' = FALSE /\ gc_pc' = "write"
          /\ new_li_vlog' = NoFile /\ gc_left' \in Collected
      BY <1>1, <1>4, <2>1 DEF GcRead, files, LogInv, CollectorProgress, Inv, TypeOK
    <3>2. new_li_vlog' \o gc_left' = gc_left'
      <4>1. gc_left' \in Records
        BY <3>1, CollectedType DEF Inv
      <4> QED BY <3>1, <4>1, EmptyPart
    <3> QED BY <1>2, <3>1, <3>2 DEF CollectorProgress
  <2>2. CASE GcWrite
    <3>1. /\ gc_in_progress' /\ gc_done' = FALSE /\ gc_pc' = "store" /\ gc_left # << >>
          /\ new_li_vlog' = Append(new_li_vlog, Head(gc_left)) /\ gc_left' = Tail(gc_left)
          /\ new_li_vlog \o gc_left \in Collected
      BY <1>1, <1>4, <2>2 DEF GcWrite, LogInv, CollectorProgress, Inv, TypeOK
    <3>2. new_li_vlog' \o gc_left' = new_li_vlog \o gc_left
      BY <1>5, <3>1, PairMoves
    <3> QED BY <1>2, <3>1, <3>2 DEF CollectorProgress
  <2>3. CASE GcCount
    <3>1. /\ gc_in_progress' /\ gc_done' = FALSE /\ gc_pc' = "write"
          /\ new_li_vlog' = new_li_vlog /\ gc_left' = gc_left
          /\ new_li_vlog \o gc_left \in Collected
      BY <1>1, <1>4, <2>3 DEF GcCount, files, LogInv, CollectorProgress, Inv, TypeOK
    <3> QED BY <1>2, <3>1 DEF CollectorProgress
  <2>4. CASE GcFinish
    <3>1. /\ gc_in_progress' /\ gc_pc' = "none" /\ gc_left = NoFile
          /\ new_li_vlog' = new_li_vlog /\ new_li_vlog \o gc_left \in Collected
      BY <1>1, <1>4, <2>4 DEF GcFinish, NoFile, LogInv, CollectorProgress
    <3>2. new_li_vlog \in Collected
      BY <1>5, <3>1, EmptyPart
    <3> QED BY <1>2, <3>1, <3>2 DEF CollectorProgress
  <2> QED BY <2>1, <2>2, <2>3, <2>4 DEF Collector
<1> QED BY <1>2, <1>3, <1>6 DEF LogInv, Kept

\* Every step keeps the invariant of the logs, and loses no key but the largest
\* one of a collection it takes over.
LEMMA NextLogs ==
    ASSUME Inv, LogInv, [Next]_vars
    PROVE  LogInv' /\ \A l \in LogKeys(AllLogs) : Kept(l, AllLogs')
<1>1. ASSUME NEW k \in Keys, NEW v \in Values, Put(k, v)
      PROVE  LogInv' /\ \A l \in LogKeys(AllLogs) : Kept(l, AllLogs')
  <2> DEFINE new == Stored(Prepared, k, v)
             app == Appended(Prepared, k, v)
  <2>1. /\ status = "running" /\ pc = "idle" /\ Leaves(new) /\ StartsCollector
        /\ gc_left' = gc_left /\ latest' = [latest EXCEPT ![k] = v]
    BY <1>1 DEF Put
  <2>2. Entered \in State
    BY <2>1, EnteredGood
  <2>3. Prepared \in State
    BY <2>2 DEF State, Prepared
  <2>4. /\ new \in State /\ new.vlog = app.vlog /\ new.li_vlog = app.li_vlog
        /\ new.new_vlog = app.new_vlog /\ new.new_li_vlog = app.new_li_vlog
        /\ new.gc_in_progress = app.gc_in_progress
    BY <2>3, StoredIs, Zenon
  <2> QED BY <2>1, <2>4, PutLogs, Zenon
<1>2. ASSUME NEW k \in Keys, NEW v \in Values, PutFails(k, v) \/ PutCrashes(k, v)
      PROVE  LogInv' /\ \A l \in LogKeys(AllLogs) : Kept(l, AllLogs')
  <2> DEFINE app == Appended(Prepared, k, v)
  <2>1. /\ status = "running" /\ pc = "idle" /\ Leaves(app) /\ StartsCollector
        /\ gc_left' = gc_left /\ latest' = [latest EXCEPT ![k] = v]
    BY <1>2 DEF PutFails, PutCrashes
  <2>2. Entered \in State
    BY <2>1, EnteredGood
  <2>3. Prepared \in State
    BY <2>2 DEF State, Prepared
  <2>4. app \in State
    BY <2>3, AppendedIs, Zenon
  <2> QED BY <2>1, <2>4, PutLogs, Zenon
<1>3. CASE PutTerminates \/ \E k \in Keys : Get(k)
  <2>1. /\ status = "running" /\ pc = "idle" /\ UNCHANGED << latest, collector >>
        /\ Leaves(Entered) \/ Leaves(Prepared)
    BY <1>3 DEF PutTerminates, Get
  <2> QED BY <2>1, LeaveLogs
<1>4. CASE CountRead \/ CountWrite \/ UNCHANGED vars
  <2>1. UNCHANGED << files, latest, collector, gc_in_progress, gc_done >>
    BY <1>4 DEF CountRead, CountWrite, vars, client
  <2>2. AllLogs' = AllLogs /\ Collected' = Collected
    BY <2>1 DEF AllLogs, Collected, files
  <2>3. NewestIsLatest'
    BY <2>1, <2>2 DEF LogInv, NewestIsLatest
  <2>4. CollectorProgress'
    BY <2>1, <2>2 DEF LogInv, CollectorProgress, files, collector
  <2> QED BY <2>2, <2>3, <2>4 DEF LogInv, Kept
<1>5. CASE Collector
  BY <1>5, CollectorLogs
<1> QED BY <1>1, <1>2, <1>3, <1>4, <1>5 DEF Next, Client

-----------------------------------------------------------------------------
(***************************************************************************)
(* The collector is never stuck, and how many steps it takes.              *)
(***************************************************************************)
\* A collection under way has a thread that works on it, while the program runs.
CollectorAlive == gc_in_progress /\ ~gc_done /\ status = "running" => gc_pc # "none"

\* The steps the collector has left, at most: two for each pair, one to read the
\* logs and one to finish
Work ==
    IF gc_pc = "read" THEN 2 * Base + 2
    ELSE IF gc_pc = "write" THEN 2 * Len(gc_left) + 1
    ELSE IF gc_pc = "store" THEN 2 * Len(gc_left) + 2
    ELSE 0

\* The old logs can always be collected, into no more pairs than they have records.
LEMMA CollectedFits ==
    ASSUME TypeOK
    PROVE  Collected # {} /\ \A left \in Collected : Len(left) \in Nat /\ Len(left) <= Base
<1> DEFINE log == li_vlog \o vlog
           R == [key : Keys, val : Values]
<1>1. vlog \in Seq(R) /\ li_vlog \in Seq(R)
  BY DEF TypeOK, Records
<1>2. log \in Seq(R) /\ Len(log) = Base
  <2> HIDE DEF R
  <2> QED BY <1>1 DEF Base
<1> HIDE DEF log
<1>3. /\ SortedSeqs(Survivors(log)) # {}
      /\ \A s \in SortedSeqs(Survivors(log)) :
            Len(Pairs(log, s)) \in Nat /\ Len(Pairs(log, s)) <= Len(log)
  BY <1>2, KeysAssumption, CollectionFits
<1>4. Collected = {Pairs(log, s) : s \in SortedSeqs(Survivors(log))}
  BY DEF Collected, log
<1> QED BY <1>2, <1>3, <1>4

\* What a client does during a collection leaves the collector alone.
LEMMA ClientLeavesCollector ==
    ASSUME Inv, Client, gc_pc # "none"
    PROVE  UNCHANGED << collector, vlog, li_vlog >>
<1>1. gc_in_progress /\ ~gc_done
  BY DEF Inv, Phases
<1>2. Entered = Untouched /\ Untouched.gc_in_progress = gc_in_progress
      /\ Untouched.vlog = vlog /\ Untouched.li_vlog = li_vlog
  BY <1>1 DEF Entered, Untouched
<1>3. ~MustCollect(Entered)
  BY <1>1, <1>2 DEF MustCollect
<1>4. Prepared = Untouched
  BY <1>2, <1>3 DEF Prepared
<1>5. StartsCollector => gc_pc' = gc_pc
  BY <1>3 DEF StartsCollector
<1>6. ASSUME status = "running", pc = "idle", Leaves(Untouched)
      PROVE  vlog' = vlog /\ li_vlog' = li_vlog
  BY <1>2, <1>6 DEF Leaves
<1>7. ASSUME NEW k \in Keys, NEW v \in Values, Put(k, v) \/ PutFails(k, v) \/ PutCrashes(k, v)
      PROVE  UNCHANGED << collector, vlog, li_vlog >>
  <2> DEFINE app == Appended(Prepared, k, v)
             new == Stored(Prepared, k, v)
  <2>1. /\ status = "running" /\ pc = "idle" /\ StartsCollector
        /\ UNCHANGED << gc_reg, gc_left >>
        /\ Leaves(new) \/ Leaves(app)
    BY <1>7 DEF Put, PutFails, PutCrashes
  <2>2. Prepared \in State
    BY <1>2, <1>4, <2>1, EnteredGood
  <2>3. /\ app.li_vlog = Prepared.li_vlog
        /\ Prepared.gc_in_progress => app.vlog = Prepared.vlog
    BY <2>2, AppendedIs, Zenon
  <2>4. new.vlog = app.vlog /\ new.li_vlog = app.li_vlog
    BY <2>2, StoredIs, Zenon
  <2> HIDE DEF app, new
  <2>5. vlog' = vlog /\ li_vlog' = li_vlog
    BY <1>1, <1>2, <1>4, <2>1, <2>3, <2>4 DEF Leaves
  <2> QED BY <1>5, <2>1, <2>5 DEF collector
<1>8. CASE PutTerminates
  BY <1>3, <1>8 DEF PutTerminates
<1>9. ASSUME NEW k \in Keys, Get(k) PROVE UNCHANGED << collector, vlog, li_vlog >>
  <2>1. /\ status = "running" /\ pc = "idle" /\ Leaves(Untouched) /\ UNCHANGED collector
    BY <1>2, <1>9 DEF Get
  <2> QED BY <1>6, <2>1
<1>10. CASE CountRead \/ CountWrite
  BY <1>10 DEF CountRead, CountWrite, files
<1> QED BY <1>7, <1>8, <1>9, <1>10 DEF Client

\* Every step of the collector brings it closer to its end, no other step
\* matters to it.
LEMMA WorkStep ==
    ASSUME Inv, [Next]_vars, gc_pc # "none"
    PROVE  /\ Work \in Nat
           /\ (Collector /\ Work' < Work) \/ (UNCHANGED collector /\ Work' = Work)
<1>1. Base \in Nat /\ Len(gc_left) \in Nat
  BY DEF Inv, TypeOK, Records, Base
<1>2. Work \in Nat
  BY <1>1 DEF Work
<1>3. gc_pc \in {"read", "write", "store"}
  BY DEF Inv, TypeOK
<1>4. CASE GcRead
  <2>1. gc_pc = "read" /\ gc_pc' = "write" /\ gc_left' \in Collected
    BY <1>4 DEF GcRead
  <2>2. Len(gc_left') \in Nat /\ Len(gc_left') <= Base
    BY <2>1, CollectedFits DEF Inv
  <2>3. Work = 2 * Base + 2 /\ Work' = 2 * Len(gc_left') + 1
    BY <2>1 DEF Work
  <2>4. Work' < Work
    BY <1>1, <2>2, <2>3
  <2> QED BY <1>2, <1>4, <2>4 DEF Collector
<1>5. CASE GcWrite
  <2>1. /\ gc_pc = "write" /\ gc_pc' = "store" /\ gc_left # << >> /\ gc_left' = Tail(gc_left)
    BY <1>5 DEF GcWrite
  <2>2. Len(gc_left') = Len(gc_left) - 1
    <3> DEFINE R == [key : Keys, val : Values]
    <3>1. gc_left \in Seq(R)
      BY DEF Inv, TypeOK, Records
    <3> HIDE DEF R
    <3> QED BY <2>1, <3>1
  <2>3. Work = 2 * Len(gc_left) + 1 /\ Work' = 2 * Len(gc_left') + 2
    BY <2>1 DEF Work
  <2>4. Work' < Work
    BY <1>1, <2>2, <2>3
  <2> QED BY <1>2, <1>5, <2>4 DEF Collector
<1>6. CASE GcCount
  <2>1. gc_pc = "store" /\ gc_pc' = "write" /\ gc_left' = gc_left
    BY <1>6 DEF GcCount
  <2>2. Work = 2 * Len(gc_left) + 2 /\ Work' = 2 * Len(gc_left) + 1
    BY <2>1 DEF Work
  <2>3. Work' < Work
    BY <1>1, <2>2
  <2> QED BY <1>2, <1>6, <2>3 DEF Collector
<1>7. CASE GcFinish
  <2>1. gc_pc = "write" /\ gc_pc' = "none"
    BY <1>7 DEF GcFinish
  <2>2. Work = 2 * Len(gc_left) + 1 /\ Work' = 0
    BY <2>1 DEF Work
  <2>3. Work' < Work
    BY <1>1, <2>2
  <2> QED BY <1>2, <1>7, <2>3 DEF Collector
<1>8. CASE Client \/ UNCHANGED vars
  <2>1. UNCHANGED << collector, vlog, li_vlog >>
    <3>1. CASE Client
      BY <3>1, ClientLeavesCollector
    <3>2. CASE UNCHANGED vars
      BY <3>2 DEF vars, files
    <3> QED BY <1>8, <3>1, <3>2
  <2>2. Work' = Work
    BY <2>1 DEF Work, Base, collector
  <2> QED BY <1>2, <2>1, <2>2
<1> QED BY <1>4, <1>5, <1>6, <1>7, <1>8 DEF Next, Collector

\* A collection that starts has its thread, one that is done is announced.
LEMMA AliveStep ==
    ASSUME Inv, CollectorAlive, [Next]_vars
    PROVE  CollectorAlive'
<1> SUFFICES ASSUME gc_in_progress', gc_done' = FALSE, status' = "running", gc_pc' = "none"
             PROVE  FALSE
  <2>1. gc_done' \in BOOLEAN
    <3>1. Inv'
      BY NextInv
    <3> QED BY <3>1 DEF Inv, TypeOK
  <2> QED BY <2>1 DEF CollectorAlive
<1>1. ASSUME NEW st, Leaves(st), status = "running", gc_pc' = gc_pc,
             st.gc_in_progress = Entered.gc_in_progress
      PROVE  FALSE
  <2>1. Entered.gc_in_progress
    BY <1>1 DEF Leaves
  <2>2. gc_in_progress /\ ~gc_done
    BY <2>1 DEF Entered, Untouched, TakenOver
  <2> QED BY <1>1, <2>2 DEF CollectorAlive
<1>2. ASSUME NEW k \in Keys, NEW v \in Values, Put(k, v) \/ PutFails(k, v) PROVE FALSE
  <2> DEFINE app == Appended(Prepared, k, v)
             new == Stored(Prepared, k, v)
  <2>1. /\ status = "running" /\ pc = "idle" /\ StartsCollector
        /\ Leaves(new) \/ Leaves(app)
    BY <1>2 DEF Put, PutFails
  <2>2. ~MustCollect(Entered) /\ gc_pc' = gc_pc
    BY <2>1 DEF StartsCollector
  <2>3. Prepared = Entered
    BY <2>2 DEF Prepared
  <2>4. Prepared \in State
    BY <2>1, <2>3, EnteredGood
  <2>5. app.gc_in_progress = Prepared.gc_in_progress
    BY <2>4, AppendedIs, Zenon
  <2>6. new.gc_in_progress = app.gc_in_progress
    BY <2>4, StoredIs, Zenon
  <2> HIDE DEF app, new
  <2> QED BY <1>1, <2>1, <2>2, <2>3, <2>5, <2>6
<1>3. ASSUME NEW k \in Keys, Get(k) PROVE FALSE
  <2>1. status = "running" /\ Leaves(Entered) /\ gc_pc' = gc_pc
    BY <1>3 DEF Get, collector
  <2> QED BY <1>1, <2>1
<1>4. ASSUME NEW k \in Keys, NEW v \in Values, PutCrashes(k, v) PROVE FALSE
  BY <1>4 DEF PutCrashes
<1>5. CASE PutTerminates
  BY <1>5 DEF PutTerminates
<1>6. CASE CountRead \/ CountWrite \/ UNCHANGED vars
  BY <1>6 DEF CountRead, CountWrite, vars, client, collector, CollectorAlive
<1>7. CASE Collector
  BY <1>7 DEF Collector, GcRead, GcWrite, GcCount, GcFinish
<1> QED BY <1>2, <1>3, <1>4, <1>5, <1>6, <1>7 DEF Next, Client

-----------------------------------------------------------------------------
(***************************************************************************)
(* The counter is never ahead of the logs.                                 *)
(***************************************************************************)
\* The records in all four logs
Held == Base + (Len(new_vlog) + Len(new_li_vlog))

\* The records that the client and the collector wrote and have not yet counted
Pending == IF pc = "idle" THEN 0 ELSE 1
Writing == IF gc_pc = "store" THEN 1 ELSE 0

\* Whatever the two threads write back, each record counts once at most: a copy
\* of the counter is older than the record its holder counts, and a record of
\* the other thread that is not yet counted is not in the copy.
CountBound ==
    /\ total_num + Pending + Writing <= Held
    /\ pc = "store" => reg + 1 + Writing <= Held
    /\ gc_pc = "store" => gc_reg + 1 + Pending <= Held

\* Before the first collection nothing is subtracted.
NotWrapped == ~started => total_num >= 0 /\ reg >= 0

CountInv == CountBound /\ NotWrapped

HeldIn(st) == (Len(st.vlog) + Len(st.li_vlog)) + (Len(st.new_vlog) + Len(st.new_li_vlog))

LEMMA HeldType ==
    ASSUME NEW st \in State
    PROVE  /\ Len(st.vlog) \in Nat /\ Len(st.li_vlog) \in Nat
           /\ Len(st.new_vlog) \in Nat /\ Len(st.new_li_vlog) \in Nat
           /\ HeldIn(st) \in Nat /\ st.total_num \in Int
BY DEF State, Records, HeldIn

\* Taking over subtracts the records that it removes.
LEMMA EnteredCount ==
    ASSUME Inv, CountInv, status = "running", pc = "idle"
    PROVE  /\ Entered.total_num + Writing <= HeldIn(Entered)
           /\ gc_pc = "store" => gc_reg + 1 <= HeldIn(Entered)
           /\ ~started => Entered.total_num >= 0
<1>1. /\ Len(vlog) \in Nat /\ Len(li_vlog) \in Nat
      /\ Len(new_vlog) \in Nat /\ Len(new_li_vlog) \in Nat
      /\ total_num \in Int /\ gc_reg \in Int /\ Len(NoFile) = 0
  BY DEF Inv, TypeOK, Records, NoFile
<1>2. /\ total_num + Writing <= Held
      /\ gc_pc = "store" => gc_reg + 1 <= Held
      /\ ~started => total_num >= 0
  BY <1>1 DEF CountInv, CountBound, NotWrapped, Pending, Writing
<1>3. CASE ~gc_done
  <2>1. Entered.total_num = total_num /\ HeldIn(Entered) = Held
    BY <1>3 DEF Entered, Untouched, HeldIn, Held, Base
  <2> QED BY <1>2, <2>1
<1>4. CASE gc_done
  <2>1. started /\ gc_pc = "none" /\ Writing = 0
    BY <1>4 DEF Inv, Phases, Writing
  <2>2. /\ Entered.total_num = total_num - Len(vlog) - Len(li_vlog)
        /\ HeldIn(Entered) = Len(new_vlog) + Len(new_li_vlog)
    BY <1>1, <1>4 DEF Entered, TakenOver, HeldIn
  <2>3. total_num <= (Len(vlog) + Len(li_vlog)) + (Len(new_vlog) + Len(new_li_vlog))
    BY <1>1, <1>2, <2>1 DEF Held, Base
  <2> QED BY <1>1, <2>1, <2>2, <2>3
<1> QED BY <1>3, <1>4

\* A call that leaves n more records than it found when it had taken over, and
\* has counted none of them
LEMMA CallCounts ==
    ASSUME Inv, CountInv, status = "running", pc = "idle",
           NEW new \in State, Leaves(new), NEW n \in {0, 1},
           HeldIn(new) = HeldIn(Entered) + n, new.total_num = Entered.total_num,
           UNCHANGED << reg, gc_reg >>,
           pc' = "idle" \/ (pc' = "count" /\ n = 1),
           gc_pc' = gc_pc \/ gc_pc' = "read", started => started'
    PROVE  CountInv'
<1>1. Entered \in State
  BY EnteredGood
<1>2. /\ HeldIn(new) \in Nat /\ HeldIn(Entered) \in Nat /\ Entered.total_num \in Int
      /\ gc_reg \in Int
  BY <1>1, HeldType DEF Inv, TypeOK
<1>3. /\ Entered.total_num + Writing <= HeldIn(Entered)
      /\ gc_pc = "store" => gc_reg + 1 <= HeldIn(Entered)
      /\ ~started => Entered.total_num >= 0
  BY EnteredCount
<1>4. Held' = HeldIn(new) /\ total_num' = Entered.total_num
  BY DEF Leaves, Held, HeldIn, Base
<1>5. /\ Pending' \in {0, 1} /\ Pending' <= n /\ pc' # "store"
      /\ Writing \in {0, 1} /\ Writing' \in {0, 1} /\ Writing' <= Writing
      /\ gc_pc' = "store" => gc_pc = "store"
  BY DEF Pending, Writing
<1> HIDE DEF HeldIn, Held, Pending, Writing
<1>6. total_num' + Pending' + Writing' <= Held'
  BY <1>2, <1>3, <1>4, <1>5
<1>7. gc_pc' = "store" => gc_reg' + 1 + Pending' <= Held'
  BY <1>2, <1>3, <1>4, <1>5
<1>8. NotWrapped'
  BY <1>3, <1>4 DEF NotWrapped, CountInv
<1> QED BY <1>5, <1>6, <1>7, <1>8 DEF CountInv, CountBound

\* A put writes one record and leaves the counter alone.
LEMMA PutHeld ==
    ASSUME Inv, status = "running", pc = "idle", NEW k \in Keys, NEW v \in Values,
           NEW new, new = Appended(Prepared, k, v) \/ new = Stored(Prepared, k, v)
    PROVE  /\ new \in State /\ HeldIn(new) = HeldIn(Entered) + 1
           /\ new.total_num = Entered.total_num
           /\ new.li_vlog = Entered.li_vlog
           /\ MustCollect(Entered) => new.vlog = Entered.vlog
<1> DEFINE app == Appended(Prepared, k, v)
           sto == Stored(Prepared, k, v)
           r == Record(k, v)
<1>1. Entered \in State
  BY EnteredGood
<1>2. /\ Prepared \in State
      /\ Prepared.vlog = Entered.vlog /\ Prepared.li_vlog = Entered.li_vlog
      /\ Prepared.new_vlog = Entered.new_vlog
      /\ Prepared.new_li_vlog = Entered.new_li_vlog
      /\ Prepared.total_num = Entered.total_num
      /\ MustCollect(Entered) => Prepared.gc_in_progress
  BY <1>1 DEF State, Prepared
<1>3. /\ app \in State /\ app.li_vlog = Prepared.li_vlog
      /\ app.new_li_vlog = Prepared.new_li_vlog /\ app.total_num = Prepared.total_num
      /\ Prepared.gc_in_progress =>
            app.vlog = Prepared.vlog /\ app.new_vlog = Append(Prepared.new_vlog, r)
      /\ ~Prepared.gc_in_progress =>
            /\ Len(app.vlog) = Len(Prepared.vlog) + 1 /\ app.new_vlog = Prepared.new_vlog
  BY <1>2, AppendedIs, Zenon
<1>4. /\ sto \in State /\ sto.li_vlog = app.li_vlog /\ sto.vlog = app.vlog
      /\ sto.new_vlog = app.new_vlog /\ sto.new_li_vlog = app.new_li_vlog
      /\ sto.total_num = app.total_num
  BY <1>2, StoredIs, Zenon
<1>5. new = app \/ new = sto
  OBVIOUS
<1> HIDE DEF app, sto
<1>6. /\ new \in State /\ new.li_vlog = app.li_vlog /\ new.vlog = app.vlog
      /\ new.new_vlog = app.new_vlog /\ new.new_li_vlog = app.new_li_vlog
      /\ new.total_num = app.total_num
  BY <1>3, <1>4, <1>5
<1>7. Len(Append(Entered.new_vlog, r)) = Len(Entered.new_vlog) + 1
  <2> DEFINE R == [key : Keys, val : Values]
  <2>1. Entered.new_vlog \in Seq(R) /\ r \in R
    BY <1>1 DEF State, Records, Record
  <2> HIDE DEF R, r
  <2> QED BY <2>1
<1> HIDE DEF r
<1>8. HeldIn(new) = HeldIn(Entered) + 1
  <2> DEFINE p == Len(Entered.vlog)
             q == Len(Entered.li_vlog)
             x == Len(Entered.new_vlog)
             y == Len(Entered.new_li_vlog)
  <2>1. p \in Nat /\ q \in Nat /\ x \in Nat /\ y \in Nat
    BY <1>1, HeldType
  <2>2. HeldIn(Entered) = (p + q) + (x + y)
    BY DEF HeldIn
  <2>3. HeldIn(new) = ((p + 1) + q) + (x + y) \/ HeldIn(new) = (p + q) + ((x + 1) + y)
    <3>1. CASE Prepared.gc_in_progress
      <4>1. /\ Len(new.vlog) = p /\ Len(new.li_vlog) = q
            /\ Len(new.new_li_vlog) = y /\ Len(new.new_vlog) = x + 1
        BY <1>2, <1>3, <1>6, <1>7, <3>1
      <4> QED BY <4>1, Zenon DEF HeldIn
    <3>2. CASE ~Prepared.gc_in_progress
      <4>1. /\ Len(new.vlog) = p + 1 /\ Len(new.li_vlog) = q
            /\ Len(new.new_li_vlog) = y /\ Len(new.new_vlog) = x
        BY <1>2, <1>3, <1>6, <3>2
      <4> QED BY <4>1, Zenon DEF HeldIn
    <3> QED BY <3>1, <3>2
  <2> HIDE DEF p, q, x, y
  <2> QED BY <2>1, <2>2, <2>3
<1> QED BY <1>2, <1>3, <1>6, <1>8

\* A first collection starts, or the program ends because a second one would,
\* although no put failed.
Collects ==
    \/ ~started /\ started'
    \/ status = "running" /\ status' = "terminated" /\ ~faulty

\* put finds the log full only when the old logs hold Cap records.
LEMMA FullLogs ==
    ASSUME Inv, LogInv, CountInv, status = "running", pc = "idle", MustCollect(Entered),
           ~started \/ ~faulty
    PROVE  Cap <= Len(Entered.vlog) + Len(Entered.li_vlog)
<1>1. Entered \in State /\ Good(Entered) /\ LogsGood(Entered)
  BY EnteredGood, EnteredLogs
<1>2. /\ Len(Entered.vlog) \in Nat /\ Len(Entered.li_vlog) \in Nat
      /\ Entered.total_num \in Int /\ Cap \in Nat /\ Len(NoFile) = 0
  BY <1>1, HeldType, CapAssumption DEF NoFile
<1>3. Entered.total_num >= 0
  BY <1>1, EnteredCount DEF Good
<1>4. Entered.total_num + 1 > Cap /\ ~Entered.gc_in_progress
  BY <1>2, <1>3 DEF MustCollect
<1>5. HeldIn(Entered) = (Len(Entered.vlog) + Len(Entered.li_vlog)) + (0 + 0)
  BY <1>1, <1>2, <1>4 DEF LogsGood, HeldIn
<1>6. Entered.total_num + Writing <= HeldIn(Entered) /\ Writing \in {0, 1}
  BY EnteredCount DEF Writing
<1> DEFINE p == Len(Entered.vlog)
           q == Len(Entered.li_vlog)
           t == Entered.total_num
           h == HeldIn(Entered)
<1>7. /\ p \in Nat /\ q \in Nat /\ t \in Int /\ Cap \in Nat
      /\ t + 1 > Cap /\ h = (p + q) + (0 + 0) /\ t + Writing <= h /\ Writing \in {0, 1}
  BY <1>2, <1>4, <1>5, <1>6
<1> HIDE DEF p, q, t, h, HeldIn, Writing
<1>8. Cap <= p + q
  BY <1>7
<1> QED BY <1>8 DEF p, q

LEMMA NextCounts ==
    ASSUME Inv, LogInv, CountInv, [Next]_vars
    PROVE  CountInv' /\ (Collects => Cap <= Len(vlog') + Len(li_vlog'))
<1>1. /\ Held \in Nat /\ Len(new_li_vlog) \in Nat /\ Len(new_vlog) \in Nat /\ Base \in Nat
      /\ total_num \in Int /\ reg \in Int /\ gc_reg \in Int
  BY DEF Inv, TypeOK, Records, Held, Base
<1>2. /\ Pending \in {0, 1} /\ Writing \in {0, 1}
      /\ total_num + Pending + Writing <= Held
      /\ pc = "store" => reg + 1 + Writing <= Held
      /\ gc_pc = "store" => gc_reg + 1 + Pending <= Held
      /\ ~started => total_num >= 0 /\ reg >= 0
  BY DEF CountInv, CountBound, NotWrapped, Pending, Writing
<1>3. ASSUME NEW k \in Keys, NEW v \in Values, Put(k, v) \/ PutFails(k, v) \/ PutCrashes(k, v)
      PROVE  CountInv' /\ (Collects => Cap <= Len(vlog') + Len(li_vlog'))
  <2>1. PICK new :
          /\ new = Appended(Prepared, k, v) \/ new = Stored(Prepared, k, v)
          /\ Leaves(new) /\ status = "running" /\ pc = "idle" /\ StartsCollector
          /\ UNCHANGED << reg, gc_reg >> /\ pc' \in {"idle", "count"}
          /\ status' # "terminated"
    BY <1>3 DEF Put, PutFails, PutCrashes
  <2>2. /\ new \in State /\ HeldIn(new) = HeldIn(Entered) + 1
        /\ new.total_num = Entered.total_num
        /\ new.li_vlog = Entered.li_vlog
        /\ MustCollect(Entered) => new.vlog = Entered.vlog
    BY <2>1, PutHeld
  <2>3. /\ gc_pc' = gc_pc \/ gc_pc' = "read"
        /\ started => started'
        /\ ~started /\ started' => MustCollect(Entered)
    BY <2>1 DEF StartsCollector
  <2>4. CountInv'
    BY <2>1, <2>2, <2>3, CallCounts
  <2>5. ASSUME Collects PROVE Cap <= Len(vlog') + Len(li_vlog')
    <3>1. ~started /\ MustCollect(Entered)
      BY <2>1, <2>3, <2>5 DEF Collects
    <3>2. Cap <= Len(Entered.vlog) + Len(Entered.li_vlog)
      BY <2>1, <3>1, FullLogs
    <3>3. vlog' = Entered.vlog /\ li_vlog' = Entered.li_vlog
      BY <2>1, <2>2, <3>1 DEF Leaves
    <3> QED BY <3>2, <3>3
  <2> QED BY <2>4, <2>5
<1>4. CASE PutTerminates \/ \E k \in Keys : Get(k)
  <2>1. /\ status = "running" /\ pc = "idle"
        /\ UNCHANGED << pc, reg, started, collector >>
        /\ \/ Leaves(Entered) /\ status' # "terminated"
           \/ Leaves(Prepared) /\ MustCollect(Entered)
    BY <1>4 DEF PutTerminates, Get
  <2>2. Entered \in State
    BY <2>1, EnteredGood
  <2>3. PICK new \in State :
          /\ Leaves(new)
          /\ new.vlog = Entered.vlog /\ new.li_vlog = Entered.li_vlog
          /\ HeldIn(new) = HeldIn(Entered) /\ new.total_num = Entered.total_num
    <3>1. /\ Prepared \in State /\ Prepared.vlog = Entered.vlog
          /\ Prepared.li_vlog = Entered.li_vlog /\ HeldIn(Prepared) = HeldIn(Entered)
          /\ Prepared.total_num = Entered.total_num
      BY <2>2 DEF State, Prepared, HeldIn
    <3> QED BY <2>1, <2>2, <3>1
  <2>4. CountInv'
    <3>1. HeldIn(new) = HeldIn(Entered) + 0
      BY <2>2, <2>3, HeldType
    <3> QED BY <2>1, <2>3, <3>1, CallCounts DEF collector
  <2>5. ASSUME Collects PROVE Cap <= Len(vlog') + Len(li_vlog')
    <3>1. ~faulty /\ MustCollect(Entered)
      BY <2>1, <2>5 DEF Collects
    <3>2. Cap <= Len(Entered.vlog) + Len(Entered.li_vlog)
      BY <2>1, <3>1, FullLogs
    <3>3. vlog' = Entered.vlog /\ li_vlog' = Entered.li_vlog
      BY <2>3 DEF Leaves
    <3> QED BY <3>2, <3>3
  <2> QED BY <2>4, <2>5
<1>5. CASE CountRead \/ CountWrite \/ UNCHANGED vars
  <2>1. /\ Held' = Held /\ Writing' = Writing
        /\ started' = started /\ status' = status /\ gc_pc' = gc_pc /\ gc_reg' = gc_reg
    BY <1>5 DEF CountRead, CountWrite, vars, files, collector, Held, Base, Writing
  <2>2. ~Collects
    BY <2>1 DEF Collects
  <2> HIDE DEF Held, Writing
  <2>3. CASE CountRead
    <3>1. /\ Pending = 1 /\ Pending' = 1 /\ reg' = total_num /\ total_num' = total_num
      BY <2>3 DEF CountRead, Pending
    <3> QED BY <1>1, <1>2, <2>1, <2>2, <3>1 DEF CountInv, CountBound, NotWrapped
  <2>4. CASE CountWrite
    <3>1. /\ Pending = 1 /\ Pending' = 0 /\ total_num' = reg + 1 /\ reg' = 0
          /\ pc = "store" /\ pc' = "idle"
      BY <2>4 DEF CountWrite, Pending
    <3> QED BY <1>1, <1>2, <2>1, <2>2, <3>1 DEF CountInv, CountBound, NotWrapped
  <2>5. CASE UNCHANGED vars
    <3>1. /\ Pending' = Pending /\ reg' = reg /\ total_num' = total_num /\ pc' = pc
      BY <2>5 DEF vars, client, Pending
    <3> QED BY <1>2, <2>1, <2>2, <3>1 DEF CountInv, CountBound, NotWrapped
  <2> QED BY <1>5, <2>3, <2>4, <2>5
<1>6. CASE Collector
  <2>1. /\ Pending' = Pending /\ pc' = pc /\ reg' = reg
        /\ started' = started /\ status' = status
        /\ Base' = Base /\ new_vlog' = new_vlog
    BY <1>6 DEF Collector, GcRead, GcWrite, GcCount, GcFinish, files, client, Pending, Base
  <2>2. ~Collects
    BY <2>1 DEF Collects
  <2>3. CASE GcRead \/ GcFinish
    <3>1. /\ Writing = 0 /\ Writing' = 0 /\ total_num' = total_num
          /\ new_li_vlog' = new_li_vlog /\ gc_pc' # "store"
      BY <2>3 DEF GcRead, GcFinish, Writing, files
    <3>2. Held' = Held
      BY <2>1, <3>1 DEF Held
    <3> HIDE DEF Held, Writing, Pending
    <3> QED BY <1>2, <2>1, <2>2, <3>1, <3>2 DEF CountInv, CountBound, NotWrapped
  <2>4. CASE GcWrite
    <3>1. /\ Writing = 0 /\ Writing' = 1 /\ total_num' = total_num
          /\ gc_reg' = total_num
          /\ new_li_vlog' = Append(new_li_vlog, Head(gc_left)) /\ gc_left # << >>
      BY <2>4 DEF GcWrite, Writing
    <3>2. Len(new_li_vlog') = Len(new_li_vlog) + 1
      <4> DEFINE R == [key : Keys, val : Values]
      <4>1. new_li_vlog \in Seq(R) /\ gc_left \in Seq(R)
        BY DEF Inv, TypeOK, Records
      <4> HIDE DEF R
      <4> QED BY <3>1, <4>1
    <3>3. Held' = Held + 1
      <4>1. Held' = Base + (Len(new_vlog) + (Len(new_li_vlog) + 1))
        BY <2>1, <3>2 DEF Held
      <4> QED BY <1>1, <4>1 DEF Held
    <3> HIDE DEF Held, Writing, Pending
    <3> QED BY <1>1, <1>2, <2>1, <2>2, <3>1, <3>3 DEF CountInv, CountBound, NotWrapped
  <2>5. CASE GcCount
    <3>1. /\ Writing = 1 /\ Writing' = 0 /\ total_num' = gc_reg + 1
          /\ new_li_vlog' = new_li_vlog /\ gc_pc = "store" /\ gc_pc' = "write"
      BY <2>5 DEF GcCount, Writing, files
    <3>2. Held' = Held /\ started
      BY <2>1, <3>1 DEF Held, Inv, Phases
    <3> HIDE DEF Held, Writing, Pending
    <3> QED BY <1>1, <1>2, <2>1, <2>2, <3>1, <3>2 DEF CountInv, CountBound, NotWrapped
  <2> QED BY <1>6, <2>3, <2>4, <2>5 DEF Collector
<1> QED BY <1>3, <1>4, <1>5, <1>6 DEF Next, Client

-----------------------------------------------------------------------------
(***************************************************************************)
(* The theorems.                                                           *)
(***************************************************************************)
\* The inductive invariant holds in every state.
THEOREM Invariance == Spec => []Inv
<1>1. Init => Inv
  <2> SUFFICES ASSUME Init PROVE Inv
    OBVIOUS
  <2>1. EmptyDb \in Ptrs /\ NoFile \in Records /\ NoFile \in Seq(Keys) /\ Len(NoFile) = 0
    BY DEF EmptyDb, Ptrs, NoFile, Records, NoPtr
  <2>2. gc_left \in Records /\ latest \in [Keys -> Values \cup {NotFound}]
    BY DEF Init, Records
  <2>3. TypeOK
    <3>1. faulty \in BOOLEAN
      BY Zenon DEF Init
    <3>2. total_num >= 0 /\ total_num \in Int /\ reg \in Int /\ gc_reg \in Int
      BY DEF Init
    <3> QED BY <2>1, <2>2, <3>1, <3>2 DEF Init, TypeOK, Ptrs
  <2>4. CountExact /\ CountSafe /\ CopiesNatural /\ Phases /\ NoIndexYet /\ IndexNeverRead
    BY <2>1 DEF Init, CountExact, CountSafe, CopiesNatural, Phases, NoIndexYet, IndexNeverRead
  <2>5. NewPointers
    BY DEF Init, NewPointers, PointToLast, EmptyDb
  <2> QED BY <2>3, <2>4, <2>5 DEF Inv
<1>2. Inv /\ [Next]_vars => Inv'
  BY NextInv
<1> QED BY <1>1, <1>2, PTL DEF Spec

\* Type correctness: unless a put failed, the unsigned total_num never wraps when
\* a call takes over.
THEOREM TypeCorrect == Spec => []TypeOK
<1>1. Inv => TypeOK
  BY DEF Inv
<1> QED BY <1>1, Invariance, PTL

\* However the increments of the two threads overlap, during a collection
\* total_num is at least what taking over subtracts from it, unless a put failed.
THEOREM SubtractionCorrect == Spec => []SubtractionSafe
<1>1. Inv => SubtractionSafe
  BY DEF Inv, CountSafe, Base, SubtractionSafe
<1> QED BY <1>1, Invariance, PTL

\* A key put during a collection reads back its last value, unless a put failed.
THEOREM CollectionReadsCorrect == Spec => []ReadsDuringCollection
<1>1. Inv => ReadsDuringCollection
  <2> SUFFICES ASSUME Inv, gc_in_progress, ~faulty, NEW k \in Keys, new_db[k] # NoPtr
               PROVE  GetOutcomes(Untouched, k) = {latest[k]}
    BY DEF ReadsDuringCollection
  <2>1. new_db[k] < Len(new_vlog) /\ new_vlog[new_db[k] + 1].val = latest[k]
    BY DEF Inv, NewPointers, PointToLast
  <2>2. /\ Untouched.gc_in_progress = gc_in_progress
        /\ Untouched.new_db = new_db /\ Untouched.new_vlog = new_vlog
    BY DEF Untouched
  <2>3. Position(Untouched, k) = new_db[k]
    BY <2>2 DEF Position
  <2>4. ReadIn(new_vlog, new_db[k]) = latest[k]
    BY <2>1 DEF ReadIn
  <2> HIDE DEF Inv
  <2> QED BY <2>2, <2>3, <2>4 DEF GetOutcomes
<1> QED BY <1>1, Invariance, PTL

\* The learned index of this variant is never read.
THEOREM IndexUnused == Spec => []IndexNeverRead
<1>1. Inv => IndexNeverRead
  BY DEF Inv
<1> QED BY <1>1, Invariance, PTL

\* The invariant of the logs and of the collector's progress holds in every state.
THEOREM LogsInvariance == Spec => []LogInv
<1>1. Init => LogInv
  <2> SUFFICES ASSUME Init PROVE LogInv
    OBVIOUS
  <2>1. NoFile \in Records /\ LogKeys(NoFile) = {}
    BY DEF NoFile, Records, LogKeys
  <2>2. AllLogs = NoFile
    <3>1. AllLogs = (NoFile \o NoFile) \o NoFile
      BY DEF AllLogs, Init
    <3> QED BY <2>1, <3>1, EmptyPart
  <2>3. NewestIsLatest
    BY <2>1, <2>2 DEF NewestIsLatest
  <2>4. CollectorProgress
    BY DEF Init, CollectorProgress
  <2> QED BY <2>3, <2>4 DEF LogInv
<1>2. Inv /\ LogInv /\ [Next]_vars => LogInv'
  BY NextLogs
<1> QED BY <1>1, <1>2, Invariance, PTL DEF Spec

\* However the collector and the client interleave, the newest record of a key is
\* the last value put for it.
THEOREM NewestCorrect == Spec => []NewestIsLatest
<1>1. LogInv => NewestIsLatest
  BY DEF LogInv
<1> QED BY <1>1, LogsInvariance, PTL

\* A key loses its records only when a call takes over, and then only the largest
\* key of the collected logs does.
THEOREM KeyLoss == Spec => TakeOverKeepsKeys
<1> DEFINE Keeps == \A k \in LogKeys(AllLogs) :
                      \/ k \in LogKeys(AllLogs')
                      \/ gc_done /\ \A m \in LogKeys(li_vlog \o vlog) : m <= k
<1>1. Inv /\ LogInv /\ [Next]_vars => [Keeps]_vars
  BY NextLogs DEF Kept
<1> QED BY <1>1, Invariance, LogsInvariance, PTL DEF Spec, TakeOverKeepsKeys

\* While a collection is under way and the program runs, the collector is at one
\* of its steps and finds something to write: the collector always can go on.
THEOREM CollectorNotStuck ==
    Spec => [](gc_in_progress /\ ~gc_done /\ status = "running" =>
                    gc_pc # "none" /\ Collected # {})
<1>1. Init => CollectorAlive
  BY DEF Init, CollectorAlive
<1>2. Inv /\ CollectorAlive /\ [Next]_vars => CollectorAlive'
  BY AliveStep
<1>3. Inv /\ CollectorAlive =>
        (gc_in_progress /\ ~gc_done /\ status = "running" =>
            gc_pc # "none" /\ Collected # {})
  BY CollectedFits DEF Inv, CollectorAlive
<1> QED BY <1>1, <1>2, <1>3, Invariance, PTL DEF Spec

\* A collection takes at most two steps for each record of the old logs and two
\* more: each step of the collector lowers Work, and whatever the client does
\* meanwhile leaves it as it is.
THEOREM CollectionBounded ==
    Spec => [][gc_pc # "none" =>
                 /\ Work \in Nat
                 /\ (Collector /\ Work' < Work) \/ (UNCHANGED collector /\ Work' = Work)]_vars
<1> DEFINE Bounded == gc_pc # "none" =>
             /\ Work \in Nat
             /\ (Collector /\ Work' < Work) \/ (UNCHANGED collector /\ Work' = Work)
<1>1. Inv /\ [Next]_vars => [Bounded]_vars
  BY WorkStep
<1> QED BY <1>1, Invariance, PTL DEF Spec

\* The two unsynchronised increments lose records, but never count one twice.
THEOREM CountsInvariance == Spec => []CountInv
<1>1. Init => CountInv
  <2> SUFFICES ASSUME Init PROVE CountInv
    OBVIOUS
  <2>1. Len(NoFile) = 0
    BY DEF NoFile
  <2>2. Held = 0 /\ Pending = 0 /\ Writing = 0
    BY <2>1 DEF Init, Held, Base, Pending, Writing
  <2> QED BY <2>2 DEF Init, CountInv, CountBound, NotWrapped
<1>2. Inv /\ LogInv /\ CountInv /\ [Next]_vars => CountInv'
  BY NextCounts
<1> QED BY <1>1, <1>2, Invariance, LogsInvariance, PTL DEF Spec

\* total_num is never ahead of the records in the logs: increments that overlap
\* can only get lost.  A negative number stands for a counter that wrapped, for
\* which a put must have failed.
THEOREM CounterNeverAhead ==
    Spec => [](total_num <= Held /\ (~faulty => total_num \in 0..Held))
<1>1. Inv /\ CountInv => total_num <= Held /\ (~faulty => total_num \in 0..Held)
  <2> SUFFICES ASSUME Inv, CountInv
               PROVE  total_num <= Held /\ (~faulty => total_num \in 0..Held)
    OBVIOUS
  <2>1. Held \in Nat /\ total_num \in Int /\ (~faulty => total_num >= 0)
    BY DEF Inv, TypeOK, Records, Held, Base
  <2>2. Pending \in {0, 1} /\ Writing \in {0, 1} /\ total_num + Pending + Writing <= Held
    BY DEF CountInv, CountBound, Pending, Writing
  <2> HIDE DEF Held, Pending, Writing
  <2>3. total_num <= Held
    BY <2>1, <2>2
  <2> QED BY <2>1, <2>3
<1> QED BY <1>1, Invariance, CountsInvariance, PTL

\* A collection starts, or ends the program, only when the logs it would collect
\* hold Cap records: lost and late increments never make put collect early.  Only
\* a wrapped counter does, and for that a put must have failed.
THEOREM CollectsOnlyFull ==
    Spec => [][Collects => Cap <= Len(vlog') + Len(li_vlog')]_vars
<1> DEFINE Full == Collects => Cap <= Len(vlog') + Len(li_vlog')
<1>1. Inv /\ LogInv /\ CountInv /\ [Next]_vars => [Full]_vars
  BY NextCounts
<1> QED BY <1>1, Invariance, LogsInvariance, CountsInvariance, PTL DEF Spec
=============================================================================
