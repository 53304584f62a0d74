------------------------------ MODULE LearnedKV ------------------------------
(***************************************************************************)
(* The key-value store of learnedKV.h and, with PositionChecked, of        *)
(* learnedKV_leveldb_new.h.  Values live in an append-only log (vlog); the *)
(* position of a key's last record is found through a RocksDB or LevelDB   *)
(* index (db) guarded by a Bloom filter or, for records the last garbage   *)
(* collection wrote while the learned index is used, through the model     *)
(* file and the key array file.  put, get and garbage_collection are       *)
(* single-threaded calls, so each is one action; what can fail inside them *)
(* is a choice over Faults, and so is whether the process may be killed,   *)
(* or exit, and be started again on the files it left.                     *)
(*                                                                         *)
(* Record positions in db and write_pos are 0-based as in the code, the    *)
(* sequences that stand for files are 1-based.                             *)
(***************************************************************************)
EXTENDS PiecewiseLinear, BloomFilter, ValueLog

CONSTANTS
    Keys,               \* the keys clients use
    Values,             \* the values clients put
    Cap,                \* records that fit into group_size bytes
    LearnedIndexUsed,   \* learned_index_used
    PositionChecked,    \* put asserts where the log ends (LevelDB variant)
    Faults,             \* the calls that may fail, see FaultKinds
    MaxLog              \* bound on the records in vlog when puts fail or
                        \* the process ends and is started again

\* db->Put in put; DestroyDB, DB::Open and db->Write in garbage_collection;
\* fopen of the model file and of the key array file in the builder; and the
\* process is killed ("restart"), or exits, and is started again.
FaultKinds ==
    {"put", "destroy", "open", "write", "model", "key_array", "restart", "exit"}

ASSUME KeysAssumption == Keys \subseteq Nat /\ IsFiniteSet(Keys)
ASSUME CapAssumption == Cap \in Nat \ {0}
ASSUME ModeAssumption == LearnedIndexUsed \in BOOLEAN /\ PositionChecked \in BOOLEAN
ASSUME FaultsAssumption == Faults \subseteq FaultKinds
ASSUME MaxLogAssumption == MaxLog \in Nat
ASSUME MaxIntCovers == Cap + ErrBound <= MaxInt

VARIABLES
    vlog,               \* records [key, val] of the file db/vlog
    db,                 \* key -> position of its record, or NoPtr
    write_pos,          \* number of records put counts in vlog
    filter,             \* bits of the Bloom filter that are 1
    model_file,         \* the keys the model on disk was built from, or NoFile
    key_array_file,     \* the key array on disk, or NoFile
    unflushed,          \* records still in the buffer of a stream on db/vlog
                        \* that a failed collection left open
    status,             \* "running", "aborted" (assert) or "crashed"
    reply,              \* what the last call returned
    latest,             \* history: last value put for a key, or NotFound
    stale,              \* history: keys whose last put was overtaken by an older
                        \* record, flushed at exit, and not put since
    faulty,             \* history: a call failed, or the process ended, since
                        \* the last complete GC
    gc_len              \* history: records written by the last GC

store == << vlog, db, write_pos, filter, model_file, key_array_file, unflushed >>
vars == << store, status, reply, latest, stale, faulty, gc_len >>

NoPtr == -1
NoFile == << >>         \* a key array is never written empty
NotFound == "not found" \* get returns -1
Blank == "blank"        \* get returns 0, the caller's buffer was not filled
Ok == "ok"              \* put returns 0
Failed == "failed"      \* put returns -1

\* Values are byte strings, "not found" is a return code.
ASSUME ValuesAssumption == NotFound \notin Values

EmptyDb == [k \in Keys |-> NoPtr]

\* The constructor on a clean directory: initialize_rocksdb also clears the
\* filter, whose own constructor leaves stray bits set.
Init ==
    /\ vlog = << >>
    /\ db = EmptyDb
    /\ write_pos = 0
    /\ filter = {}
    /\ model_file = NoFile
    /\ key_array_file = NoFile
    /\ unflushed = << >>
    /\ status = "running"
    /\ reply = Ok
    /\ latest = [k \in Keys |-> NotFound]
    /\ stale = {}
    /\ faulty = FALSE
    /\ gc_len = 0
-----------------------------------------------------------------------------
(***************************************************************************)
(* garbage_collection.                                                     *)
(***************************************************************************)
\* Mutant of Rewritten: valid_map.insert, which keeps a key's first value.
RewrittenFirstValue(s) ==
    [j \in 1..Len(s) |->
        vlog[CHOOSE m \in DOMAIN vlog :
                vlog[m].key = s[j] /\ \A n \in 1..(m - 1) : vlog[n].key # s[j]]]

\* Mutant of Rewritten: the log is opened for appending.
RewrittenBehind(s) ==
    vlog \o Pairs(vlog, s)

\* The survivors' records in key order, each with its last value
Rewritten(s) == Pairs(vlog, s)

\* Mutant of BatchPut: write_pos is counted up before the pointer is made.
BatchPutAfterCount(index, s) ==
    [k \in Keys |->
        IF \E j \in DOMAIN s : s[j] = k
        THEN CHOOSE j \in DOMAIN s : s[j] = k
        ELSE index[k]]

\* The keys of s put into the index, each with its position in the new log
BatchPut(index, s) ==
    [k \in Keys |->
        IF \E j \in DOMAIN s : s[j] = k
        THEN (CHOOSE j \in DOMAIN s : s[j] = k) - 1
        ELSE index[k]]

\* Mutant of Reopened: the database is reopened without being destroyed.
ReopenedUndestroyed(f) == db

\* destroy_rocksdb: a failed DestroyDB is ignored and the old contents are
\* opened again.
Reopened(f) == IF "destroy" \in f THEN db ELSE EmptyDb

\* initialize_rocksdb: a failed DB::Open skips the reset of the filter.
FilterReset(f) == IF "open" \in f THEN filter ELSE {}

\* The batch write is reached and succeeds.
BatchWritten(f) == f \cap {"open", "write"} = {}

(***************************************************************************)
(* Without the learned index: survivors go to the log, the filter and one  *)
(* batch.  When the batch is not written the function returns without      *)
(* closing the log: only some prefix of it, of m records, is in the file,  *)
(* and the rest stays in the buffer of the open stream.                    *)
(***************************************************************************)
CollectIntoDb(s, f, m) ==
    [vlog |-> IF BatchWritten(f) THEN Rewritten(s) ELSE SubSeq(Rewritten(s), 1, m),
     db |-> IF BatchWritten(f) THEN BatchPut(Reopened(f), s) ELSE Reopened(f),
     write_pos |-> Len(s),
     filter |-> FilterInsertAll(FilterReset(f), {s[j] : j \in DOMAIN s}),
     model_file |-> model_file,
     key_array_file |-> key_array_file,
     unflushed |-> IF BatchWritten(f) THEN << >> ELSE SubSeq(Rewritten(s), m + 1, Len(s)),
     opened |-> "open" \notin f,
     faulty |-> f # {},
     gc_len |-> Len(s)]

\* build_piecewise_linear_regression gives up on fewer than two keys, and when
\* the model file cannot be opened it does not write the key array either.
ModelWritten(s, f) == Len(s) >= 2 /\ "model" \notin f

\* Mutant of KeyArrayWritten: an existing key array is not replaced.
KeyArrayWrittenOnce(s, f) == ModelWritten(s, f) /\ key_array_file = NoFile

KeyArrayWritten(s, f) == ModelWritten(s, f) /\ "key_array" \notin f

\* With the learned index: survivors go to the log and to the builder.
CollectIntoModel(s, f) ==
    [vlog |-> Rewritten(s),
     db |-> Reopened(f),
     write_pos |-> Len(s),
     filter |-> FilterReset(f),
     model_file |-> IF ModelWritten(s, f) THEN s ELSE model_file,
     key_array_file |-> IF KeyArrayWritten(s, f) THEN s ELSE key_array_file,
     unflushed |-> << >>,
     opened |-> "open" \notin f,
     faulty |-> f # {},
     gc_len |-> Len(s)]

\* The old log is removed, and with it what a stream left open on it may hold.
\* Removing it does not fail.
GarbageCollection ==
    UNION {IF LearnedIndexUsed
           THEN {CollectIntoModel(s, f) :
                    f \in SUBSET (Faults \cap {"destroy", "open", "model", "key_array"})}
           ELSE {CollectIntoDb(s, f, m) :
                    f \in SUBSET (Faults \cap {"destroy", "open", "write"}),
                    m \in 0..Len(s)} :
           s \in SortedSeqs(Survivors(vlog))}
-----------------------------------------------------------------------------
(***************************************************************************)
(* put.  First the store is made ready: as it is when one more record      *)
(* fits, otherwise after a garbage collection.                             *)
(***************************************************************************)
Unchanged ==
    [vlog |-> vlog, db |-> db, write_pos |-> write_pos, filter |-> filter,
     model_file |-> model_file, key_array_file |-> key_array_file,
     unflushed |-> unflushed, opened |-> TRUE, faulty |-> faulty, gc_len |-> gc_len]

\* Mutant of Ready: garbage collection is triggered one record late.
ReadyLate == IF write_pos <= Cap THEN {Unchanged} ELSE GarbageCollection

Ready == IF write_pos + 1 <= Cap THEN {Unchanged} ELSE GarbageCollection

Fits(st) == st.write_pos + 1 <= Cap

\* Mutant of Placed: the record goes wherever the log ends.
PlacedAnywhere(st) == TRUE

\* The LevelDB variant compares the end of the log with write_pos.
Placed(st) == PositionChecked => st.write_pos = Len(st.vlog)

\* What put leaves alone once the store is ready
KeepFiles(st) ==
    /\ model_file' = st.model_file
    /\ key_array_file' = st.key_array_file
    /\ unflushed' = st.unflushed
    /\ gc_len' = st.gc_len

Appended(st, k, v) == Append(st.vlog, [key |-> k, val |-> v])

\* Mutant of PutOk: the key is not added to the filter.
PutOkUnfiltered(st, k, v) ==
    /\ st.opened /\ Fits(st) /\ Placed(st)
    /\ vlog' = Appended(st, k, v)
    /\ db' = [st.db EXCEPT ![k] = st.write_pos]
    /\ write_pos' = st.write_pos + 1
    /\ filter' = st.filter
    /\ KeepFiles(st)
    /\ faulty' = st.faulty
    /\ reply' = Ok
    /\ latest' = [latest EXCEPT ![k] = v]
    /\ stale' = stale \ {k}
    /\ UNCHANGED status

PutOk(st, k, v) ==
    /\ st.opened /\ Fits(st) /\ Placed(st)
    /\ vlog' = Appended(st, k, v)
    /\ db' = [st.db EXCEPT ![k] = st.write_pos]
    /\ write_pos' = st.write_pos + 1
    /\ filter' = FilterInsert(st.filter, k)
    /\ KeepFiles(st)
    /\ faulty' = st.faulty
    /\ reply' = Ok
    /\ latest' = [latest EXCEPT ![k] = v]
    /\ stale' = stale \ {k}
    /\ UNCHANGED status

\* db->Put fails: the record stays in the log but is not counted.
PutFails(st, k, v) ==
    /\ "put" \in Faults
    /\ st.opened /\ Fits(st) /\ Placed(st)
    /\ Len(st.vlog) < MaxLog
    /\ vlog' = Appended(st, k, v)
    /\ db' = st.db
    /\ write_pos' = st.write_pos
    /\ filter' = st.filter
    /\ KeepFiles(st)
    /\ faulty' = TRUE
    /\ reply' = Failed
    /\ latest' = [latest EXCEPT ![k] = v]
    /\ stale' = stale \ {k}
    /\ UNCHANGED status

\* The assert after garbage collection fails, or the one on the log's end.
PutAborts(st) ==
    /\ st.opened \/ LearnedIndexUsed
    /\ ~(Fits(st) /\ Placed(st))
    /\ vlog' = st.vlog
    /\ db' = st.db
    /\ write_pos' = st.write_pos
    /\ filter' = st.filter
    /\ KeepFiles(st)
    /\ status' = "aborted"
    /\ faulty' = (faulty \/ st.faulty)
    /\ UNCHANGED << reply, latest, stale >>

\* DB::Open failed and db is null: without the learned index db->Write
\* crashes, with it db->Put does, after the record went to the log.
PutCrashes(st, k, v) ==
    /\ ~st.opened
    /\ LearnedIndexUsed => Fits(st) /\ Placed(st)
    /\ vlog' = IF LearnedIndexUsed THEN Appended(st, k, v) ELSE st.vlog
    /\ db' = st.db
    /\ write_pos' = st.write_pos
    /\ filter' = st.filter
    /\ KeepFiles(st)
    /\ status' = "crashed"
    /\ faulty' = TRUE
    /\ latest' = IF LearnedIndexUsed THEN [latest EXCEPT ![k] = v] ELSE latest
    /\ stale' = IF LearnedIndexUsed THEN stale \ {k} ELSE stale
    /\ UNCHANGED reply

Put ==
    /\ status = "running"
    /\ \E st \in Ready :
        \/ PutAborts(st)
        \/ \E k \in Keys, v \in Values :
            \/ PutOk(st, k, v)
            \/ PutFails(st, k, v)
            \/ PutCrashes(st, k, v)
-----------------------------------------------------------------------------
(***************************************************************************)
(* get.                                                                    *)
(***************************************************************************)
\* Reading the value at a position: past the end of the log nothing is read.
\* A log that a kill left removed is not told apart from an empty one.
ReadAt(p) == IF p \in 0..(Len(vlog) - 1) THEN vlog[p + 1].val ELSE Blank

InIndex(k) == PossiblyContains(filter, k) /\ db[k] # NoPtr

\* query_model: -1 without a model file
Predicted(k) ==
    IF model_file = NoFile THEN -1
    ELSE QueryModel(BuildModel(model_file, [j \in DOMAIN model_file |-> j - 1]), k)

\* Positions of the window at which the key array on disk holds the key
Hits(k) ==
    {p \in Window(Predicted(k)) :
        p < Len(key_array_file) /\ key_array_file[p + 1] = k}

\* Mutant of SearchEnds: without a hit the last entry of the window is read.
SearchEndsInside(k) ==
    IF Hits(k) # {} THEN Hits(k)
    ELSE {p \in Window(Predicted(k)) : p >= Len(key_array_file)}
            \cup {Predicted(k) + ErrBound - 1}

(***************************************************************************)
(* The position the search over the key array ends at.  Entries of the     *)
(* window behind the end of the file are uninitialised memory, where any   *)
(* of them may happen to equal the key; without a hit the position behind  *)
(* the window is read, unchecked.                                          *)
(***************************************************************************)
SearchEnds(k) ==
    IF Hits(k) # {} THEN Hits(k)
    ELSE {p \in Window(Predicted(k)) : p >= Len(key_array_file)}
            \cup {Predicted(k) + ErrBound}

GetOutcomes(k) ==
    IF InIndex(k) THEN {ReadAt(db[k])}
    ELSE IF LearnedIndexUsed THEN {ReadAt(p) : p \in SearchEnds(k)}
    ELSE {NotFound}

\* Without a key array file get reads through a null FILE pointer.
GetCrashes(k) == LearnedIndexUsed /\ ~InIndex(k) /\ key_array_file = NoFile

Get(k) ==
    /\ status = "running"
    /\ IF GetCrashes(k)
       THEN status' = "crashed" /\ UNCHANGED reply
       ELSE reply' \in GetOutcomes(k) /\ UNCHANGED status
    /\ UNCHANGED << store, latest, stale, faulty, gc_len >>

-----------------------------------------------------------------------------
(***************************************************************************)
(* The process ends and is started again, killed or by an exit.  A kill    *)
(* inside put leaves what PutOk or PutFails leaves and needs no case of    *)
(* its own.                                                                *)
(***************************************************************************)
\* How far a collection got with the index: the batch, or the model file and
\* the key array file, are written or not.
IndexStages(s) ==
    IF LearnedIndexUsed
    THEN {CollectIntoModel(s, f) : f \in {{"model"}, {"key_array"}, {}}}
    ELSE {CollectIntoDb(s, f, 0) : f \in {{"write"}, {}}}

(***************************************************************************)
(* The files a killed collection leaves: the old log over an empty         *)
(* database; then, the old log being removed and the new one buffered      *)
(* until it is closed last of all, a prefix of the new log.                *)
(***************************************************************************)
KilledCollection ==
    {[Unchanged EXCEPT !.db = EmptyDb]} \cup
    UNION {{[c EXCEPT !.vlog = SubSeq(Rewritten(s), 1, m)] :
                c \in IndexStages(s), m \in 0..Len(s)} :
           s \in SortedSeqs(Survivors(vlog))}

\* What the process leaves in its files.
Left ==
    {Unchanged} \cup
    (IF status = "running" /\ write_pos + 1 > Cap THEN KilledCollection ELSE {})

\* The constructor on existing files: the database is opened with what it holds
\* and the filter cleared, but the records of the log are not counted.
Constructor ==
    /\ write_pos' = 0
    /\ filter' = {}
    /\ unflushed' = << >>
    /\ status' = "running"
    /\ reply' = Ok
    /\ faulty' = TRUE
    /\ UNCHANGED latest

\* The process is killed: what its streams have buffered is lost.
Restart ==
    /\ "restart" \in Faults
    /\ \E st \in Left :
        /\ Len(st.vlog) <= MaxLog
        /\ vlog' = st.vlog
        /\ db' = st.db
        /\ model_file' = st.model_file
        /\ key_array_file' = st.key_array_file
        /\ gc_len' = st.gc_len
    /\ Constructor
    /\ UNCHANGED stale

\* The keys with a record behind those the last collection flushed
PutSince == {vlog[j].key : j \in {i \in DOMAIN vlog : i > gc_len - Len(unflushed)}}

(***************************************************************************)
(* The process ends with a return from main, an exit or, where abort       *)
(* flushes streams, a failed assert.  The stream a failed collection left  *)
(* open on the log was opened for appending, so the rest of the collection *)
(* comes behind every record put since.                                    *)
(***************************************************************************)
Exit ==
    /\ "exit" \in Faults
    /\ status \in {"running", "aborted"}
    /\ Len(vlog) + Len(unflushed) <= MaxLog
    /\ vlog' = vlog \o unflushed
    /\ stale' = stale \cup (LogKeys(unflushed) \cap PutSince)
    /\ Constructor
    /\ UNCHANGED << db, model_file, key_array_file, gc_len >>

Next == Put \/ (\E k \in Keys : Get(k)) \/ Restart \/ Exit

Spec == Init /\ [][Next]_vars
-----------------------------------------------------------------------------
(***************************************************************************)
(* Properties.                                                             *)
(***************************************************************************)
\* Type invariant of the store and of the history variables.
TypeOK ==
    /\ vlog \in Seq([key : Keys, val : Values])
    /\ db \in [Keys -> Nat \cup {NoPtr}]
    /\ write_pos \in Nat
    /\ filter \subseteq 0..(NumBits - 1)
    /\ model_file \in Seq(Keys)
    /\ key_array_file \in Seq(Keys)
    /\ unflushed \in Seq([key : Keys, val : Values])
    /\ status \in {"running", "aborted", "crashed"}
    /\ reply \in Values \cup {Ok, Failed, NotFound, Blank}
    /\ latest \in [Keys -> Values \cup {NotFound}]
    /\ stale \subseteq Keys
    /\ faulty \in BOOLEAN
    /\ gc_len \in Nat

\* No call failed since the last complete garbage collection.
Healthy == status = "running" /\ ~faulty

\* write_pos, the position the next pointer will name, is the number of records
\* in vlog, and the log never outgrows its group.  A garbage collection after
\* a failed put restores this.
CounterMatchesLog ==
    Healthy => write_pos = Len(vlog) /\ write_pos <= Cap /\ gc_len <= write_pos

\* Even after failed calls, asserts, crashes, kills in the middle of a collection
\* and exits, the last record the log holds for a key is the last one put for it:
\* a collection that loses records loses keys, it does not bring an older value
\* back.  The one exception is a key put after a collection whose batch write
\* failed, when an exit flushed the rest of that collection behind the put.
RecordsAreLatest == \A k \in LogKeys(vlog) \ stale : ValidValue(vlog, k) = latest[k]

\* Every pointer of the index names the last record of its key, across puts,
\* overwrites and the renumbering by garbage collection; and every key with a
\* record behind those of the last collection (without the learned index:
\* every key with a record) has a pointer.
PointersCurrent ==
    Healthy =>
        \A k \in Keys :
            /\ db[k] # NoPtr => k \in LogKeys(vlog) /\ db[k] + 1 = LastIndex(vlog, k)
            /\ k \in LogKeys(vlog) /\ (LearnedIndexUsed => LastIndex(vlog, k) > gc_len)
                    => db[k] # NoPtr

\* The Bloom filter, reset by every collection, never hides a pointer.
FilterCoversIndex ==
    Healthy => \A k \in Keys : db[k] # NoPtr => PossiblyContains(filter, k)

\* The key array and the model describe exactly the records the last garbage
\* collection wrote, if these were at least two, in ascending order.
KeyArrayMatchesLog ==
    Healthy /\ LearnedIndexUsed /\ gc_len >= 2 =>
        /\ Len(key_array_file) = gc_len
        /\ model_file = key_array_file
        /\ \A j \in 1..gc_len : key_array_file[j] = vlog[j].key
        /\ \A j, m \in 1..gc_len : j < m => key_array_file[j] < key_array_file[m]

\* get returns the last record of every key that has one, and so the value last
\* put for it, be it found through the index or through a learned index over at
\* least two keys: never an older value, another key's value or nothing, although
\* get does not compare the key at the position where its search over the key
\* array stops.  For a stale key it returns the older record that overtook the
\* last one.
ReadsReturnLatest ==
    Healthy =>
        \A k \in LogKeys(vlog) :
            (InIndex(k) \/ ~LearnedIndexUsed \/ gc_len >= 2) =>
                /\ GetOutcomes(k) = {ValidValue(vlog, k)}
                /\ k \notin stale => GetOutcomes(k) = {latest[k]}

\* Without the learned index a key that has no record is reported as not found.
AbsentKeysNotFound ==
    Healthy /\ ~LearnedIndexUsed =>
        \A k \in Keys \ LogKeys(vlog) : GetOutcomes(k) = {NotFound}

\* The asserts of put, that one more record fits after garbage collection and, in
\* the LevelDB variant, that the log ends where write_pos says, can only fail
\* after a failed call or after a restart.
AssertOnlyFailsAfterFault == status = "aborted" => faulty

\* A key loses its records only when garbage collection runs, never by a failed
\* call or a restart alone; and a collection in which nothing fails drops only
\* the largest key.
OnlyLargestKeyLost ==
    [][\A k \in LogKeys(vlog) :
        \/ k \in LogKeys(vlog')
        \/ /\ write_pos + 1 > Cap
           /\ ~faulty' => \A m \in LogKeys(vlog) : m <= k]_vars

\* In the LevelDB variant with the learned index, a pointer names a record of its
\* own key whatever failed before, because the assert on the log's end stops put
\* before a record and its pointer can drift apart.
PointersNameOwnRecords ==
    PositionChecked /\ LearnedIndexUsed /\ "destroy" \notin Faults =>
        \A k \in Keys :
            db[k] # NoPtr => db[k] < Len(vlog) /\ vlog[db[k] + 1].key = k

\* The client's view of the store: what a complete index would return.
Contents == [k \in Keys |-> IF k \in LogKeys(vlog) THEN ValidValue(vlog, k) ELSE NotFound]

Abstract == INSTANCE LossyMap WITH dict <- Contents

\* Without the learned index and without failures the store implements the map
\* of LossyMap: log, index, filter and renumbering are invisible to a client,
\* and the only thing garbage collection does to the contents is to drop the
\* largest key.
ImplementsLossyMap == Abstract!Spec

\* garbage_collection collects the valid data: a key that was put keeps a record.
NoKeyLost ==
    status = "running" => \A k \in Keys : latest[k] # NotFound => k \in LogKeys(vlog)
=============================================================================
