-------------------------------- MODULE Scan --------------------------------
(***************************************************************************)
(* scan of learnedKV.h over the store of LearnedKV: the entries of the     *)
(* range found through the database (kvs_lsm) and, when the learned index  *)
(* is used, the records of the log between two positions found through     *)
(* model and key array (kvs_learned) are merged into kvs.  The store does  *)
(* not change during a scan; its loops over the log and over the two lists *)
(* take one step per iteration.                                            *)
(***************************************************************************)
EXTENDS LearnedKV

CONSTANTS
    Starts,         \* the values of startKey clients ask for
    Ranges,         \* the values of scanRange clients ask for
    MaxKey,         \* ULLONG_MAX
    ByteValues,     \* values of a byte: 256
    WordBytes,      \* bytes of an unsigned long long: 8
    RecordSize,     \* keySize + valueSize: 1024
    MaxBlanks       \* bound on the entries read behind the end of the log

ASSUME MaxKeyAssumption == MaxKey \in Nat /\ Keys \subseteq 0..MaxKey
ASSUME RangesAssumption == Starts \subseteq 0..MaxKey /\ Ranges \subseteq 0..MaxKey
ASSUME WidthAssumption ==
    /\ ByteValues \in Nat \ {0, 1} /\ WordBytes \in Nat \ {0} /\ RecordSize \in Nat \ {0}
    /\ ByteValues ^ WordBytes % RecordSize = 0
ASSUME MaxBlanksAssumption == MaxBlanks \in Nat

VARIABLES
    pc,             \* "idle", "lsm", "learned", "read", "merge" or "done"
    first,          \* startKey
    end_key,        \* end_key_ull
    kvs_lsm,
    kvs_learned,
    read_pos,       \* ftell(vlog), in records
    end_pos,        \* end_key_pos, in records
    lsm_it,         \* entries of kvs_lsm already merged
    learned_it,     \* entries of kvs_learned already merged
    kvs             \* the result

parts == << kvs_lsm, kvs_learned >>
positions == << read_pos, end_pos >>
merged == << lsm_it, learned_it, kvs >>
scanVars == << pc, first, end_key, parts, positions, merged >>
allVars == << vars, scanVars >>

ScanInit ==
    /\ Init
    /\ pc = "idle"
    /\ first = 0 /\ end_key = 0
    /\ kvs_lsm = << >> /\ kvs_learned = << >>
    /\ read_pos = 0 /\ end_pos = 0
    /\ lsm_it = 0 /\ learned_it = 0 /\ kvs = << >>
-----------------------------------------------------------------------------
(***************************************************************************)
(* Part 1a: the entries of the database.                                   *)
(***************************************************************************)
Mangled == "mangled"    \* bytes of a key and a value read as a value
KeyZero == 0            \* what key_ull holds when nothing was read

\* The big-endian bytes of a pointer copied into a little-endian integer
ByteSwapped(p) ==
    LET read[i \in 0..WordBytes] ==
            IF i = 0 THEN 0
            ELSE read[i - 1] * ByteValues + ((p \div ByteValues ^ (i - 1)) % ByteValues)
    IN  read[WordBytes]

\* pos * (keySize + valueSize) wraps around.
Addressable == ByteValues ^ WordBytes \div RecordSize
SeekPosition(p) == ByteSwapped(p) % Addressable

\* Mutant of ScanValue: a position fseek refuses gives the return code of get.
ScanValueNotFound(p) ==
    IF 2 * SeekPosition(p) >= Addressable THEN NotFound ELSE ReadAt(SeekPosition(p))

\* The upper half of the positions is negative for fseek, which then leaves the
\* file at its start; behind the end of the log the value stays blank.
ScanValue(p) ==
    IF 2 * SeekPosition(p) >= Addressable THEN Mangled ELSE ReadAt(SeekPosition(p))

InRange(k) == first <= k /\ k < end_key

EndKey(start, range) == IF start > MaxKey - range THEN MaxKey ELSE start + range

BeginScan(start, range) ==
    /\ status = "running" /\ pc = "idle"
    /\ pc' = "lsm"
    /\ first' = start
    /\ end_key' = EndKey(start, range)
    /\ reply' = Ok
    /\ UNCHANGED << store, status, latest, stale, faulty, gc_len, parts, positions, merged >>

\* Without the learned index this is the result.
ScanLsm ==
    /\ pc = "lsm"
    /\ \E s \in SortedSeqs({k \in Keys : db[k] # NoPtr /\ InRange(k)}) :
        LET found == [j \in DOMAIN s |-> [key |-> s[j], val |-> ScanValue(db[s[j]])]]
        IN  /\ kvs_lsm' = found
            /\ kvs' = IF LearnedIndexUsed THEN kvs ELSE found
    /\ pc' = IF LearnedIndexUsed THEN "learned" ELSE "done"
    /\ UNCHANGED << vars, first, end_key, kvs_learned, positions, lsm_it, learned_it >>

\* The iterator reports an error: the call returns -1 and nothing else.
ScanFails ==
    /\ pc = "lsm"
    /\ pc' = "done"
    /\ reply' = Failed
    /\ UNCHANGED << store, status, latest, stale, faulty, gc_len, first, end_key, parts,
                    positions, merged >>
-----------------------------------------------------------------------------
(***************************************************************************)
(* Part 1b: the records of the log between two positions.                  *)
(***************************************************************************)
\* The entries behind the end of the key array are uninitialised memory, at which
\* either search may stop; a search without a hit stops behind the window.
Misled(pos) == {p \in Window(pos) : p >= Len(key_array_file)} \cup {pos + ErrBound}

\* The entry of the window around pos that is the start of the range
StartPositions(pos, k) ==
    IF \E p \in Window(pos) : p < Len(key_array_file) /\ key_array_file[p + 1] = k
    THEN {p \in Window(pos) : p < Len(key_array_file) /\ key_array_file[p + 1] = k}
    ELSE Misled(pos)

\* Mutant of EndPositions: the search goes on to the first larger key.
EndPositionsAfter(pos, k) ==
    IF \E p \in Window(pos) : p < Len(key_array_file) /\ key_array_file[p + 1] > k
    THEN {p \in Window(pos) :
            /\ p < Len(key_array_file) /\ key_array_file[p + 1] > k
            /\ \A q \in WindowStart(pos)..(p - 1) : key_array_file[q + 1] <= k}
    ELSE Misled(pos)

\* The first entry of the window that is not below the end of the range
EndPositions(pos, k) ==
    IF \E p \in Window(pos) : p < Len(key_array_file) /\ key_array_file[p + 1] >= k
    THEN {p \in Window(pos) :
            /\ p < Len(key_array_file) /\ key_array_file[p + 1] >= k
            /\ \A q \in WindowStart(pos)..(p - 1) : key_array_file[q + 1] < k}
    ELSE Misled(pos)

\* query_model for both ends of the range; at least one record is read.
FindPositions ==
    /\ pc = "learned" /\ key_array_file # NoFile
    /\ \E p \in {Predicted(first)}, q \in {Predicted(end_key)} :
        \E s \in StartPositions(p, first), e \in EndPositions(q, end_key) :
            /\ read_pos' = s
            /\ end_pos' = IF e = s THEN e + 1 ELSE e
    /\ pc' = "read"
    /\ UNCHANGED << vars, first, end_key, parts, merged >>

\* Without a key array file scan reads through a null FILE pointer.
ScanCrashes ==
    /\ pc = "learned" /\ key_array_file = NoFile
    /\ status' = "crashed"
    /\ pc' = "done"
    /\ UNCHANGED << store, reply, latest, stale, faulty, gc_len, first, end_key, parts,
                    positions, merged >>

ReadRecord ==
    /\ pc = "read" /\ read_pos < end_pos /\ read_pos < Len(vlog)
    /\ kvs_learned' = Append(kvs_learned, vlog[read_pos + 1])
    /\ read_pos' = read_pos + 1
    /\ UNCHANGED << vars, pc, first, end_key, kvs_lsm, end_pos, merged >>

\* Behind the end of the log the file position stays and the loop never ends;
\* the list it fills is cut off at MaxBlanks entries.
ReadNothing ==
    /\ pc = "read" /\ read_pos < end_pos /\ read_pos >= Len(vlog)
    /\ kvs_learned' = IF Len(kvs_learned) < Len(vlog) + MaxBlanks
                      THEN Append(kvs_learned, [key |-> KeyZero, val |-> Blank])
                      ELSE kvs_learned
    /\ UNCHANGED << vars, pc, first, end_key, kvs_lsm, positions, merged >>

ReadEnds ==
    /\ pc = "read" /\ read_pos >= end_pos
    /\ pc' = "merge"
    /\ UNCHANGED << vars, first, end_key, parts, positions, merged >>
-----------------------------------------------------------------------------
(***************************************************************************)
(* Part 2: mergeKeyValueVectors.                                           *)
(***************************************************************************)
Lsm == kvs_lsm[lsm_it + 1]
Learned == kvs_learned[learned_it + 1]
BothLeft == lsm_it < Len(kvs_lsm) /\ learned_it < Len(kvs_learned)

\* Mutant of MergeStep: a key in both lists is taken from the learned index.
MergeStepPreferringLearned ==
    /\ pc = "merge" /\ BothLeft
    /\ kvs' = Append(kvs, IF Lsm.key < Learned.key THEN Lsm ELSE Learned)
    /\ lsm_it' = IF Lsm.key <= Learned.key THEN lsm_it + 1 ELSE lsm_it
    /\ learned_it' = IF Learned.key <= Lsm.key THEN learned_it + 1 ELSE learned_it
    /\ UNCHANGED << vars, pc, first, end_key, parts, positions >>

\* Mutant of MergeStep: a key in both lists is passed in one of them only.
MergeStepKeepingBoth ==
    /\ pc = "merge" /\ BothLeft
    /\ kvs' = Append(kvs, IF Lsm.key <= Learned.key THEN Lsm ELSE Learned)
    /\ lsm_it' = IF Lsm.key <= Learned.key THEN lsm_it + 1 ELSE lsm_it
    /\ learned_it' = IF Learned.key < Lsm.key THEN learned_it + 1 ELSE learned_it
    /\ UNCHANGED << vars, pc, first, end_key, parts, positions >>

\* Mutant of MergeStep: nothing is done about a key in both lists.
MergeStepSkippingEqual ==
    /\ pc = "merge" /\ BothLeft
    /\ kvs' = IF Lsm.key = Learned.key THEN kvs
              ELSE Append(kvs, IF Lsm.key < Learned.key THEN Lsm ELSE Learned)
    /\ lsm_it' = IF Lsm.key < Learned.key THEN lsm_it + 1 ELSE lsm_it
    /\ learned_it' = IF Learned.key < Lsm.key THEN learned_it + 1 ELSE learned_it
    /\ UNCHANGED << vars, pc, first, end_key, parts, positions >>

\* The smaller key goes first; of equal keys the entry of the database is taken
\* and both are passed.
MergeStep ==
    /\ pc = "merge" /\ BothLeft
    /\ kvs' = Append(kvs, IF Lsm.key <= Learned.key THEN Lsm ELSE Learned)
    /\ lsm_it' = IF Lsm.key <= Learned.key THEN lsm_it + 1 ELSE lsm_it
    /\ learned_it' = IF Learned.key <= Lsm.key THEN learned_it + 1 ELSE learned_it
    /\ UNCHANGED << vars, pc, first, end_key, parts, positions >>

\* One of the rests is empty.
MergeRest ==
    /\ pc = "merge" /\ ~BothLeft
    /\ kvs' = kvs \o SubSeq(kvs_lsm, lsm_it + 1, Len(kvs_lsm))
                  \o SubSeq(kvs_learned, learned_it + 1, Len(kvs_learned))
    /\ pc' = "done"
    /\ UNCHANGED << vars, first, end_key, parts, positions, lsm_it, learned_it >>

\* The call has returned and its vectors are gone.
EndScan ==
    /\ pc = "done"
    /\ pc' = "idle"
    /\ first' = 0 /\ end_key' = 0
    /\ kvs_lsm' = << >> /\ kvs_learned' = << >>
    /\ read_pos' = 0 /\ end_pos' = 0
    /\ lsm_it' = 0 /\ learned_it' = 0 /\ kvs' = << >>
    /\ UNCHANGED vars

ScanStep ==
    /\ pc # "idle"
    /\ \/ ScanLsm \/ ScanFails \/ FindPositions \/ ScanCrashes
       \/ ReadRecord \/ ReadNothing \/ ReadEnds \/ MergeStep \/ MergeRest \/ EndScan

ScanNext ==
    \/ pc = "idle" /\ Next /\ UNCHANGED scanVars
    \/ \E start \in Starts, range \in Ranges : BeginScan(start, range)
    \/ ScanStep

\* The thread that called scan keeps running.
ScanSpec == ScanInit /\ [][ScanNext]_allVars /\ WF_scanVars(ScanStep)
-----------------------------------------------------------------------------
(***************************************************************************)
(* Properties.                                                             *)
(***************************************************************************)
Entry == [key : Keys \cup {KeyZero}, val : Values \cup {Blank, Mangled}]

\* Type invariant of a scan's variables.
ScanTypeOK ==
    /\ pc \in {"idle", "lsm", "learned", "read", "merge", "done"}
    /\ first \in 0..MaxKey /\ end_key \in 0..MaxKey
    /\ kvs_lsm \in Seq(Entry) /\ kvs_learned \in Seq(Entry) /\ kvs \in Seq(Entry)
    /\ read_pos \in Nat /\ end_pos \in Nat
    /\ lsm_it \in 0..Len(kvs_lsm) /\ learned_it \in 0..Len(kvs_learned)

Ascending(s) == \A i, j \in DOMAIN s : i < j => s[i].key < s[j].key
Entries(s) == {s[i] : i \in DOMAIN s}
EntryKeys(s) == {s[i].key : i \in DOMAIN s}

\* The learned index is not used, or it holds the keys at both ends of the range.
Interior ==
    LearnedIndexUsed =>
        /\ gc_len >= 2
        /\ first < end_key
        /\ {first, end_key} \subseteq {vlog[j].key : j \in 1..gc_len}

\* A scan that succeeded is about to return kvs.
Returned == pc = "done" /\ Healthy /\ reply = Ok

\* The merge gives ascending keys without duplicates, whatever the overlap of
\* the two lists.
MergedAscending ==
    Ascending(kvs_lsm) /\ Ascending(kvs_learned) => Ascending(kvs)

\* A scan returns exactly the keys of its range that have a record, in order and
\* once each, although an overwritten key is in the database and at its old
\* position in the part of the log the learned index covers.
ScanKeysExact ==
    Returned /\ Interior =>
        /\ EntryKeys(kvs) = {k \in LogKeys(vlog) : InRange(k)}
        /\ Ascending(kvs)

\* A key that only the learned index knows comes with its last value; a key of
\* the database comes as the database part found it, never with the older value
\* at its position in the learned part.
ScanPrefersDatabase ==
    Returned /\ Interior =>
        \A e \in Entries(kvs) :
            IF db[e.key] = NoPtr THEN e.val = latest[e.key] ELSE e.val = ScanValue(db[e.key])

\* A scan without the learned index, or between keys it holds, returns.
ScanReturns == pc = "lsm" /\ Healthy /\ Interior ~> pc = "idle"

=============================================================================
