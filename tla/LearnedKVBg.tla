----------------------------- MODULE LearnedKVBg -----------------------------
(***************************************************************************)
(* The variant of the store whose garbage collection runs on a thread of   *)
(* its own (learnedKV_bgGC.h).  While the collector reads the old logs and *)
(* writes new_li_vlog, the client goes on with a second log and a second   *)
(* database; the first call after the collector is done takes over: old    *)
(* logs are removed and the new ones renamed.                              *)
(*                                                                         *)
(* The two threads share the flags gc_in_progress and gc_done, which are   *)
(* atomic, and the counter total_num, which is not: each of its increments *)
(* is a read and a later write.  All other steps of a call touch only what *)
(* the other thread leaves alone, and are one action.                      *)
(***************************************************************************)
EXTENDS ValueLog

CONSTANTS
    Keys,               \* the keys clients use
    Values,             \* the values clients put
    Cap,                \* records that fit into group_size bytes
    LearnedIndexUsed,   \* learned_index_used
    Faults,             \* which calls may fail: "put", "open_new", "files"
    MaxNew,             \* bound on the records put during a collection
    MaxLog              \* bound on the length of vlog up to which puts may fail

ASSUME KeysAssumption == Keys \subseteq Nat /\ IsFiniteSet(Keys)
ASSUME CapAssumption == Cap \in Nat \ {0}
ASSUME ModeAssumption == LearnedIndexUsed \in BOOLEAN
ASSUME BoundsAssumption == MaxNew \in Nat \ {0} /\ MaxLog \in Nat

VARIABLES
    vlog, li_vlog,          \* the log puts go to, the log of the last collection
    new_vlog, new_li_vlog,  \* their successors during a collection
    db, new_db,             \* key -> position in vlog, in new_vlog, or NoPtr
    key_array_file, new_key_array_file,
    total_num,              \* decides when to collect; -d stands for 2^64 - d
    gc_in_progress, gc_done,
    started,                \* gc_thread holds a thread: nothing ever joins it
    status,                 \* "running", "terminated" or "crashed"
    pc, reg,                \* client: where it is in a put, its copy of total_num
    gc_pc, gc_reg, gc_left, \* collector: the same, and the pairs not yet written
    reply,                  \* what the last call returned
    latest,                 \* history: last value put for a key, or NotFound
    faulty                  \* history: a put failed

files == << vlog, li_vlog, new_vlog, new_li_vlog, key_array_file, new_key_array_file >>
client == << pc, reg, reply, latest, faulty, db, new_db >>
collector == << gc_pc, gc_reg, gc_left >>
vars == << files, client, collector, total_num, gc_in_progress, gc_done, started, status >>

NoPtr == -1
NoFile == << >>
NotFound == "not found"
Blank == "blank"
Mangled == "mangled"    \* the file was read from its start: bytes of a key and a value
Ok == "ok"
Failed == "failed"

EmptyDb == [k \in Keys |-> NoPtr]

Init ==
    /\ vlog = NoFile /\ li_vlog = NoFile /\ new_vlog = NoFile /\ new_li_vlog = NoFile
    /\ key_array_file = NoFile /\ new_key_array_file = NoFile
    /\ db = EmptyDb /\ new_db = EmptyDb
    /\ total_num = 0
    /\ gc_in_progress = FALSE /\ gc_done = FALSE /\ started = FALSE
    /\ status = "running"
    /\ pc = "idle" /\ reg = 0
    /\ gc_pc = "none" /\ gc_reg = 0 /\ gc_left = << >>
    /\ reply = Ok
    /\ latest = [k \in Keys |-> NotFound]
    /\ faulty = FALSE
-----------------------------------------------------------------------------
(***************************************************************************)
(* A call starts by taking over what a finished collector left.            *)
(***************************************************************************)
Untouched ==
    [vlog |-> vlog, li_vlog |-> li_vlog, new_vlog |-> new_vlog,
     new_li_vlog |-> new_li_vlog, db |-> db, new_db |-> new_db,
     key_array_file |-> key_array_file, new_key_array_file |-> new_key_array_file,
     total_num |-> total_num, gc_in_progress |-> gc_in_progress]

\* Mutant of TakenOver: the two new logs renamed the wrong way round.
TakenOverSwapped ==
    [vlog |-> new_li_vlog, li_vlog |-> new_vlog, new_vlog |-> NoFile,
     new_li_vlog |-> NoFile, db |-> new_db, new_db |-> EmptyDb,
     key_array_file |-> new_key_array_file, new_key_array_file |-> NoFile,
     total_num |-> total_num - Len(vlog) - Len(li_vlog), gc_in_progress |-> FALSE]

\* Mutant of TakenOver: gc_in_progress is not cleared.
TakenOverStillCollecting ==
    [vlog |-> new_vlog, li_vlog |-> new_li_vlog, new_vlog |-> NoFile,
     new_li_vlog |-> NoFile, db |-> new_db, new_db |-> EmptyDb,
     key_array_file |-> new_key_array_file, new_key_array_file |-> NoFile,
     total_num |-> total_num - Len(vlog) - Len(li_vlog), gc_in_progress |-> TRUE]

\* detroy_old_instance.  The old key array is removed also when the collector
\* wrote no new one.
TakenOver ==
    [vlog |-> new_vlog, li_vlog |-> new_li_vlog, new_vlog |-> NoFile,
     new_li_vlog |-> NoFile, db |-> new_db, new_db |-> EmptyDb,
     key_array_file |-> new_key_array_file, new_key_array_file |-> NoFile,
     total_num |-> total_num - Len(vlog) - Len(li_vlog), gc_in_progress |-> FALSE]

Entered == IF gc_done THEN TakenOver ELSE Untouched

\* What a call leaves of the entered state when it changes nothing else
Leaves(st) ==
    /\ vlog' = st.vlog /\ li_vlog' = st.li_vlog
    /\ new_vlog' = st.new_vlog /\ new_li_vlog' = st.new_li_vlog
    /\ key_array_file' = st.key_array_file
    /\ new_key_array_file' = st.new_key_array_file
    /\ db' = st.db /\ new_db' = st.new_db
    /\ total_num' = st.total_num
    /\ gc_in_progress' = st.gc_in_progress
    /\ gc_done' = FALSE

\* put finds the log full and no collection under way: unsigned comparison
MustCollect(st) ==
    (st.total_num + 1 > Cap \/ st.total_num + 1 < 0) /\ ~st.gc_in_progress

\* The store when put has decided whether to collect
Prepared ==
    IF MustCollect(Entered) THEN [Entered EXCEPT !.gc_in_progress = TRUE] ELSE Entered

\* The first full log starts the collector.
StartsCollector ==
    IF MustCollect(Entered)
    THEN ~started /\ started' = TRUE /\ gc_pc' = "read"
    ELSE UNCHANGED << started, gc_pc >>

Record(k, v) == [key |-> k, val |-> v]

\* The record goes to the log in use ...
Appended(st, k, v) ==
    IF st.gc_in_progress
    THEN [st EXCEPT !.new_vlog = Append(@, Record(k, v))]
    ELSE [st EXCEPT !.vlog = Append(@, Record(k, v))]

\* Mutant of Stored: puts go to the old log during a collection, too.
StoredInOldLog(st, k, v) ==
    [st EXCEPT !.vlog = Append(@, Record(k, v)), !.db[k] = Len(st.vlog)]

\* ... and its position to the database in use.
Stored(st, k, v) ==
    IF st.gc_in_progress
    THEN [Appended(st, k, v) EXCEPT !.new_db[k] = Len(st.new_vlog)]
    ELSE [Appended(st, k, v) EXCEPT !.db[k] = Len(st.vlog)]

\* put up to the increment of total_num
Put(k, v) ==
    /\ status = "running" /\ pc = "idle"
    /\ Len(Entered.new_vlog) < MaxNew
    /\ StartsCollector
    /\ Leaves(Stored(Prepared, k, v))
    /\ pc' = "count"
    /\ latest' = [latest EXCEPT ![k] = v]
    /\ UNCHANGED << status, reg, gc_reg, gc_left, reply, faulty >>

\* The write to the database fails: the record is in the log, but not counted.
PutFails(k, v) ==
    /\ status = "running" /\ pc = "idle"
    /\ "put" \in Faults
    /\ Len(Entered.new_vlog) < MaxNew
    /\ Prepared.gc_in_progress \/ Len(Prepared.vlog) < MaxLog
    /\ StartsCollector
    /\ Leaves(Appended(Prepared, k, v))
    /\ reply' = Failed
    /\ latest' = [latest EXCEPT ![k] = v]
    /\ faulty' = TRUE
    /\ UNCHANGED << pc, status, reg, gc_reg, gc_left >>

\* The second database cannot be opened: the put that starts the collector
\* writes through a pointer that was never set.
PutCrashes(k, v) ==
    /\ status = "running" /\ pc = "idle"
    /\ "open_new" \in Faults
    /\ MustCollect(Entered) /\ StartsCollector
    /\ Leaves(Appended(Prepared, k, v))
    /\ status' = "crashed"
    /\ latest' = [latest EXCEPT ![k] = v]
    /\ UNCHANGED << pc, reg, reply, faulty, gc_reg, gc_left >>

\* The second collection assigns a new thread to gc_thread, which still holds
\* the first one: std::terminate.
PutTerminates ==
    /\ status = "running" /\ pc = "idle"
    /\ MustCollect(Entered) /\ started
    /\ Leaves(Prepared)
    /\ status' = "terminated"
    /\ UNCHANGED << pc, reg, reply, latest, faulty, started, collector >>

\* total_num ++ by the client: the read ...
CountRead ==
    /\ status = "running" /\ pc = "count"
    /\ reg' = total_num
    /\ pc' = "store"
    /\ UNCHANGED << files, db, new_db, reply, latest, faulty, collector, total_num,
                    gc_in_progress, gc_done, started, status >>

\* ... and the write, after which put returns.
CountWrite ==
    /\ status = "running" /\ pc = "store"
    /\ total_num' = reg + 1
    /\ pc' = "idle"
    /\ reg' = 0
    /\ reply' = Ok
    /\ UNCHANGED << files, db, new_db, latest, faulty, collector, gc_in_progress, gc_done,
                    started, status >>
-----------------------------------------------------------------------------
(***************************************************************************)
(* get.  Outside a collection the freshly made status is ok, so neither    *)
(* database is asked and the position is read from an empty string: any    *)
(* number, also one that fseek refuses, so that the file is read from its  *)
(* start.  During one both databases are asked, but the value is always    *)
(* read from new_vlog.  The learned index is asked for a key in neither    *)
(* database; without a key array file that is a read through a null FILE   *)
(* pointer (see IndexNeverRead for why there is none).                     *)
(***************************************************************************)
ReadIn(log, p) == IF p < Len(log) THEN log[p + 1].val ELSE Blank

\* Mutant of Position: the old database is asked first.
PositionOldFirst(st, k) == IF st.db[k] # NoPtr THEN st.db[k] ELSE st.new_db[k]

Position(st, k) == IF st.new_db[k] # NoPtr THEN st.new_db[k] ELSE st.db[k]

GetOutcomes(st, k) ==
    IF ~st.gc_in_progress
    THEN {ReadIn(st.vlog, p) : p \in 0..Len(st.vlog)} \cup {Mangled}
    ELSE IF Position(st, k) # NoPtr THEN {ReadIn(st.new_vlog, Position(st, k))}
    ELSE {NotFound}

GetCrashes(st, k) ==
    \/ ~st.gc_in_progress /\ st.vlog = NoFile
    \/ /\ st.gc_in_progress /\ Position(st, k) = NoPtr
       /\ LearnedIndexUsed /\ st.key_array_file = NoFile

Get(k) ==
    /\ status = "running" /\ pc = "idle"
    /\ Leaves(Entered)
    /\ IF GetCrashes(Entered, k)
       THEN status' = "crashed" /\ UNCHANGED reply
       ELSE reply' \in GetOutcomes(Entered, k) /\ UNCHANGED status
    /\ UNCHANGED << pc, reg, latest, faulty, started, collector >>
-----------------------------------------------------------------------------
(***************************************************************************)
(* garbage_collection on its thread.                                       *)
(***************************************************************************)
\* valid_map from li_vlog and then vlog, sorted, without the last pair
Collected ==
    LET log == li_vlog \o vlog IN {Pairs(log, s) : s \in SortedSeqs(Survivors(log))}

\* Mutant of GcRead: the collector starts counting from zero.
GcReadResetting ==
    /\ status = "running" /\ gc_pc = "read"
    /\ gc_left' \in Collected
    /\ gc_pc' = "write"
    /\ total_num' = 0
    /\ UNCHANGED << files, client, gc_reg, gc_in_progress, gc_done, started, status >>

GcRead ==
    /\ status = "running" /\ gc_pc = "read"
    /\ gc_left' \in Collected
    /\ gc_pc' = "write"
    /\ UNCHANGED << files, client, gc_reg, total_num, gc_in_progress, gc_done, started,
                    status >>

\* The next pair goes to new_li_vlog; total_num++ reads the counter ...
GcWrite ==
    /\ status = "running" /\ gc_pc = "write" /\ gc_left # << >>
    /\ new_li_vlog' = Append(new_li_vlog, Head(gc_left))
    /\ gc_left' = Tail(gc_left)
    /\ gc_reg' = total_num
    /\ gc_pc' = "store"
    /\ UNCHANGED << vlog, li_vlog, new_vlog, key_array_file, new_key_array_file, client,
                    total_num, gc_in_progress, gc_done, started, status >>

\* ... and writes it.
GcCount ==
    /\ status = "running" /\ gc_pc = "store"
    /\ total_num' = gc_reg + 1
    /\ gc_reg' = 0
    /\ gc_pc' = "write"
    /\ UNCHANGED << files, client, gc_left, gc_in_progress, gc_done, started, status >>

\* The key array of an index over at least two keys (all with position 0: the
\* local write_pos is never counted up); model or key array may not be written.
NewKeyArrays ==
    {IF LearnedIndexUsed /\ Len(new_li_vlog) >= 2
     THEN [j \in 1..Len(new_li_vlog) |-> new_li_vlog[j].key]
     ELSE NoFile}
    \cup (IF "files" \in Faults THEN {NoFile} ELSE {})

\* Mutant of GcFinish: gc_done is only set when an index was built.
GcFinishSilently ==
    /\ status = "running" /\ gc_pc = "write" /\ gc_left = << >>
    /\ new_key_array_file' \in NewKeyArrays
    /\ gc_done' = (new_key_array_file' # NoFile)
    /\ gc_pc' = "none"
    /\ UNCHANGED << vlog, li_vlog, new_vlog, new_li_vlog, key_array_file, client, gc_reg,
                    gc_left, total_num, gc_in_progress, started, status >>

\* The index is built and the thread ends.
GcFinish ==
    /\ status = "running" /\ gc_pc = "write" /\ gc_left = << >>
    /\ new_key_array_file' \in NewKeyArrays
    /\ gc_done' = TRUE
    /\ gc_pc' = "none"
    /\ UNCHANGED << vlog, li_vlog, new_vlog, new_li_vlog, key_array_file, client, gc_reg,
                    gc_left, total_num, gc_in_progress, started, status >>

Client ==
    \/ \E k \in Keys :
        \/ \E v \in Values : Put(k, v) \/ PutFails(k, v) \/ PutCrashes(k, v)
        \/ Get(k)
    \/ PutTerminates \/ CountRead \/ CountWrite

Collector == GcRead \/ GcWrite \/ GcCount \/ GcFinish

Next == Client \/ Collector

\* The operating system runs the collector's thread; nobody has to call the store.
Spec == Init /\ [][Next]_vars /\ WF_vars(Collector)
-----------------------------------------------------------------------------
(***************************************************************************)
(* Properties.                                                             *)
(***************************************************************************)
Records == Seq([key : Keys, val : Values])

\* Type invariant; as long as no put failed, the unsigned total_num does not
\* wrap when a call takes over.
TypeOK ==
    /\ vlog \in Records /\ li_vlog \in Records
    /\ new_vlog \in Records /\ new_li_vlog \in Records /\ gc_left \in Records
    /\ key_array_file \in Seq(Keys) /\ new_key_array_file \in Seq(Keys)
    /\ db \in [Keys -> Nat \cup {NoPtr}] /\ new_db \in [Keys -> Nat \cup {NoPtr}]
    /\ total_num \in Int /\ reg \in Int /\ gc_reg \in Int
    /\ ~faulty => total_num >= 0
    /\ gc_in_progress \in BOOLEAN /\ gc_done \in BOOLEAN /\ started \in BOOLEAN
    /\ status \in {"running", "terminated", "crashed"}
    /\ pc \in {"idle", "count", "store"}
    /\ gc_pc \in {"none", "read", "write", "store"}
    /\ reply \in Values \cup {Ok, Failed, NotFound, Blank, Mangled}
    /\ latest \in [Keys -> Values \cup {NotFound}]
    /\ faulty \in BOOLEAN

\* The logs a client's view is made of, oldest first
AllLogs == li_vlog \o vlog \o new_vlog

\* However the collector and the client interleave, the newest record of a key
\* in the logs is the last one put for it: taking over never lets a value from
\* the collected log win over one put during the collection.
NewestIsLatest ==
    \A k \in LogKeys(AllLogs) : ValidValue(AllLogs, k) = latest[k]

\* A key loses its records only when a call takes over, and then only the
\* largest key of the collected logs does: the collector works on logs that
\* no put changes behind its back.
TakeOverKeepsKeys ==
    [][\A k \in LogKeys(AllLogs) :
        \/ k \in LogKeys(AllLogs')
        \/ gc_done /\ \A m \in LogKeys(li_vlog \o vlog) : m <= k]_vars

\* Increments of total_num may get lost, but during a collection it never falls
\* below the number of records that taking over subtracts, unless a put failed.
SubtractionSafe ==
    gc_in_progress /\ status = "running" /\ ~faulty => total_num >= Len(vlog) + Len(li_vlog)

\* A key put during a collection reads back its last value until the collection
\* is taken over, unless a put failed.
ReadsDuringCollection ==
    gc_in_progress /\ status = "running" /\ ~faulty =>
        \A k \in Keys : new_db[k] # NoPtr => GetOutcomes(Untouched, k) = {latest[k]}

\* No get ever reads the learned index the collector builds: get asks for it only
\* during a collection, and no program lives to see one with an index in place.
IndexNeverRead ==
    gc_in_progress /\ status = "running" => key_array_file = NoFile

\* A collection that was started is finished, whether or not calls keep coming,
\* unless the program ends.
CollectionFinishes == gc_in_progress ~> (gc_done \/ status # "running")

\* put can start the background thread whenever the log is full.
CollectorStarts == status # "terminated"
=============================================================================
