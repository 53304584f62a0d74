\* Every call that can fail in this mode fails at any time, and the process may be
\* killed in and between calls, or exit.  Two records left by failing puts or by an earlier
\* process and two good ones make four, more than Cap.  With four bits the filter
\* answers "possibly" for key 3 when 0 and 2 are stored.
CONSTANTS
    Keys = {0, 2, 3}
    v1 = v1
    v2 = v2
    Values = {v1, v2}
    Cap = 2
    ErrBound = 1
    MaxInt = 8
    NumBits = 4
    NumHashes = 2
    LearnedIndexUsed = FALSE
    PositionChecked = FALSE
    Faults = {"put", "destroy", "open", "write", "restart", "exit"}
    MaxLog = 2
SYMMETRY ValueSymmetry
SPECIFICATION Spec
CHECK_DEADLOCK FALSE
INVARIANTS
    CounterMatchesLog
    RecordsAreLatest
    PointersCurrent
    FilterCoversIndex
    ReadsReturnLatest
    AbsentKeysNotFound
    AssertOnlyFailsAfterFault
PROPERTY OnlyLargestKeyLost
