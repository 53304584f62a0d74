\* The LevelDB variant.  Cap = 3: two survivors are enough to build an index; with
\* four keys they may be different ones each time.  The log may hold two records
\* when a put fails or the process is killed, so a restart finds a non-empty log.
CONSTANTS
    Keys = {0, 2, 3, 5}
    v1 = v1
    v2 = v2
    Values = {v1, v2}
    Cap = 3
    ErrBound = 1
    MaxInt = 8
    NumBits = 5
    NumHashes = 2
    LearnedIndexUsed = TRUE
    PositionChecked = TRUE
    Faults = {"put", "open", "model", "key_array", "restart"}
    MaxLog = 2
SYMMETRY ValueSymmetry
SPECIFICATION Spec
CHECK_DEADLOCK FALSE
INVARIANTS
    ReadsReturnLatest
    PointersNameOwnRecords
    AssertOnlyFailsAfterFault
