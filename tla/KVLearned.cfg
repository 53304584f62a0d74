\* Keys 0, 2, 3 survive the collection of a full log of four keys; 3 is predicted
\* one record too low, just behind the window that get and scan search.
CONSTANTS
    Keys = {0, 2, 3, 5}
    v1 = v1
    v2 = v2
    Values = {v1, v2}
    Cap = 4
    ErrBound = 1
    MaxInt = 8
    NumBits = 5
    NumHashes = 2
    LearnedIndexUsed = TRUE
    PositionChecked = FALSE
    Faults = {}
    MaxLog = 4
    Starts = {0, 4}
    Ranges = {3}
    MaxKey = 7
    ByteValues = 2
    WordBytes = 4
    RecordSize = 2
    MaxBlanks = 1
SYMMETRY ValueSymmetry
SPECIFICATION ScanSpec
CHECK_DEADLOCK FALSE
INVARIANTS
    KeyArrayMatchesLog
    ReadsReturnLatest
    ScanKeysExact
    ScanPrefersDatabase
