\* The collection of three keys leaves 0 and 2 to the learned index.
CONSTANTS
    Keys = {0, 2, 3}
    v1 = v1
    v2 = v2
    Values = {v1, v2}
    Cap = 3
    ErrBound = 1
    MaxInt = 8
    NumBits = 5
    NumHashes = 2
    LearnedIndexUsed = TRUE
    PositionChecked = FALSE
    Faults = {}
    MaxLog = 3
    Starts = {0, 2}
    Ranges = {2, 6}
    MaxKey = 7
    ByteValues = 2
    WordBytes = 4
    RecordSize = 2
    MaxBlanks = 2
SPECIFICATION ScanSpec
CHECK_DEADLOCK FALSE
INVARIANTS
    ScanTypeOK
    MergedAscending
PROPERTY ScanReturns
