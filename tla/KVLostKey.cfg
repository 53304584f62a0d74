CONSTANTS
    Keys = {0, 2, 3}
    v1 = v1
    v2 = v2
    Values = {v1, v2}
    Cap = 2
    ErrBound = 1
    MaxInt = 8
    NumBits = 5
    NumHashes = 2
    LearnedIndexUsed = FALSE
    PositionChecked = FALSE
    Faults = {}
    MaxLog = 2
SPECIFICATION Spec
CHECK_DEADLOCK FALSE
INVARIANT NoKeyLost
