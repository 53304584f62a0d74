CONSTANTS
    Keys = {0, 2, 3, 5}
    v1 = v1
    v2 = v2
    Values = {v1, v2}
    Cap = 3
    ErrBound = 1
    MaxInt = 8
    NumBits = 5
    NumHashes = 2
    LearnedIndexUsed = FALSE
    PositionChecked = FALSE
    Faults = {}
    MaxLog = 3
SYMMETRY ValueSymmetry
SPECIFICATION Spec
INVARIANT TypeOK
PROPERTY ImplementsLossyMap
