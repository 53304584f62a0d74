\* A full log of three records leaves two to write back while up to two puts
\* count at the same time.
CONSTANTS
    Keys = {1, 2, 3}
    v1 = v1
    v2 = v2
    Values = {v1, v2}
    Cap = 3
    LearnedIndexUsed = TRUE
    Faults = {"files"}
    MaxNew = 2
    MaxLog = 0
SYMMETRY ValueSymmetry
SPECIFICATION Spec
CHECK_DEADLOCK FALSE
INVARIANTS
    TypeOK
    NewestIsLatest
    SubtractionSafe
    ReadsDuringCollection
    IndexNeverRead
PROPERTY TakeOverKeepsKeys
