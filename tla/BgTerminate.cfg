CONSTANTS
    Keys = {1, 2}
    v1 = v1
    v2 = v2
    Values = {v1, v2}
    Cap = 2
    LearnedIndexUsed = FALSE
    Faults = {}
    MaxNew = 2
    MaxLog = 0
SPECIFICATION Spec
CHECK_DEADLOCK FALSE
INVARIANT CollectorStarts
