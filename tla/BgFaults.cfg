\* Cap = 2 and failing puts while a log holds fewer than two records: the counter
\* may fall behind the log far enough to wrap when a collection is taken over.
\* No symmetry, for the liveness property.
CONSTANTS
    Keys = {1, 2}
    v1 = v1
    v2 = v2
    Values = {v1, v2}
    Cap = 2
    LearnedIndexUsed = FALSE
    Faults = {"put", "open_new"}
    MaxNew = 1
    MaxLog = 2
SPECIFICATION Spec
CHECK_DEADLOCK FALSE
INVARIANT NewestIsLatest
PROPERTIES
    TakeOverKeepsKeys
    CollectionFinishes
