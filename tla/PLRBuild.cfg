\* Keys below 10, up to 6 of them: enough for several cuts, for a cut at the
\* last loop index and for the corner case.
CONSTANTS
    ErrBound = 1
    MaxInt = 8
    KeyBound = 10
    MaxLength = 6
    Inputs <- MCInputs
SPECIFICATION Spec
INVARIANTS
    TypeOK
    ErrorBounded
    SegmentsOrdered
    LookupLeadsToRecord
    LoopComputesBuildModel
