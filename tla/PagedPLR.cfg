\* Two records to a page and up to eight keys: four pages, enough for three
\* segments, a cut right after a cut and a cut at the last key.
CONSTANTS
    ErrBound = 1
    MaxInt = 12
    PageSize = 2
    KeyBound = 10
    MaxLength = 8
    Inputs <- MCInputs
    Queried <- MCQueried
SPECIFICATION Spec
CHECK_DEADLOCK FALSE
INVARIANTS
    TypeOK
    PageErrorBounded
    SegmentsOrdered
    SearchFindsSegment
    EstimateWithinPages
PROPERTY SearchTerminates
