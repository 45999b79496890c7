CONSTANTS
    SpanCount = 5
    Copies <- FiveSpans
    Slots = 2
    CudaMayFail = TRUE
SPECIFICATION Spec
INVARIANTS
    UploadsIntact
    ResidentIsFile
PROPERTIES
    ImplementsCopy
    LoadEnds
CHECK_DEADLOCK FALSE
