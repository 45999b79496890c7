CONSTANTS
    HttpRequests <- AllRequests
    FileRequests <- AllFiles
    KeyConfigured = TRUE
    MaxQ = 3
    MaxSuffix = 2
    PrefixCapacity = 3
    MaxCandidates = 12
    MayFail = TRUE
SPECIFICATION Spec
INVARIANTS  AnsweredAndClean MemorySound BatchIsAcceptable
CHECK_DEADLOCK FALSE
