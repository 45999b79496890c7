CONSTANTS
    Arguments <- MCArguments
    ListOf <- MCListOf
    MaxBatches = 2
    IntMax = 7
    Layers = 2
    Models <- MCModels
    MaxGap = 1
    MaxSpan = 3
    WordMax = 5
    MayFail = TRUE
    Products <- MCProducts
    Widths = {2, 3}
    TileY = 2
    Step = 2
    MaxBranches = 2
    MaxCandidates = 1
    FirstCapacity = 1
    MaxIds = 2
    MaxQuestions = 3
    PlanLine <- MCPlanLine
    MaxVectorBatch = 2
SPECIFICATION ProgramsSpec
INVARIANTS
    GivenBackInOrder
    EveryTensorInOneSpan GapsHoldNoPle PlanValidUnlessOverlap
    ProductIsWhole AddedOnce ScratchOnlyIfNeeded
    WorkloadWhole
CHECK_DEADLOCK FALSE
