CONSTANTS
    PrefixTexts <- SomePrefixes
    SuffixTexts <- SomeSuffixes
    CandidateLists <- SomeCandidates
    Layers = 2
    PrefixCapacity = 2
    MaxBranches = 2
    MaxSuffix = 2
    MaxTokens = 3
    MaxCandidates = 3
    MaxQueued = 12
    FreesEarly = FALSE
    MayFail = TRUE
SPECIFICATION Spec
INVARIANT KernelsReadLiveMemory
PROPERTIES ImplementsPromise
