CONSTANTS
    MaxBranches = 2
    MaxCandidates = 2
    FirstCapacity = 2
    MaxIds = 3
    MaxQuestions = 3
SPECIFICATION WorkloadSpec
INVARIANT MalformedIsRefused
CHECK_DEADLOCK FALSE
