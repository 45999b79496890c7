CONSTANTS
    Clients = {c1, c2}
    Fickle = {c1}
    Requests = {"static", "health", "job"}
    Signals = {sigint, sigterm}
    QueueDepth = 1
    NoJob = NoJob
    PollMayFail = FALSE
SPECIFICATION Safety
INVARIANTS
    NoDanglingJob
    NoOrphan
    FreedLast
    AnsweredUnlessStopped
CHECK_DEADLOCK FALSE
