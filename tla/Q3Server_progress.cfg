CONSTANTS
    Clients = {c1, c2}
    Fickle = {c1}
    Requests = {"job"}
    Signals = {sigint}
    QueueDepth = 1
    NoJob = NoJob
    PollMayFail = TRUE
SPECIFICATION Spec
PROPERTIES
    ConnectionEnds
    
CHECK_DEADLOCK FALSE
