CONSTANTS
    Runtimes = {"r1"}
    Caches = {"c1"}
    Addresses = {a1, a2, a3}
    Coexist = FALSE
    TokenLimits = {1, 2}
    Capacities = {1, 3}
    Texts = {t1, t2}
    Layers = 2
    Hidden = 1
    Inter = 2
    QWidth = 2
    KvWidth = 1
    Alignment = 2
    PadTo = 2
    Tile = 1
    FixupCells = 1
    Slack = 2
    VecBatch = 1
    MaxQueued = 3
    MaxPasses = 2
    MaxFailures = 1
SPECIFICATION Spec
SYMMETRY Symmetry
INVARIANTS   CacheHoldsText OnlyRecordedRead
CHECK_DEADLOCK FALSE
