SPECIFICATION RunningSpec
CONSTANTS
    Conns = {k1}
    MaxAsk = 1
    Quiet = {}
    QueueLen = 1
    CrashAt = {}
    RestartAt = {}
PROPERTIES
    PairEnds
CHECK_DEADLOCK FALSE
