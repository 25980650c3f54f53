SPECIFICATION Spec
CONSTANTS
    Conns = {k1}
    MaxAsk = 1
    Quiet = {}
    QueueLen = 1
    CrashAt = {"listen", "accept"}
    RestartAt = {}
PROPERTIES
    GivesUpRightly
CHECK_DEADLOCK FALSE
