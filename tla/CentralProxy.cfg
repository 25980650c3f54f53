SPECIFICATION FairSpec
CONSTANTS
    Conns = {k1, k2}
    MaxAsk = 2
    Quiet = {2}
    QueueLen = 1
    CrashAt = {"stat", "probe", "rename", "probe proxy", "remove", "accept", "unsupported", "no socket"}
    RestartAt = {"stat", "probe", "rename", "listen", "accept", "down", "unsupported", "no socket"}
INVARIANTS
    TypeOK
    ProxyLeads
    PublishedIntact
PROPERTIES
    GivesUpRightly
    PairEnds
CHECK_DEADLOCK FALSE
