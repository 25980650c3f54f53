SPECIFICATION Spec
CONSTANTS
    Publishers = {}
    QueueLen = 2
    Retained = 2
    MaxConn = 2
    MaxWire = 2
    Replies = {FALSE}
    Infos = {TRUE}
    LossAt = {"range"}
INVARIANTS
    NoPanic
CHECK_DEADLOCK FALSE
