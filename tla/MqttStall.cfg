SPECIFICATION FairSpec
CONSTANTS
    Publishers = {}
    QueueLen = 2
    Retained = 2
    MaxConn = 2
    MaxWire = 2
    Replies = {TRUE}
    Infos = {FALSE}
    LossAt = {"range", "handler"}
PROPERTIES
    Reconnects
CHECK_DEADLOCK FALSE
