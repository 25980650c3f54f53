SPECIFICATION FairSpec
CONSTANTS
    Publishers = {}
    QueueLen = 2
    Retained = 3
    MaxConn = 1
    MaxWire = 2
    Replies = {TRUE}
    Infos = {TRUE}
    LossAt = {}
PROPERTIES
    SubscribeReturns
CHECK_DEADLOCK FALSE
