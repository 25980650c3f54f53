SPECIFICATION FairSpec
CONSTANTS
    Publishers = {}
    QueueLen = 2
    Retained = 2
    MaxConn = 2
    MaxWire = 2
    Replies = {FALSE}
    Infos = {FALSE}
    LossAt = {"connack", "suback"}
PROPERTIES
    Reconnects
CHECK_DEADLOCK FALSE
