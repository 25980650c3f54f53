SPECIFICATION ScriptSpec
CONSTANTS
    Publishers = {h}
    QueueLen = 2
    Retained = 2
    MaxConn = 2
    MaxWire = 2
    Replies = {TRUE, FALSE}
    Infos = {FALSE}
    LossAt = {"range", "unset"}
    LossWithSub = FALSE
PROPERTIES
    PublishReturns
    SubscribeReturns
    Reconnects
    HooksReturn
CHECK_DEADLOCK FALSE
