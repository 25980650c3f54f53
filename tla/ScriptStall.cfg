SPECIFICATION ScriptSpec
CONSTANTS
    Publishers = {h}
    QueueLen = 2
    Retained = 2
    MaxConn = 2
    MaxWire = 2
    Replies = {TRUE}
    Infos = {FALSE}
    LossAt = {"range", "unset"}
    LossWithSub = TRUE
PROPERTIES
    HooksReturn
CHECK_DEADLOCK FALSE
