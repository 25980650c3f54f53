SPECIFICATION Spec
CONSTANTS
    Publishers = {p1, p2}
    QueueLen = 2
    Retained = 2
    MaxConn = 2
    MaxWire = 2
    Replies = {TRUE}
    Infos = {TRUE, FALSE}
    LossAt = {"dial", "connect", "connect sent", "connack", "subscribe", "subscribe sent",
              "suback", "report", "range", "handler", "offline", "unset"}
INVARIANTS
    ConnectFirst
    OnlineAcknowledged
CHECK_DEADLOCK FALSE
