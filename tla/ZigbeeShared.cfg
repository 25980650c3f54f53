SPECIFICATION Spec
CONSTANTS
    Z3Enabled = TRUE
    MaxStart = 2
    MaxLine = 0
    Slots = 1
    QueueLen = 1
    MaxSession = 2
    Fds = {1, 2}
    MGW = TRUE
    BaudArg = 0
    ChipBaud = 38400
    Others = TRUE
INVARIANTS
    PortNotShared
CHECK_DEADLOCK FALSE
