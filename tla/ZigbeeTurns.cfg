SPECIFICATION FairSpec
CONSTANTS
    Z3Enabled = TRUE
    MaxStart = 2
    MaxLine = 1
    Slots = 1
    QueueLen = 1
    MaxSession = 2
    Fds = {1, 2}
    MGW = TRUE
    BaudArg = 0
    ChipBaud = 38400
    Others = TRUE
INVARIANTS
    TypeOK
    OwnSession
    NothingLeft
    ServedWithoutZ3
PROPERTIES
    ClientsTakeTurns
    Z3Ends
    Z3Returns
CHECK_DEADLOCK FALSE
