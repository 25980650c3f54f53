SPECIFICATION Z3Spec
CONSTANTS
    Z3Enabled = TRUE
    MaxStart = 1
    MaxLine = 3
    Slots = 2
    QueueLen = 2
INVARIANTS
    LinesIntact
CHECK_DEADLOCK FALSE
