SPECIFICATION Spec
CONSTANTS
    Buf = 5
    Plain <- PlainMessages
    Quoting <- QuotingMessages
    MaxSent = 3
    Half = 2
    MaxTraffic = 4
    Flagged = TRUE
    MaxInt = 31
    MaxText = 3
    MaxStarts = 3
INVARIANT UptimeOnline
CHECK_DEADLOCK FALSE
