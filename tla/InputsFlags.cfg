SPECIFICATION Spec
CONSTANTS
    Buf = 5
    Plain <- PlainMessages
    Quoting <- QuotingMessages
    MaxSent = 3
    Half = 2
    MaxTraffic = 4
    Flagged = FALSE
    MaxInt = 31
    MaxText = 3
    MaxStarts = 3
INVARIANT StatsTrue
CHECK_DEADLOCK FALSE
