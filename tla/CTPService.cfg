SPECIFICATION FairSpec
CONSTANTS
    MaxStarts = 1
    MaxConns = 2
    MaxSessions = 1
    MaxOwed = 1
    Platforms = {TRUE}
    Waits = {"join"}
INVARIANTS
    OneReader
    NothingLeaks
    TwiceForCause
PROPERTIES
    TimeoutForCause
    TimeoutRestores
    StopHeard
CHECK_DEADLOCK FALSE
