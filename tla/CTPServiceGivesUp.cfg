SPECIFICATION Spec
CONSTANTS
    MaxStarts = 1
    MaxConns = 2
    MaxSessions = 1
    MaxOwed = 1
    Platforms = {TRUE}
    Waits = {"join"}
CHECK_DEADLOCK FALSE
INVARIANT EndsForCause
