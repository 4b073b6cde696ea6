SPECIFICATION Spec
CONSTANTS
    NumSources = 2
    Maps = {m1}
    Modes = {"twoWay", "slow", "oneWayFromClient"}
    Fallible = {1}
    MaxMessages = 2
    MaxSessions = 1
INVARIANTS
    ZeroOnSuccess
CHECK_DEADLOCK FALSE
