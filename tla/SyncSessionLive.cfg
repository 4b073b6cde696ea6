SPECIFICATION FairSpec
CONSTANTS
    NumSources = 2
    Maps = {}
    Modes = {"twoWay", "refreshFromServer", "refreshFromClient", "oneWayFromServer"}
    Fallible = {1, 2}
    MaxMessages = 2
    MaxSessions = 1
INVARIANTS
    AnchorsMeanComplete
PROPERTIES
    AbortEnds
    SessionEnds
CHECK_DEADLOCK FALSE
