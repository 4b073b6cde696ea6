SPECIFICATION Spec
CONSTANTS
    NumSources = 2
    Maps = {m1}
    Modes = {"twoWay", "slow", "oneWayFromClient"}
    Fallible = {}
    MaxMessages = 2
    MaxSessions = 1
PROPERTIES
    MappingsUsedAtNextSync
CHECK_DEADLOCK FALSE
