SPECIFICATION Spec
CONSTANTS
    NumSources = 2
    Maps = {m1}
    Modes = {"twoWay", "slow", "oneWayFromClient"}
    Fallible = {1, 2}
    MaxMessages = 2
    MaxSessions = 2
INVARIANTS
    FinalSentOnce
    AnchorsMeanMapped
    FailureIsolated
    SuccessMeansAll
PROPERTIES
    MappingsKept
CHECK_DEADLOCK FALSE
