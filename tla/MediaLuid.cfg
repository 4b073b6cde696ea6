SPECIFICATION Spec
CONSTANTS
    Paths = {"a", "b"}
    NumAccounts = 2
    Modes = {"slow", "twoWay"}
    MaxTime = 2
    MaxLuid = 3
    MaxTrouble = 1
INVARIANTS
    LuidsUnique
    PathFound
    NotSentIsKnown
    NewLuidForCause
CHECK_DEADLOCK FALSE
