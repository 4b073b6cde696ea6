SPECIFICATION FairSpec
CONSTANTS
    NumSources = 3
    Works <- MCWorks
    MaxMsgSize = 1000
    FirstMaxMsgSize = 1000
    None = None
INVARIANTS
    FitsMessage
    AllSent
    LostForCause
PROPERTIES
    ChunksInOrder
    Terminates
CHECK_DEADLOCK FALSE
