SPECIFICATION Spec
CONSTANTS
    NumSources = 2
    Objects <- MCObjects
    NoKey = "none"
    Cuts = {50, 80}
    MaxObjSize = 120
    Fallible = {1}
    None = None
INVARIANTS
    GivenWhole
    BufferBounded
    InStep
    ServerKnows
    RefusedForCause
CHECK_DEADLOCK FALSE
