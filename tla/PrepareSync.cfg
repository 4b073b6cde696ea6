SPECIFICATION Spec
CONSTANTS
    NumSources = 2
    Setups <- MCSetups
    HdrStatuses <- MCHdrStatuses
    AlertStatuses <- MCAlertStatuses
    MaxRounds = 3
INVARIANTS
    GoesOnForCause
    HealsForCause
    NoncesInStep
    RetriesForCause
    DevInfForCause

