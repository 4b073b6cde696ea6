SPECIFICATION Spec
CONSTANTS
    Keys = {k1, k2}
    Values = {v1, v2}
    NoValue = NoValue
    Removed = Removed
    MaxJournal = 3
INVARIANTS
    IdleIsDurable
    OtherKeysDurable
    CloseKeepsJournalled
SYMMETRY Symmetry
PROPERTY
    ImplementsDurableStore
