SPECIFICATION FairSpec
CONSTANTS
    c1 = c1
    c2 = c2
    Files = {f1, f2}
    Contents = {c1, c2}
    Nothing = Nothing
    None = None
    Signature <- CRC
    Modes = {"twoWay", "slow", "refreshFromServer"}
    FileSource = TRUE
    MaxChanges = 2
    MaxFailures = 2
INVARIANTS UnchangedMeansShared SharedIsCached
PROPERTIES Converges
