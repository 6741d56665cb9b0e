SPECIFICATION FairSpec
CONSTANTS
    Contents = {"a", "b"}
    Total = 2
    MaxTries = 2
    Environments <- UploadLife
    None = None
CHECK_DEADLOCK FALSE
INVARIANTS
    StagingInv
    InputsSurvive
    ServedIsContent
PROPERTIES
    Reclaimed
