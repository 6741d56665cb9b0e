CONSTANTS
    Keys = {"k", "l"}
    MaxRecordedViolations = 2
    MaxOutputFiles = 1
    ProgressSlots = 1
    MaxProgressRate = 1
    MaxOutputBuffer = 3
    Environments <- Processes
SPECIFICATION FairSpec
INVARIANTS
    SuperviseInv
    OutcomeIsEarned
    ProgressAccounted
PROPERTIES
    KillIsTrue
    RunEnds
