CONSTANTS
    Keys = {"k", "l"}
    MaxRecordedViolations = 2
    MaxOutputFiles = 1
    ProgressSlots = 1
    MaxProgressRate = 1
    MaxOutputBuffer = 3
    Environments <- Shutdowns
SPECIFICATION Spec
INVARIANT FailIsNotSuccess
