SPECIFICATION FairSpec
CONSTANTS
    MaxTries = 3
    MaxFaults = 3
    Environments <- Creation
    None = None
CHECK_DEADLOCK FALSE
INVARIANTS
    DispatchInv
    AnswerIsOurs
    BadMeansNoMission
PROPERTIES
    ClientsEnd
