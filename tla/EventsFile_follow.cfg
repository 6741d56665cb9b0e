SPECIFICATION FairSpec
CONSTANTS
    MaxProgress = 1
    EventsBuffer = 1
    Froms = {0, 9}
    FaultSets <- TearsAndLosses
    MaxFaults = 2
    None = None
CHECK_DEADLOCK FALSE
INVARIANTS
    EventsInv
    Delivery
    NoFalseAlarm
PROPERTIES
    FollowEnds
