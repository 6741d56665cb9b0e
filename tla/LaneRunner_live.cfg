SPECIFICATION FairSpec
CONSTANTS
    Missions = {1, 2}
    Limits = {1, 2}
    MaxAdmin = 1
    Environments <- Endings
    None = None
CHECK_DEADLOCK FALSE
PROPERTIES
    AckStopsPickup
    AggressiveConverges
    NoLostWakeup
    DeliveredKillEnds
    ApplyReturns
