SPECIFICATION Spec
CONSTANTS
    Missions = {1, 2, 3}
    Limits = {1, 2}
    MaxAdmin = 3
    Environments <- Safety
    None = None
CHECK_DEADLOCK FALSE
INVARIANTS
    LaneInv
PROPERTIES
    PauseMatchesConfig
    OperatorPauseHolds
