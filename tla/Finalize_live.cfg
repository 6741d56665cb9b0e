CONSTANTS
    o1 = o1
    o2 = o2
    k1 = k1
    k2 = k2
    None = None
    Outputs = {o1}
    Killers = {k1}
    Faults = {"crash", "powerLoss"}
    MaxCrashes = 2
SPECIFICATION FairSpec
CHECK_DEADLOCK FALSE
PROPERTIES
    IntentDrains
    DeletingDrains
    LostIsResolved
