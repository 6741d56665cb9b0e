CONSTANTS
    o1 = o1
    o2 = o2
    k1 = k1
    k2 = k2
    None = None
    Outputs = {o1, o2}
    Killers = {k1, k2}
    Faults = {"crash", "disconnect", "eventsLost"}
    MaxCrashes = 3
SPECIFICATION Spec
SYMMETRY MCSymmetry
CHECK_DEADLOCK FALSE
INVARIANTS
    DoneRowHasDoneEvent
    NoTerminalConflict
    NeverRunsAfterDone
    OutputFilesMatchRows
PROPERTIES
    ImplementsOutcome
