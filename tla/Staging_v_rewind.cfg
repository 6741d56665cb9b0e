SPECIFICATION Spec
CONSTANTS
    Contents = {"a", "b"}
    Total = 2
    MaxTries = 2
    Environments <- Retries
    None = None
INVARIANTS
    NoFalseMismatch
CHECK_DEADLOCK FALSE
