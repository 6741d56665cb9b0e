CONSTANTS
    Targets = {"a", "b", "c"}
    Environments <- Invocations
SPECIFICATION FairSpec
INVARIANTS
    CommandInv
    ExitCodeIsTrue
    ByIdIsCertain
PROPERTIES
    CommandEnds
