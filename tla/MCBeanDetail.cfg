CONSTANTS
    Names = {"p"}
    Vals = {"a"}
    MaxLen = 2
    MaxRequests = 3
    InitStored <- MCInitStored
    UNDEF = UNDEF
SPECIFICATION Spec
INVARIANTS TypeOK OnlyArraysReachBackend
PROPERTIES CommitOutcomeShown SessionRefined
\* A view whose requests are all answered waits for its user: it may stop.
CHECK_DEADLOCK FALSE
