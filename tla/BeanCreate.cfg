CONSTANTS
    Names = {"p"}
    Vals = {"a"}
    MaxLen = 2
    MaxRequests = 2
    UNDEF = UNDEF
SPECIFICATION Spec
INVARIANTS TypeOK OnlyArraysReachBackend
PROPERTY CreateOutcomeShown
\* A view whose requests are all answered waits for its user: it may stop.
CHECK_DEADLOCK FALSE
