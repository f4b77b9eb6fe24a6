CONSTANTS
    Names = {"p"}
    Vals = {"a"}
    MaxLen = 2
    MaxRequests = 3
    InitStored <- MCInitStored
    UNDEF = UNDEF
SPECIFICATION Spec
INVARIANT LastCommitStored
CHECK_DEADLOCK FALSE
