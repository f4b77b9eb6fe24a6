CONSTANTS
    Names = {"p"}
    Vals = {"a"}
    MaxLen = 2
    MaxRequests = 3
    InitStored <- MCInitStored
    UNDEF = UNDEF
SPECIFICATION Spec
PROPERTY LoadFailureReported
CHECK_DEADLOCK FALSE
