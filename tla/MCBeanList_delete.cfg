CONSTANTS
    s1 = s1
    s2 = s2
    Schemas <- MCSchemas
    Ids <- MCIds
    PageSize = 2
    MaxRequests = 4
    MaxOther = 1
    InitServer <- MCInitServer
    UNDEF = UNDEF
SPECIFICATION Spec
PROPERTY DeleteTargetsShownBean
\* A view whose requests are all answered waits for its user: it may stop.
CHECK_DEADLOCK FALSE
