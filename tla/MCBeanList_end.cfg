CONSTANTS
    s1 = s1
    s2 = s2
    Schemas <- EndSchemas
    Ids <- EndIds
    PageSize = 2
    MaxRequests = 6
    MaxOther = 2
    InitServer <- EndInitServer
    UNDEF = UNDEF
SPECIFICATION Spec
PROPERTY NoRequestPastReportedEnd
\* A view whose requests are all answered waits for its user: it may stop.
CHECK_DEADLOCK FALSE
