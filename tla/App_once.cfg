CONSTANTS
    Schemas = {s1, s2}
    Ids = {1}
    MaxRequests = 3
    UNDEF = UNDEF
SPECIFICATION Spec
INVARIANT SchemasRequestedOnce
\* A page whose requests are all answered waits for its user: it may stop.
CHECK_DEADLOCK FALSE
