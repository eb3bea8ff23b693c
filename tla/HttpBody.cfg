SPECIFICATION HttpSpec
CONSTANTS
    Requests <- PlainRequests
    MaxRequests = 2
INVARIANT BodyIsOwn
CHECK_DEADLOCK FALSE
