SPECIFICATION Spec
CONSTANTS
    SSLModes = {TRUE}
    Sizes = {1}
    MaxSends = 1
    MaxAfter = 2
    MaxIovec = 1
    SendBufSize = 2
    InitRecvSize = 1
    GrowSize = 1
    MaxRecvSize = 2
    MaxIncoming = 1
    MaxTimers = 1
INVARIANT ClosedIsDeletable
