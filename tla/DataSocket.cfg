SPECIFICATION Spec
CONSTANTS
    SSLModes = {TRUE, FALSE}
    Sizes = {0, 3}
    MaxSends = 2
    MaxAfter = 1
    MaxIovec = 1
    SendBufSize = 2
    InitRecvSize = 1
    GrowSize = 1
    MaxRecvSize = 2
    MaxIncoming = 2
    MaxTimers = 1
INVARIANTS TypeOK NoUseAfterDelete StreamIntact NoStalledSend NoStalledRecv
