SPECIFICATION FairSpec
CONSTANTS
    SSLModes = {FALSE}
    Sizes = {2}
    MaxSends = 2
    MaxAfter = 2
    MaxIovec = 1
    SendBufSize = 2
    InitRecvSize = 1
    GrowSize = 1
    MaxRecvSize = 2
    MaxIncoming = 1
    MaxTimers = 1
PROPERTIES GoneIsDeleted SendsFinish
