SPECIFICATION PartsSpec
CONSTANTS
    Producers = {p1, p2}
    LoopThread = loop
    NoThread = none
    Channels = {sock}
    Wakeup = wakeup
    TimerCallers = {}
    MaxPosts = 1
    MaxLoopPosts = 1
    InitEntries = 1
    GrowEntries = 0
    MaxClients = 3
    MaxBacklog = 2
    MaxListens = 2
    MaxMsgs = 2
    Fds = {3, 4}
    FdsetSize = 1
    FdsetStep = 1
    MaxRwMsgs = 4
    MaxPending = 1
    Workers = {w1, w2}
    MaxPoolMsgs = 3
INVARIANTS
    OnlyClientsHandedOver ClosedMeansStopped
    RequestInOnePlace ConnectingTablesAgree
    NoStrandedMessage
PROPERTIES EveryProcRuns HandsOverConnected CloseReturns EveryRequestAnswered RwImplementsFifo
CHECK_DEADLOCK FALSE
