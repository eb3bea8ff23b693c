SPECIFICATION Spec
CONSTANTS
    MaxMsgs = 4
    CoCap = 2
    MaxCos = 4
    MaxSwitches = 2
    TimerNodes = 1
    MaxTimers = 3
    MaxNow = 2
    PoolLens <- Lens
    BaseNum = 2
    MaxNodes = 2
    BufferSize = 2
    BufferGrow = 1
    BufferMax = 4
    MaxBytes = 7
    PacketSize = 9
    FieldInts = {1, 258, 16909060}
    FieldBinaries <- Binaries
    MaxFields = 3
    WsLens = {0, 126, 65536}
    WsOpcodes = {0, 1, 9}
    MaxFrames = 3
    Requests <- AllRequests
    MaxRequests = 3
    RpcArgs <- Args
    MaxCalls = 3
INVARIANTS
    QueueIntact ActiveListSound RunsOnItsOwnStack TimersSound PoolsSound
    ReceivedBytesIntact FieldsReadBack WsMessagesIntact RequestsIntact
    AnswersFindTheirCall ArgumentsArrive
CHECK_DEADLOCK FALSE
