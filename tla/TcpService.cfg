SPECIFICATION FairSpec
CONSTANTS
    Loops = {l1, l2}
    Callers = {t1}
    Cacher = t1
    Socks = {s1, s2}
    Null = Null
    IncreaseNum = 1
    IndexMod = 4
    IidMod = 4
    MaxOps = 2
    MaxStarts = 1
INVARIANTS TypeOK TablesSound OpsReachTheirSession SendOrder
PROPERTY DisconnectEndsSession
CHECK_DEADLOCK FALSE
