SPECIFICATION Spec
CONSTANTS
    Loops = {l1}
    Callers = {t1}
    Cacher = t1
    Socks = {s1, s2}
    Null = Null
    IncreaseNum = 2
    IndexMod = 4
    IidMod = 4
    MaxOps = 2
    MaxStarts = 2
SYMMETRY Symmetry
CHECK_DEADLOCK FALSE
INVARIANT OpsReachTheirSession
