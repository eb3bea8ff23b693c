SPECIFICATION Spec
CONSTANTS
    Producers = {p1, p2}
    LoopThread = loop
    NoThread = none
    Channels = {sock}
    Wakeup = wakeup
    TimerCallers = {p1}
    MaxPosts = 1
    MaxLoopPosts = 1
    InitEntries = 1
    GrowEntries = 1
INVARIANT TimerMgrOnlyOnLoopThread
