SPECIFICATION MCSpec
CONSTANTS
    Msgs = {m1, m2, m3}
    Delays = {0, 2}
    QMax = 1
    MinInterval = 2
    MaxTries = 2
    Backoffs = {2, 3}
    Worker = worker
    None = None
    k1 = k1
    k2 = k2
    k3 = k3
    Keys = {k1, k2, k3}
    Ttl <- MCTtl
    MemMax = 1
    MemGcEvery = 1
    DbMax = 2
    DbGcEvery = 2
    Start = 2
    MaxTime = 5
    NoCall = NoCall
CHECK_DEADLOCK FALSE
INVARIANTS
    NoFalseSkip
PROPERTIES
    OneLossIsSafe
    WorkerPaced
    EveryMessageHandled
