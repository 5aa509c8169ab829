SPECIFICATION MCSpec
CONSTANTS
    t1 = t1
    t2 = t2
    t3 = t3
    m1 = m1
    m2 = m2
    m3 = m3
    Events <- MCEvents
    Handlers = {t1, t2, t3}
    Msgs = {m1, m2, m3}
    NKeys = 2
    MaxConc = 2
    Interval = 1
    Cooldown = 2
    MaxCrashes = 1
    None = None
    a1 = a1
    a2 = a2
    x = x
    Nothing = Nothing
    Posts = {a1, a2}
    Images = {x}
    Image <- MCImage
    Threads = {1, 2}
    FaultKinds = {"log", "scan", "parent", "list", "create", "history", "write"}
    MaxFaults = 1
    MaxBoots = 1
CHECK_DEADLOCK FALSE
INVARIANTS
    ActedOnce
    EnvRestored
    MemTypeOK
    StaysDenied
    OnlySure
PROPERTIES
    Gated
    HandlerEnds
    Persisted
