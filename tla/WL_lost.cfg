SPECIFICATION Spec
CONSTANTS
    Loop = loop
    Ready = ready
    m1 = m1
    m2 = m2
    d = d
    a = a
    b = b
    Msgs = {m1, m2}
    Files = {}
    Targets = {d, a, b}
    Carries <- MCCarries
    Deploy = {d}
    MaxPosts = 2
    MaxFaults = 0
    MaxCrashes = 0
    None = None
INVARIANTS
    NothingLost
