SPECIFICATION FairSpec
CONSTANTS
    Loop = loop
    Ready = ready
    m1 = m1
    m2 = m2
    d = d
    a = a
    b = b
    Msgs = {m1, m2}
    Files = {m2}
    Targets = {d, a, b}
    Carries <- MCCarries
    Deploy = {d}
    MaxPosts = 1
    MaxFaults = 1
    MaxCrashes = 1
    None = None
INVARIANTS
    SafeAlone
PROPERTIES
    Converges
