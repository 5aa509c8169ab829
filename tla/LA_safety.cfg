SPECIFICATION Spec
CONSTANTS
    Poll = poll
    Ingests = {i1}
    k1 = k1
    k2 = k2
    v1 = v1
    v2 = v2
    Keys = {k1, k2}
    Vids = {v1, v2}
    Feed <- MCFeed
    OldVids = {v2}
    QMax = 1
    SweepCap = 2
    FaultKinds = {"send", "reply", "crash", "torn", "check", "cloudflare", "unnamed"}
    MaxFaults = 2
    None = None
INVARIANTS
    NoResendInBoot
    NoDuplicatePosts
    QuietInCooldown
