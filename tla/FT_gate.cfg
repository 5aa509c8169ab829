SPECIFICATION FairSpec
CONSTANTS
    hash = hash
    exact = exact
    w1 = w1
    w2 = w2
    u1 = u1
    u2 = u2
    s1 = s1
    Detectors = {hash, exact}
    Msgs = {w1, w2}
    Users = {u1, u2}
    Sigs = {s1}
    Author <- MCAuthor
    Sig <- MCSig
    Shape <- MCShape
    Hit <- MixedHits
    DeleteOnHit = TRUE
    BanOnHit = TRUE
    Exposed = {w1}
    FaultKinds = {"crash", "ban", "send", "delete", "disk", "edit", "author", "read", "fetch"}
    MaxFaults = 2
INVARIANTS
    GateHolds
PROPERTIES
    FalseIsSkipped
    AttackLeadsToBan
CHECK_DEADLOCK FALSE
