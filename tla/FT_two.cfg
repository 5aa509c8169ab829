SPECIFICATION Spec
CONSTANTS
    hash = hash
    exact = exact
    w1 = w1
    w2 = w2
    u1 = u1
    u2 = u2
    s1 = s1
    Detectors = {exact}
    Msgs = {w1}
    Users = {u1}
    Sigs = {s1}
    Author <- MCAuthor
    Sig <- MCSig
    Shape <- MCShape
    Hit <- Confirmed
    DeleteOnHit = TRUE
    BanOnHit = FALSE
    Exposed = {}
    FaultKinds = {}
    MaxFaults = 0
INVARIANTS
    GateIsAbsolute
CHECK_DEADLOCK FALSE
