SPECIFICATION FairSpec
CONSTANTS
    Poll = poll
    Ingests = {}
    k1 = k1
    k2 = k2
    v1 = v1
    v2 = v2
    Keys = {k1, k2}
    Vids = {v1, v2}
    Feed <- MCFeed
    OldVids = {}
    QMax = 1
    SweepCap = 2
    FaultKinds = {"send", "reply", "crash", "check", "history", "other", "delete", "unnamed"}
    MaxFaults = 4
    None = None
PROPERTIES
    RecordedNeverResent
    LiveEventuallyPosted
    PollReturns
    ImplementsLog
