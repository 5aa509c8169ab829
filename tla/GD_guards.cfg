SPECIFICATION Spec
CONSTANTS
    None = None
    Msgs = {1, 2, 3, 4, 5, 6, 7, 8, 9, 10, 11, 12, 13, 14, 15}
    Users = {"ann", "bob"}
    Author <- mcAuthor
    Channel <- mcChannel
    Traits <- mcTraits
    Scope <- mcScope
    Pics = {"jpg", "png", "webp"}
    Named = {"webp"}
    Holds <- mcHolds
    MaxImages = 2
    Batches <- mcBatches
    FaultKinds = {"ban", "delete", "read", "groq", "429", "forget", "sweep", "tb", "moderator"}
    MaxFaults = 1
INVARIANTS TypeOK EvidenceSettled BannedForCause AskedOnce
PROPERTIES BlastContained Judged
CHECK_DEADLOCK FALSE
