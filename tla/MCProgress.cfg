SPECIFICATION MCSpec
CONSTANTS
    f1 = f1
    f2 = f2
    Feeds = {f1, f2}
    Expiry <- MCExpiry
    MaxTime = 2
    MaxCalls = 2
    Unset = Unset
    None = None
    Self = self
    Drafts = {d1, d2}
    Ttls = {3}
    Ttl = 3
    DeleteTtl = 2
    MaxRevision = 3
    MaxWall = 3
    RenameSurvives = TRUE
    WriteErrors = {"full", "died"}
    MaxFaults = 1
CHECK_DEADLOCK FALSE
INVARIANTS
    FreshIsOwned
    LoopsAreSound
PROPERTIES
    NeverBackwards
    Settles
    EveryWaitEnds
