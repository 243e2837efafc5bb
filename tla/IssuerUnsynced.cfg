SPECIFICATION Spec
CONSTANTS
    None = None
    Drafts = {d1, d2}
    Ttls = {1, 6}
    DeleteTtl = 2
    MaxRevision = 2
    MaxWall = 3
    RenameSurvives = FALSE
INVARIANT
    ReleasedIsCommitted
