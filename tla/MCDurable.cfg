SPECIFICATION MCSpec
CONSTANTS
    d1 = d1
    d2 = d2
    None = None
    Drafts <- MCDrafts
    Ttls = {1, 6}
    DeleteTtl = 2
    MaxRevision = 2
    MaxWall = 3
    RenameSurvives = TRUE
SYMMETRY Symmetry
CHECK_DEADLOCK FALSE
INVARIANTS
    ReleasedIsCommitted
    AnsweredSurvives
    CrashIsOpenable
PROPERTIES
    RevisionAdvancesByOne
    ImplementsRecordStore
    NothingMixed
