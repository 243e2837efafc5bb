SPECIFICATION MCSpec
CONSTANTS
    None = None
    Second = 2
    Intervals <- MCIntervals
    MaxWall = 7
    MaxAge = 6
    MaxBoot = 1
    Keys = {"a", "b"}
    MaxIdentities = 2
    Window = 3
    PutMinInterval = 2
    PutPerMinute = 1
    AdmissionsPerMinute = 2
    WriterPerMinute = 3
    PolicyPerMinute = 1
    MaxTime = 7
    Endpoints = {1, 2, 3}
    Entries <- MCEntries
    Capacity = 2
    GcBatch = 1
    MaxStoreWall = 4
    MaxContinuous = 3
    MaxSets = 1
CHECK_DEADLOCK FALSE
INVARIANTS
    NeverOutlives
    RenewalProtected
    NothingAfterClose
    AnswersAgree
PROPERTIES
    ImplementsRecordStore
