SPECIFICATION MCSpec
CHECK_DEADLOCK FALSE
INVARIANTS
    AttachedIsTold
    CloseIsFinal
    InUseIsKept
PROPERTIES
    PathsServe
