SPECIFICATION MCSpec
CHECK_DEADLOCK FALSE
INVARIANTS
    SessionsOwned
    StreamsComplete
    TabsConsistent
