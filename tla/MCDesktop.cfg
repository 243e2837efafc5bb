SPECIFICATION MCSpec
CHECK_DEADLOCK FALSE
PROPERTIES
    MediaHolds
    PacingIsCalm
    RepliesTruthful
    WatchdogsPatient
