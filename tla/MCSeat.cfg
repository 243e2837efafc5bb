SPECIFICATION MCSpec
CHECK_DEADLOCK FALSE
INVARIANTS
    InputOwned
    PortalConsistent
PROPERTIES
    TextsAreTrue
