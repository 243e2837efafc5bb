SPECIFICATION MCSpec
CONSTANTS
    PathOrder <- MCPathOrder
    Parent <- MCParent
    NoParent = ""
    Contents = {"one", "two"}
    Bases <- MCBases
    Receivers = {"r1", "r2"}
    None = None
CHECK_DEADLOCK FALSE
INVARIANTS
    PlansAreSound
    DestinationComplete
    SuccessIsInstalled
PROPERTIES
    ListingIsTrue
