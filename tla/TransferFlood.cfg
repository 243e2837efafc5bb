SPECIFICATION Spec
CONSTANTS
    Parts = 4
    Chunks = {1, 2}
    QueueSize = 3
    MaxFaults = 0
    None = None
CHECK_DEADLOCK FALSE
INVARIANT
    HonestNeverFloods
