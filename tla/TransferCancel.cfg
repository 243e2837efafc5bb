SPECIFICATION Spec
CONSTANTS
    Parts = 2
    Chunks = {1, 2}
    QueueSize = 3
    MaxFaults = 1
    None = None
CHECK_DEADLOCK FALSE
INVARIANT
    CancelJoinsWriter
