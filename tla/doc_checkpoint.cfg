SPECIFICATION Spec
CONSTANTS
    None = None
    Ahead = TRUE
    MaxQueued = 2
    MaxAttempts = 2
    MaxPending = 1
    MaxEntries = 2
    MaxUpdates = 0
    MaxInstances = 1
    MaxFaults = 1
INVARIANTS CheckpointIsProven
CHECK_DEADLOCK FALSE
