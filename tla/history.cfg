SPECIFICATION Spec
CONSTANTS
    None = None
    Ahead = FALSE
    MaxQueued = 2
    MaxAttempts = 2
    MaxPending = 1
    MaxEntries = 2
    MaxUpdates = 1
    MaxInstances = 2
    MaxFaults = 2
INVARIANTS TypeOK CheckpointIsProven HolesAreGaps TakenOnce
CHECK_DEADLOCK FALSE
