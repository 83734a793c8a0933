SPECIFICATION Spec
CONSTANTS
    k1 = k1
    k2 = k2
    p1 = p1
    p2 = p2
    Command = {k1, k2}
    Urgent = {}
    Direct = {k2}
    Unsupported = {}
    WithImages = {}
    Process = {p1, p2}
    MaxCommands = 2
    MaxFailures = 2
    MaxDaemonCrashes = 1
    MaxReloads = 0
    MaxDiskFaults = 0
    MaxLateAcks = 1
    Overlap = FALSE
    LateConfirm = FALSE
    MaxLocalPrompts = 1
    NoOwner = NoOwner
    NoJob = NoJob
    NoBoundary = NoBoundary
    NotLoaded = NotLoaded
INVARIANTS TypeOK NoSilentLoss Fifo FailedAfterAttempts AcceptedWasConfirmed
PROPERTIES ImplementsLifecycle
SYMMETRY ProcessSymmetry
CHECK_DEADLOCK FALSE
