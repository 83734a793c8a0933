SPECIFICATION Spec
CONSTANTS
    k1 = k1
    p1 = p1
    Command = {k1}
    Urgent = {}
    Direct = {}
    Unsupported = {}
    WithImages = {}
    Process = {p1}
    MaxCommands = 1
    MaxFailures = 3
    MaxDaemonCrashes = 0
    MaxReloads = 0
    MaxDiskFaults = 0
    MaxLateAcks = 0
    Overlap = FALSE
    LateConfirm = TRUE
    MaxLocalPrompts = 0
    NoOwner = NoOwner
    NoJob = NoJob
    NoBoundary = NoBoundary
    NotLoaded = NotLoaded
INVARIANTS TakenAtMostOnce
CHECK_DEADLOCK FALSE
