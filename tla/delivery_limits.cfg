SPECIFICATION FairSpec
CONSTANTS
    k1 = k1
    k2 = k2
    k3 = k3
    p1 = p1
    p2 = p2
    Command = {k1, k2, k3}
    Urgent = {k2}
    Direct = {}
    Unsupported = {k3}
    WithImages = {k3}
    Process = {p1}
    MaxCommands = 1
    MaxFailures = 2
    MaxDaemonCrashes = 0
    MaxReloads = 1
    MaxDiskFaults = 1
    MaxLateAcks = 0
    Overlap = FALSE
    LateConfirm = TRUE
    MaxLocalPrompts = 0
    NoOwner = NoOwner
    NoJob = NoJob
    NoBoundary = NoBoundary
    NotLoaded = NotLoaded
CHECK_DEADLOCK FALSE
INVARIANTS NoSilentLoss AcceptedWasConfirmed
PROPERTIES EveryCommandSettles
