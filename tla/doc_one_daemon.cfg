SPECIFICATION Spec
CONSTANTS
    p1 = p1
    p2 = p2
    p3 = p3
    Proc = {p1, p2, p3}
    Outdated = {p1}
    None = None
    MaxAttempts = 2
    MaxOverlaps = 0
    MaxTroubles = 0
INVARIANT OneDaemon
CHECK_DEADLOCK FALSE
