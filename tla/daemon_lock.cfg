SPECIFICATION FairSpec
CONSTANTS
    p1 = p1
    p2 = p2
    p3 = p3
    Proc = {p1, p2, p3}
    Outdated = {p1}
    None = None
    MaxAttempts = 2
    MaxOverlaps = 1
    MaxTroubles = 1
INVARIANTS TypeOK OneDaemonUntilDisturbed
PROPERTIES DuplicatesDieOut SurvivorIsFound
CHECK_DEADLOCK FALSE
