SPECIFICATION Spec
CONSTANTS
    r1 = r1
    r2 = r2
    r3 = r3
    Release = {r1, r2, r3}
    None = None
    MaxFaults = 3
    MaxCrashes = 2
INVARIANTS TypeOK ConsistentAtRest RollbackReady QuarantinedNotInstalled
PROPERTIES ImplementsAtomicInstall
SYMMETRY ReleaseSymmetry
