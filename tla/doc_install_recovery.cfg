SPECIFICATION Spec
CONSTANTS
    r1 = r1
    r2 = r2
    Release = {r1, r2}
    None = None
    MaxFaults = 0
    MaxCrashes = 2
INVARIANTS InterruptedIsRecoverable
