SPECIFICATION FairSpec
CONSTANTS
    r1 = r1
    r2 = r2
    session = session
    t1 = t1
    c1 = c1
    c2 = c2
    NoTask = NoTask
    Nobody = Nobody
    NoMirror = NoMirror
    Request = {r1, r2}
    Tui = {t1}
    Child = {c1}
    Task <- AllTasks
    Key = {session}
    KeyOf <- OneKey
    MaxRestarts = 1
    MaxStops = 1
INVARIANTS TypeOK Exclusive FirstComeFirstServed HolderRuns NoMirrorWhileSpawning
PROPERTIES NoSpawnUnderSignal EveryRequestAnswered
CHECK_DEADLOCK FALSE
