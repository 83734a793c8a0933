SPECIFICATION FairSpec
CONSTANTS
    h1 = h1
    h2 = h2
    o1 = o1
    o2 = o2
    a = a
    b = b
    f1 = f1
    NoPage = NoPage
    NoPost = NoPost
    NoFetch = NoFetch
    Unknown = Unknown
    PhoneKey = {h1, h2}
    Unreadable = {h2}
    OwnKey = {o1}
    Content = {a}
    Message <- OneMessage
    Flusher = {}
    PageSize = 1
    BatchSize = 1
    MaxLives = 2
    MaxFaults = 1
    Online = TRUE
INVARIANTS TypeOK RoutedWithoutGap
PROPERTIES EveryMessageRouted OutboxDrains
CHECK_DEADLOCK FALSE
