SPECIFICATION Spec
CONSTANTS
    h1 = h1
    h2 = h2
    o1 = o1
    o2 = o2
    a = a
    b = b
    f1 = f1
    NoPage = NoPage
    NoPost = NoPost
    NoFetch = NoFetch
    Unknown = Unknown
    PhoneKey = {}
    Unreadable = {}
    OwnKey = {o1, o2}
    Content = {a, b}
    Message <- ClashingMessages
    Flusher = {f1}
    PageSize = 1
    BatchSize = 1
    MaxLives = 2
    MaxFaults = 1
    Online = FALSE
INVARIANTS LoggedOnce KnownIsLogged OutboxInOrder FlushMeansLogged
CHECK_DEADLOCK FALSE
