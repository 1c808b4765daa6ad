CONSTANTS
    r1 = r1
    r2 = r2
    r3 = r3
    s1 = s1
    c1 = c1
    Request = {r1, r2, r3}
    Session = {s1}
    SessionOf <- OneSession
    Canceller = {c1}
    Stopper = {}
    MaxServerCrashes = 1
    NoRequest = NoRequest
    t1 = t1
    t2 = t2
    a1 = a1
    a2 = a2
    Task = {t1, t2}
    Caller = {a1, a2}
    None = None
    MaxRetries = 1
    ReadOnlyIsolated = TRUE
    ActionPolicy = TRUE
    MaxCrashes = 1
    Scope = {"k"}
    Value = {"v", "w"}
    Content = {note}
    Reader = {"reader"}
    MaxFacts = 2
    MaxEpisodes = 1
SPECIFICATION ChatsSpec
INVARIANTS ChatsTypeOK OneReplyEach BooksAreKept RepeatsAreSafe MemoryIsHonest
PROPERTIES EndsAreFinal
SYMMETRY Symmetry
CHECK_DEADLOCK FALSE
