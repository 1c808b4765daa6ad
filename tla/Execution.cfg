CONSTANTS
    t1 = t1
    t2 = t2
    Task = {t1, t2}
    Caller = {a1}
    None = None
    MaxRetries = 1
    ReadOnlyIsolated = TRUE
    ActionPolicy = FALSE
    MaxCrashes = 1
    read = read
    find = find
    write = write
    move1 = move1
    move2 = move2
    sendA = sendA
    sendB = sendB
    a = a
    b = b
    Call <- Calls
    Kind <- Kinds
    PathOf <- Paths
    Path = {a, b}
    MaxCalls = 2
    MaxRounds = 3
    Concurrency = 2
    MaxOrchestrated = 2
SPECIFICATION ExecutionSpec
INVARIANTS ExecutionTypeOK AbortedIsStopped RunsAreTracked EffectsAreOrderly DeliveryIsTrue
PROPERTIES MeetsContract WorkIsFinished
CHECK_DEADLOCK FALSE
