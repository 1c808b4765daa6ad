CONSTANTS
    t1 = t1
    t2 = t2
    a1 = a1
    a2 = a2
    Task = {t1, t2}
    Caller = {a1}
    None = None
    MaxRetries = 1
    ReadOnlyIsolated = TRUE
    ActionPolicy = TRUE
    MaxCrashes = 0
SPECIFICATION Spec
INVARIANTS AbortedIsStopped
CHECK_DEADLOCK FALSE
