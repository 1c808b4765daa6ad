CONSTANTS
    MaxId = 2
    MaxCrashes = 1
    Caller = {k1, k2}
    Decider = {d1, d2}
    Op = {moveA, moveB, write}
    Context = {c1}
    moveA = moveA
    moveB = moveB
    write = write
    noteA = noteA
    noteB = noteB
    path = path
    None = None
    Free = Free
    SessionTool = {"file.create"}
    Tool <- Tools
    Source <- Sources
SPECIFICATION Spec
INVARIANTS TypeOK RanOnlyWithConsent PredecessorsSucceeded OneOperationEach
PROPERTIES ImplementsLedger ReportsHold
SYMMETRY Symmetry
CHECK_DEADLOCK FALSE
