CONSTANTS
    MaxId = 1
    MaxCrashes = 0
    Caller = {k1}
    Decider = {d1}
    Op = {write}
    Context = {c1}
    moveA = moveA
    moveB = moveB
    write = write
    noteA = noteA
    noteB = noteB
    path = path
    None = None
    Free = Free
    SessionTool = {"file.create"}
    Tool <- Tools
    Source <- Sources
SPECIFICATION Spec
INVARIANTS ApprovedIsInHand
CHECK_DEADLOCK FALSE
