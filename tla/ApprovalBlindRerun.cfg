CONSTANTS
    MaxId = 2
    MaxCrashes = 1
    Caller = {k1}
    Decider = {d1}
    Op = {noteA, noteB}
    Context = {c1}
    moveA = moveA
    moveB = moveB
    write = write
    noteA = noteA
    noteB = noteB
    path = path
    None = None
    Free = Free
    SessionTool = {"file.create"}
    Tool <- Tools
    Source <- Sources
SPECIFICATION Spec
PROPERTIES NoBlindRerun
CHECK_DEADLOCK FALSE
