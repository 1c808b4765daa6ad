CONSTANTS
    N = 4
    Sidecar <- Logs
    Bundles <- Archives
    Content = {a, b}
    Process = {p1, p2}
    None = None
    ChatMessage = {"m"}
    Texts <- MessageTexts
    Model = {"text", "vision"}
    Sees = {"vision"}
    MaxSwaps = 2
    Call = {1, 2}
    Pieces = 2
    MaxTexts = 2
    Costs = {1, 2}
    MaxHistory = 3
    Blocks = {11, 12}
    MaxDepth = 3
    MaxLimit = 9
    e1 = e1
    e2 = e2
    e3 = e3
    b1 = b1
    Entry = {e1, e2, e3}
    Book = {b1}
    Lores <- EntrySettings
    Shelves <- BookSettings
    Finds <- KeyPlaces
    MaxSequence = 4
    Character = {"baiye", "other"}
    Default = "baiye"
    Lorebook = {"book"}
    Chat = {"s"}
    MaxEdits = 3
    MaxTraces = 2
    Endpoint = {"e", "f"}
    Key = {"k", "l"}
    Account = {"a", "b", "c"}
    StartEndpoint = "e"
    StartKey = "k"
    StartAccount = "a"
    Room = {"x", "y"}
    Upload = {"u1", "u2"}
    Turn = {"t1", "t2"}
    Workers = 2
    Tool = {"t1", "t2"}
    ToolFile = {"f1", "f2"}
    MaxState = 3
    Query = {"q1", "q2"}
    Item = {"e1", "e2"}
    Folder = {"d1", "d2"}
    MaxFound = 1
SPECIFICATION ServerSpec
INVARIANTS ServerTypeOK RestoreIsWhole MessagesStayWhereTheyBelong AnswersAreWhole PromptIsInShape TracesTellWhatWasUsed KeysStayWithTheirEndpoint FilesHaveOwners FileToolsAreHonest
PROPERTIES ImplementsStore
CHECK_DEADLOCK FALSE
