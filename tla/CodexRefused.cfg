SPECIFICATION DispatchSpec
CONSTANTS
    ChatMessage = {"m", "n"}
    Texts <- MCTexts
    Model = {"text", "vision"}
    Sees = {"vision"}
    MaxSwaps = 1
INVARIANTS CodexRequestsReachCodex
CHECK_DEADLOCK FALSE
