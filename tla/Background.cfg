CONSTANTS
    Horizon = 2
    Day = 3
    Config <- Configs
    PauseEnd <- PauseEnds
    MaxSlots = 2
    MaxLives = 2
    MaxSends = 2
    Slots = 2
    Lives = 2
    poster = poster
    Unset = Unset
    Thread <- Posters
    Message <- Messages
    TextOf <- MessageTexts
    MaxChars = 2
    MaxAttempts = 2
    Char = {1, 2, 3, NewLine}
    NewLine = NewLine
    msg = msg
    clear = clear
    yes = yes
    Event <- Events
    Kind <- Kinds
    Batching = TRUE
    MaxArrivals = 4
    MaxForgets = 1
    MaxOutages = 1
    NoArrival = NoArrival
    s1 = s1
    s2 = s2
    Sessions = {s1, s2}
    MaxMessages = 2
    Room <- Rooms
    ExtractBatch = 1
    SummaryBatch = 2
    Threshold = 2
    MaxTurns = 2
    MaxMishaps = 1
SPECIFICATION BackgroundSpec
INVARIANTS BackgroundTypeOK HandledAsSent MemoryIsComplete NothingIsSentTwice
PROPERTIES SentAsPlanned DueIsSettled EventsAreAnswered YieldsAndEnds
CHECK_DEADLOCK FALSE
