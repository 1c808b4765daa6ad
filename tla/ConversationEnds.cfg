CONSTANTS
    r1 = r1
    r2 = r2
    r3 = r3
    s1 = s1
    Request = {r1, r2}
    Session = {s1}
    SessionOf <- OneSession
    Canceller = {}
    Stopper = {shutdown}
    MaxServerCrashes = 1
    NoRequest = NoRequest
SPECIFICATION FairConversationSpec
PROPERTIES ConversationsEnd
CHECK_DEADLOCK FALSE
