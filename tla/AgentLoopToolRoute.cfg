SPECIFICATION Spec
CONSTANTS
    b1 = b1  b2 = b2  b3 = b3  d1 = d1  d2 = d2
    s1 = s1  s2 = s2
    c1 = c1  c2 = c2
    NoRun = NoRun  NoChat = NoChat
    BusRequests = {b1, b2}
    DirectRequests = {}
    Sessions = {s1, s2}
    Chats = {c1, c2}
    SessionOf <- MCSessionOf
    ChatOf <- MCChatOf
    Command <- MCAllChat
    InboundCap = 1
    OutboundCap = 1
    MaxIter = 2
    RunTimeout = FALSE
INVARIANTS
    ToolMessagesStayInChat
CHECK_DEADLOCK FALSE
