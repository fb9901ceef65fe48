SPECIFICATION Spec
CONSTANTS
    Chats = {a, b}
    Strangers = {b}
    Inbox = {m1, m2, m3}
    Unsigned = {m3}
    Unwelcome = {m2}
    ToolCalls = {c1, c2}
    Spawned = {t1, t2}
    QueueCap = 1
    BatchSize = 2
    PerChat = 2
    TableSize = 1
    MaxReq = 3
    MaxConns = 2
    MaxProcessed = 1
    MaxStarts = 2
    MaxUnmarked = 2
    MaxSessions = 3
    MaxIters = 2
INVARIANTS
    ReplyNotStale
    HandedOver
    RunAgainOnlyIfClosed
PROPERTIES
    StopReturns
    SpawnedAnnounces
CHECK_DEADLOCK FALSE
