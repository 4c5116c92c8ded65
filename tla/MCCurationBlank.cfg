SPECIFICATION Spec
CONSTANTS
    chat = chat
    build = build
    h1 = h1
    h2 = h2
    None = None
    Scope <- MCScope
    Kind <- MCBlank
    Deferred <- MCNone
    Appender <- MCAppender
    QueueLimit = 2
    TurnBatch = 1
    Faults <- MCNone
    MaxLog = 2
    MaxOps = 1
    MaxFaults = 1
    MaxRestarts = 1
    MaxFlushes = 1
INVARIANTS
    ReplayableAfterRestart
CHECK_DEADLOCK FALSE
