SPECIFICATION FairHostSpec
CONSTANTS
    chat = chat
    build = build
    h1 = h1
    h2 = h2
    None = None
    Scope <- MCScope
    Kind <- MCTurns
    Deferred <- MCNone
    Appender <- MCAppender
    QueueLimit = 1
    TurnBatch = 1
    Faults <- MCFaults
    MaxLog = 2
    MaxOps = 1
    MaxFaults = 2
    MaxRestarts = 1
    MaxFlushes = 1
PROPERTIES
    EventuallyCurated
    FlushEnds
    RecoveryCompletes
CHECK_DEADLOCK FALSE
