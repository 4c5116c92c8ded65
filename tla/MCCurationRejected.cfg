SPECIFICATION Spec
CONSTANTS
    chat = chat
    build = build
    h1 = h1
    h2 = h2
    None = None
    Scope <- MCScope
    Kind <- MCTurns
    Deferred <- MCNone
    Appender <- MCAppender
    QueueLimit = 2
    TurnBatch = 1
    Faults <- MCNone
    MaxLog = 2
    MaxOps = 1
    MaxFaults = 1
    MaxRestarts = 0
    MaxFlushes = 1
INVARIANTS
    RejectedNotAcknowledged
CHECK_DEADLOCK FALSE
