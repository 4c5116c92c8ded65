SPECIFICATION Spec
CONSTANTS
    chat = chat
    build = build
    h1 = h1
    h2 = h2
    None = None
    Scope <- MCScopes
    Kind <- MCTurns
    Deferred <- MCDeferred
    Appender <- MCAppender
    QueueLimit = 2
    TurnBatch = 1
    Faults <- MCAdmissionFaults
    MaxLog = 2
    MaxOps = 0
    MaxFaults = 1
    MaxRestarts = 1
    MaxFlushes = 1
INVARIANTS
    NoTurnLost
    QueuedOnce
    NoForgottenBacklog
    CuratedIsPrefix
    FlushCovers
CHECK_DEADLOCK FALSE
