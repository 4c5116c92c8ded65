SPECIFICATION Spec
CONSTANTS
    chat = chat
    build = build
    h1 = h1
    h2 = h2
    None = None
    Scope <- MCScope
    Kind <- MCKinds
    Deferred <- MCNone
    Appender <- MCAppenders
    QueueLimit = 2
    TurnBatch = 1
    Faults <- MCFaults
    MaxLog = 2
    MaxOps = 1
    MaxFaults = 2
    MaxRestarts = 2
    MaxFlushes = 1
INVARIANTS
    OneClaimPerSource
    AckNeedsDurableEffects
PROPERTIES
    LedgerSpec
CHECK_DEADLOCK FALSE
