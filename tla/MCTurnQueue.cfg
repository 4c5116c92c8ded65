SPECIFICATION Spec
CONSTANTS
    chat = chat
    build = build
    Scope <- MCScope
    Bytes <- MCBytes
    EventQueueMax = 4
    QueueEvents = 3
    QueueBytes = 5
    FirstCap = 1
    TurnBatch = 2
    BatchMax = 3
    MaxAdmitted = 5
INVARIANTS
    Bounded
    BytesExact
    RestoreFits
    AdmissionOrder
PROPERTY FifoSpec
CHECK_DEADLOCK FALSE
