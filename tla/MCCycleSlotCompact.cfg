SPECIFICATION Spec
CONSTANTS
    c1 = c1
    c2 = c2
    Client <- MCTwoClients
    None = None
    Worker = worker
    TurnBatch = 2
    QueueLimit = 2
    IdleFlush = TRUE
    Maintenance = TRUE
    RecallTimeout = TRUE
    MaxEvents = 3
    MaxCalls = 2
    MaxReviews = 0
    MaxFailures = 0
PROPERTY FlushEndsCompacted
CHECK_DEADLOCK FALSE
