SPECIFICATION FairSpec
CONSTANTS
    c1 = c1
    c2 = c2
    Client <- MCTwoClients
    None = None
    Worker = worker
    TurnBatch = 2
    QueueLimit = 1
    IdleFlush = TRUE
    Maintenance = TRUE
    RecallTimeout = TRUE
    MaxEvents = 2
    MaxCalls = 2
    MaxReviews = 1
    MaxFailures = 1
INVARIANTS OneGeneration NoLostWakeup
PROPERTIES TurnsGetTheirCycle EveryCallReturns
CHECK_DEADLOCK FALSE
