SPECIFICATION Spec
CONSTANTS
    tea = tea
    coffee = coffee
    None = None
    Text <- MCText
    MaxRecords = 2
    IdentityMax = 1
    ConfirmWindow = 0
    PurgeAfter = 1
    MaxReply = 2
    MaxRuns = 2
    MaxTime = 1
    MaxEvents = 3
INVARIANTS
    IndexAgrees
    CacheCurrent
PROPERTIES
    HostTextStands
    IdentityNeedsTwoCycles
    LawSpec
SYMMETRY MCAnyText
CHECK_DEADLOCK FALSE
