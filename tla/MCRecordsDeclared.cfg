SPECIFICATION Spec
CONSTANTS
    tea = tea
    coffee = coffee
    None = None
    Text <- MCText
    MaxRecords = 2
    IdentityMax = 1
    ConfirmWindow = 0
    PurgeAfter = 1
    MaxReply = 2
    MaxRuns = 2
    MaxTime = 1
    MaxEvents = 2
SYMMETRY MCAnyText
PROPERTY DeclarationSurvives
CHECK_DEADLOCK FALSE
