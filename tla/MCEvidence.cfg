SPECIFICATION EvidenceSpec
CONSTANTS
    h1 = h1  h2 = h2
    ta = ta  tb = tb
    Hosts = {h1, h2}
    Texts = {ta, tb}
    Origin = Origin  NoRef = NoRef  NoText = NoText
    Workloads <- MCWorkloads
    Bodies <- MCBodies
    Inputs <- MCInputs
    PageLimit = 1
    MaxCalls = 5
    Earlier = 2
    MaxFrames = 3
    MaxLogFaults = 1
    Views <- MCViews
    Budgets = {1, 2, 3}
    Sections <- MCSections
    MaxEvents = 2
    Slacks = {0, 1}
    Ids = {1, 2, 3}
    c1 = c1  c2 = c2  v1 = v1  v2 = v2
    Contents = {c1, c2}
    FirstContent = c1
    Versions = {v1, v2}
    Groundings <- MCGroundings
    StartLogs <- MCStartLogs
    NoVersion = NoVersion  Gone = Gone
    MaxOps = 3
    MaxKFaults = 1
    Threads = {1, 2, 3}
    Free = Free
    Lines <- MCLines
    Memories <- MCMemories
    Requests <- MCRequests
    NoProject = NoProject  Purged = Purged
    MaxChanges = 1
    NoLine = NoLine  NotCalled = NotCalled
SYMMETRY Symmetry
INVARIANTS
    DurableKept
    ReadersExact
    EvidenceBacked
    CheckpointFresh
    HistoryExact
    RevisionsReplay
    CurrentIsEarned
    NobodyStuck
    AnswersTell
    PromptExact
CHECK_DEADLOCK FALSE
