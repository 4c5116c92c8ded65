SPECIFICATION FairSpec
CONSTANTS
    Files <- MCFiles
    Sections <- MCSections
    None = None
    MaxIssued = 2
    MaxFaults = 2
    MaxCrashes = 2
    MaxCompactions = 2
INVARIANTS
    NoPromiseBroken
    LossFromTheEnd
    NothingComesBack
    MemoryMatchesDisk
PROPERTY OpensAgain
CHECK_DEADLOCK FALSE
