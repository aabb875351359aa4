SPECIFICATION FairSpec
CONSTANTS
    Builds <- AllBuilds
    UserJobs = {u1, u2}
    UartSize = 1
    MaxInits = 3
INVARIANTS
    TypeOK
    InitComplete
PROPERTIES
    InitOnce
    InitReturns
    LaunchedRuns
CHECK_DEADLOCK FALSE
