SPECIFICATION FairSpec
CONSTANTS
    UserJobs = {j1, loop1, api1}
    CliServer = clisrv
    Loops = {loop1}
    Singletons = {clisrv, loop1}
    Throwers = {j1}
    Unknown = unknown
    Typed = {j1, loop1, unknown}
    ApiJobs = {api1}
    Envs = {e1, e2, e3, e4}
    UartLen = 1
    CoreLen = 1
    Paced = TRUE
    MaxLines = 3
    MaxLaunches = 1
    Blank = Blank
    Overlong = Overlong
    NULL = NULL
INVARIANTS
    TypeOK
    HeadersEarned
    LinesInOrder
PROPERTIES
    SessionCloses
