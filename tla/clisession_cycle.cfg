SPECIFICATION FairSpec
CONSTANTS
    UserJobs = {j1}
    CliServer = clisrv
    Loops = {}
    Singletons = {clisrv}
    Throwers = {}
    Unknown = unknown
    Typed = {unknown}
    ApiJobs = {}
    Envs = {e1}
    UartLen = 1
    CoreLen = 1
    Paced = FALSE
    MaxLines = 5
    MaxLaunches = 0
    Blank = Blank
    Overlong = Overlong
    NULL = NULL
PROPERTIES
    CoreReturns
CHECK_DEADLOCK FALSE
