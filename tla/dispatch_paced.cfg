SPECIFICATION FairSpec
CONSTANTS
    c1 = c1
    c2 = c2
    u1 = u1
    u2 = u2
    Clients = {c1, c2}
    CliServers = {clisrv}
    CoreJob = core
    UserJobs = {u1, u2}
    Singletons = {core, clisrv, u1, u2}
    Loops = {u2}
    Throwers = {u1}
    Owns <- OwnsOneEach
    Paced = {c1, c2}
    Unregisterers = {c1}
    Envs = {e1, e2}
    ArgStrings = {x, y}
    NoArgs = noargs
    QSize = 1
    UartSize = 1
    Quota <- QuotaTwoAndOne
    MaxReq = 2
    MaxTyped = 1
    NULL = NULL
INVARIANTS
    SingletonExclusive
    RunningJobHasHandle
    ArgsAsRequested
    NoFreedJobInUse
    AcceptedIsLaunched
PROPERTIES
    RequestAnswered
