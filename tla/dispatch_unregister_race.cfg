SPECIFICATION Spec
CONSTANTS
    c1 = c1
    c2 = c2
    u1 = u1
    u2 = u2
    Clients = {c1}
    CliServers = {}
    CoreJob = core
    UserJobs = {u1}
    Singletons = {core, u1}
    Loops = {}
    Throwers = {}
    Owns <- OwnsShared
    Paced = {}
    Unregisterers = {c1}
    Envs = {e1, e2}
    ArgStrings = {x, y}
    NoArgs = noargs
    QSize = 1
    UartSize = 1
    Quota <- QuotaAll
    MaxReq = 1
    MaxTyped = 0
    NULL = NULL
PROPERTIES
    NoRunningJobUnregistered
