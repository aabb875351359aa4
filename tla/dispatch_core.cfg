SPECIFICATION Spec
CONSTANTS
    c1 = c1
    c2 = c2
    u1 = u1
    u2 = u2
    Clients = {c1}
    CliServers = {clisrv}
    CoreJob = core
    UserJobs = {u1, u2}
    Singletons = {core, clisrv}
    Loops = {u2}
    Throwers = {u1}
    Owns <- OwnsUserAndCore
    Paced = {}
    Unregisterers = {}
    Envs = {e1, e2}
    ArgStrings = {}
    NoArgs = noargs
    QSize = 1
    UartSize = 1
    Quota <- QuotaOneCall
    MaxReq = 2
    MaxTyped = 2
    NULL = NULL
INVARIANTS
    TypeOK
    HandleNeverDangles
    CoreJobStaysSingle
    CountExact
PROPERTIES
    ImplementsService
SYMMETRY EnvSymmetry
CHECK_DEADLOCK FALSE
