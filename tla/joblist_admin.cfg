SPECIFICATION FairSpec
CONSTANTS
    Admins = {a1, a2}
    MayUnregister = {a1}
    Readers = {r1}
    Walkers = {}
    n1 = n1
    n2 = n2
    Names = {n1, n2, n3}
    RoleOf <- MCRoleOf
    Walks = {}
    Cells = {x1, x2, x3}
    MaxOps = 3
    Careful = TRUE
    FreshNames = TRUE
    NULL = NULL
INVARIANTS
    TypeOK
    ListSound
    NoJobLost
PROPERTIES
    CallsReturn
    ImplementsRegistry
