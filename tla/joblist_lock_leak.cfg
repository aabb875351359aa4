SPECIFICATION FairSpec
CONSTANTS
    Admins = {a1}
    MayUnregister = {}
    Readers = {r1}
    Walkers = {}
    n1 = n1
    n2 = n2
    Names = {n1, n2}
    RoleOf <- MCRoleOf
    Walks = {}
    Cells = {x1, x2, x3}
    MaxOps = 2
    Careful = TRUE
    FreshNames = FALSE
    NULL = NULL
PROPERTIES
    CallsReturn
CHECK_DEADLOCK FALSE
