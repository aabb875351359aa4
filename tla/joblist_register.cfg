SPECIFICATION Spec
CONSTANTS
    Admins = {a1, a2}
    MayUnregister = {}
    Readers = {}
    Walkers = {w1}
    n1 = n1
    n2 = n2
    Names = {n1, n2, n3}
    RoleOf <- MCRoleOf
    Walks = {"help", "stats", "stats_a", "stats_aa", "error_get_any"}
    Cells = {x1, x2, x3}
    MaxOps = 2
    Careful = FALSE
    FreshNames = FALSE
    NULL = NULL
INVARIANTS
    NamesUnique
    ReportComplete
