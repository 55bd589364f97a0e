CONSTANTS
    k1 = k1
    g1 = g1
    x1 = x1
    Parameters = {k1, g1, x1}
    Types = {"category", "portal"}
    Codes = {"a", "b"}
    Seeds <- MCSeeds
    CategoryType = "category"
    Callers <- MCCallers
    Departments = {d1}
    Templates = {t1, t2}
    MaxItems = 2
    MenuItems = {m1, m2}
    Permissions = {n1}
    MaxEdits = 5
    NULL = NULL
    Unset = Unset
SPECIFICATION Spec
INVARIANTS
    InUseIsNotDeleted
PROPERTIES
    TemplatesKeepTheirItems
CHECK_DEADLOCK FALSE
