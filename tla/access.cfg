CONSTANTS
    admin = admin
    other = other
    publish = publish
    manage = manage
    city = city
    Administrador = Administrador
    Marketing = Marketing
    Custom = Custom
    candidate = candidate
    Users = {admin, other}
    AdminUser = admin
    RoleIds = {1, 2, 3, 4}
    Codes = {manage, publish, city}
    Types = {city}
    Catalog = {manage, publish}
    Manage = manage
    Names = {Administrador, candidate, Marketing, Custom}
    CandidateName = candidate
    AdminName = Administrador
    Allowlist <- Allowed
    SystemNames = {Administrador, candidate}
    MaxEdits = 3
    Publish = publish
    NoticeTries = 2
    Unset = Unset
SPECIFICATION Spec
INVARIANTS
    NobodyHoldsADeletedRole
    BootstrapRestores
    FoundAreTold
CONSTRAINT NoticeFocus
CHECK_DEADLOCK FALSE
