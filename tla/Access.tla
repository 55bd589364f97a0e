-------------------------------- MODULE Access --------------------------------
(***************************************************************************)
(* Who may do what: users hold roles, roles are granted permissions and    *)
(* parameter types, and every hop can be switched off.  Administrators     *)
(* edit all of it; the bootstrap, run at every deployment, puts the        *)
(* program's own roles back.  One request at a time.                       *)
(*                                                                         *)
(* A code is a permission or a parameter type: the junction of the types   *)
(* has no catalogue behind it, so the row of a type is always active.      *)
(***************************************************************************)
EXTENDS Naturals, FiniteSets, Rows

CONSTANTS
    Users,      \* staff accounts
    AdminUser,  \* the one bootstrap_admin is given
    RoleIds,    \* auth.roles, in the order of their ids
    Codes,      \* permissions and parameter types
    Types,      \* the parameter types among them
    Catalog,    \* PERMISSION_CATALOG
    Manage,     \* the permissions auth.*, taken as one
    Names,      \* role names
    AdminName,  \* ADMIN_ROLE_NAME
    Allowlist,  \* the codes of the roles the bootstrap keeps, by name
    CandidateName,\* CANDIDATE_ROLE_NAME
    SystemNames,\* SYSTEM_ROLE_NAMES
    MaxEdits    \* bound on the requests people send

ASSUME AccessAssumption ==
    /\ AdminUser \in Users
    /\ IsFiniteSet(RoleIds) /\ RoleIds \subseteq Nat
    /\ Types \subseteq Codes /\ Catalog \subseteq Codes \ Types /\ Manage \in Catalog
    /\ AdminName \in Names \cap SystemNames
    /\ DOMAIN Allowlist \subseteq Names \ {AdminName}
    /\ \A n \in DOMAIN Allowlist :
          Allowlist[n] \subseteq Catalog \cup Types /\ Allowlist[n] \cap Catalog # {}
    /\ MaxEdits \in Nat

VARIABLES
    users,   \* auth.users
    roles,   \* auth.roles
    codes,   \* auth.permissions
    grants,  \* auth.role_permissions and auth.role_parameter_type_grants
    holds,   \* auth.user_roles
    edits,   \* requests so far
    fresh    \* history: none since the last bootstrap

accessVars == <<users, roles, codes, grants, holds, edits, fresh>>

AccessTypeOK ==
    /\ users \in [Users -> RowState]
    /\ roles \in [RoleIds -> [row : RowState, name : Names]]
    /\ codes \in [Codes -> RowState]
    /\ grants \in [RoleIds -> [Codes -> RowState]]
    /\ holds \in [Users -> [RoleIds -> RowState]]
    /\ edits \in 0..MaxEdits
    /\ fresh \in BOOLEAN

-----------------------------------------------------------------------------
(* What the tables say *)

ActiveCodes == {c \in Codes : codes[c] = "active"}
ActiveRoles == {r \in RoleIds : IsActive(roles[r])}
RolesNamed(n) == {r \in ActiveRoles : roles[r].name = n}
Granted(gs, r) == {c \in Codes : gs[r][c] = "active"}
HeldBy(u) == {r \in RoleIds : holds[u][r] = "active"}

\* The codes a role confers, is_active on every hop.
Confers(r) == IF IsActive(roles[r]) THEN Granted(grants, r) \cap ActiveCodes ELSE {}

\* list_permission_codes_for_user, list_parameter_types_for_user
CodesOf(u) == UNION {Confers(r) : r \in HeldBy(u)}

\* The recipients of notify_permission_holders, each once.
Holders(c) == {u \in Users : users[u] = "active" /\ c \in CodesOf(u)}

\* _fetch_roles_by_user_ids, list_roles_for_user: what the screen shows.
ShownRoles(u) == HeldBy(u) \cap ActiveRoles

-----------------------------------------------------------------------------
(* Requests of administrators *)

Edit(changed) ==
    /\ edits < MaxEdits
    /\ edits' = edits + 1
    /\ fresh' = FALSE
    /\ UNCHANGED changed

NextId == CHOOSE r \in RoleIds :
    /\ roles[r].row = "absent"
    /\ \A s \in RoleIds : roles[s].row = "absent" => r <= s

HasNextId == \E r \in RoleIds : roles[r].row = "absent"

\* _check_name_unique: the name is free among the active roles.
NameIsFree(n) == RolesNamed(n) = {}

\* POST /roles
CreateRole(n) ==
    /\ HasNextId /\ NameIsFree(n)
    /\ roles' = [roles EXCEPT ![NextId] = [row |-> "active", name |-> n]]
    /\ Edit(<<users, codes, grants, holds>>)

Renamable(r, n) ==
    /\ IsActive(roles[r])
    /\ roles[r].name \notin SystemNames
    /\ NameIsFree(n)

\* PATCH /roles/{id}
UpdateRole(r, n) ==
    /\ Renamable(r, n)
    /\ roles' = [roles EXCEPT ![r].name = n]
    /\ Edit(<<users, codes, grants, holds>>)

\* Mutant of Deletable: users are not counted.
MutDeletableAnyway(r) == IsActive(roles[r]) /\ roles[r].name \notin SystemNames

\* _count_users
Deletable(r) ==
    /\ IsActive(roles[r])
    /\ roles[r].name \notin SystemNames
    /\ \A u \in Users : holds[u][r] # "active"

\* DELETE /roles/{id}
DeleteRole(r) ==
    /\ Deletable(r)
    /\ roles' = [roles EXCEPT ![r].row = "inactive"]
    /\ Edit(<<users, codes, grants, holds>>)

\* Mutant of Exactly: nothing is revoked.
MutExactlyAdds(row, allowed) ==
    [c \in Codes |-> IF c \in allowed THEN "active" ELSE row[c]]

\* grant_permissions_to_role, grant_parameter_types_to_role
Exactly(row, allowed) ==
    [c \in Codes |-> CASE c \in allowed -> "active"
                       [] c \notin allowed /\ row[c] = "active" -> "inactive"
                       [] OTHER -> row[c]]

\* POST /roles/{id}/permissions: a new row, or the revoked one again.
Grant(r, c) ==
    /\ IsActive(roles[r]) /\ c \in ActiveCodes \ Types
    /\ grants[r][c] # "active"
    /\ grants' = [grants EXCEPT ![r][c] = "active"]
    /\ Edit(<<users, roles, codes, holds>>)

\* DELETE /roles/{id}/permissions/{id}
Revoke(r, c) ==
    /\ c \notin Types
    /\ grants[r][c] = "active"
    /\ grants' = [grants EXCEPT ![r][c] = "inactive"]
    /\ Edit(<<users, roles, codes, holds>>)

\* PUT /roles/{id}/parameter-types
ReplaceTypes(r, allowed) ==
    /\ IsActive(roles[r])
    /\ grants' = [grants EXCEPT ![r] =
                     [c \in Codes |-> IF c \in Types THEN Exactly(@, allowed)[c] ELSE @[c]]]
    /\ Edit(<<users, roles, codes, holds>>)

\* POST /permissions: the code is unique among deleted rows too.
CreatePermission(c) ==
    /\ codes[c] = "absent"
    /\ codes' = [codes EXCEPT ![c] = "active"]
    /\ Edit(<<users, roles, grants, holds>>)

\* DELETE /permissions/{id}
DeletePermission(c) ==
    /\ c \in ActiveCodes \ Types
    /\ codes' = [codes EXCEPT ![c] = "inactive"]
    /\ Edit(<<users, roles, grants, holds>>)

\* POST /users: an account and its role in one transaction.
CreateUser(u, r, active) ==
    /\ users[u] = "absent" /\ r \in ActiveRoles
    /\ users' = [users EXCEPT ![u] = IF active THEN "active" ELSE "inactive"]
    /\ holds' = [holds EXCEPT ![u][r] = "active"]
    /\ Edit(<<roles, codes, grants>>)

\* PATCH /users/{id}
UpdateUserStatus(u, active) ==
    /\ users[u] # "absent"
    /\ users' = [users EXCEPT ![u] = IF active THEN "active" ELSE "inactive"]
    /\ Edit(<<roles, codes, grants, holds>>)

\* POST /users/{id}/roles
Assign(u, r) ==
    /\ users[u] = "active" /\ r \in ActiveRoles
    /\ holds[u][r] # "active"
    /\ holds' = [holds EXCEPT ![u][r] = "active"]
    /\ Edit(<<users, roles, codes, grants>>)

\* DELETE /users/{id}/roles/{id}
Unassign(u, r) ==
    /\ holds[u][r] = "active"
    /\ holds' = [holds EXCEPT ![u][r] = "inactive"]
    /\ Edit(<<users, roles, codes, grants>>)

\* replace_role: every other active link is switched off.
Replaced(links, r) ==
    [s \in RoleIds |-> CASE s = r -> "active"
                         [] s # r /\ links[s] = "active" -> "inactive"
                         [] OTHER -> links[s]]

\* PUT /users/{id}/role
ReplaceRole(u, r) ==
    /\ users[u] = "active" /\ r \in ActiveRoles
    /\ holds' = [holds EXCEPT ![u] = Replaced(@, r)]
    /\ Edit(<<users, roles, codes, grants>>)

-----------------------------------------------------------------------------
(* bootstrap_admin, in one transaction *)

\* sync_permissions
SyncedCodes == [c \in Codes |-> IF c \in Catalog THEN "active" ELSE codes[c]]

\* The active role of each name, or a new one with the next id.
Kept == {AdminName} \cup DOMAIN Allowlist
Missing == {n \in Kept : RolesNamed(n) = {}}
FreeIds == {r \in RoleIds : roles[r].row = "absent"}
Placements ==
    {f \in [Missing -> FreeIds] :
        /\ \A m, n \in Missing : f[m] = f[n] => m = n
        /\ \A n \in Missing, r \in FreeIds : r < f[n] => \E m \in Missing : f[m] = r}
EnsuredRoles(f) ==
    [r \in RoleIds |->
        IF \E n \in Missing : f[n] = r
        THEN [row |-> "active", name |-> CHOOSE n \in Missing : f[n] = r]
        ELSE roles[r]]

\* grant_all_permissions_to_role: every active permission, and nothing revoked.
Everything(row) ==
    [c \in Codes |-> IF c \notin Types /\ SyncedCodes[c] = "active"
                     THEN "active" ELSE row[c]]

\* The codes the bootstrap decides about: of the role of the candidates it
\* leaves the parameter types as they are.
Ruled(n) == IF n = CandidateName THEN Codes \ Types ELSE Codes

Restored(row, n) ==
    [c \in Codes |-> IF c \in Ruled(n) THEN Exactly(row, Allowlist[n])[c] ELSE row[c]]

EnsuredGrants(rs) ==
    [r \in RoleIds |->
        CASE rs[r].row = "active" /\ rs[r].name = AdminName -> Everything(grants[r])
          [] rs[r].row = "active" /\ rs[r].name \in DOMAIN Allowlist ->
                 Restored(grants[r], rs[r].name)
          [] OTHER -> grants[r]]

\* ensure_admin_user leaves an account it finds as it is; assign_role_to_user.
Bootstrap ==
    /\ \A n \in Kept : Cardinality(RolesNamed(n)) <= 1
    /\ codes' = SyncedCodes
    /\ \E f \in Placements :
          /\ roles' = EnsuredRoles(f)
          /\ grants' = EnsuredGrants(EnsuredRoles(f))
          /\ holds' = [holds EXCEPT ![AdminUser] =
                          [r \in RoleIds |-> IF EnsuredRoles(f)[r] = [row |-> "active", name |-> AdminName]
                                             THEN "active" ELSE @[r]]]
    /\ users' = [users EXCEPT ![AdminUser] = IF @ = "absent" THEN "active" ELSE @]
    /\ fresh' = TRUE
    /\ UNCHANGED edits

\* The migrations seed neither roles nor permissions.
AccessInit ==
    /\ users = [u \in Users |-> "absent"]
    /\ roles = [r \in RoleIds |-> [row |-> "absent", name |-> AdminName]]
    /\ codes = [c \in Codes |-> IF c \in Types THEN "active" ELSE "absent"]
    /\ grants = [r \in RoleIds |-> [c \in Codes |-> "absent"]]
    /\ holds = [u \in Users |-> [r \in RoleIds |-> "absent"]]
    /\ edits = 0 /\ fresh = FALSE

\* require_permission: an active account that holds the code now.
Authorized(c) == \E u \in Users : users[u] = "active" /\ c \in CodesOf(u)

RoleRequest ==
    \/ \E n \in Names : CreateRole(n)
    \/ \E r \in RoleIds, n \in Names : UpdateRole(r, n)
    \/ \E r \in RoleIds : DeleteRole(r)

RoleGrantRequest ==
    \E r \in RoleIds :
        \/ \E c \in Codes : Grant(r, c) \/ Revoke(r, c)
        \/ \E allowed \in SUBSET Types : ReplaceTypes(r, allowed)

PermissionRequest == \E c \in Codes : CreatePermission(c) \/ DeletePermission(c)

UserRoleRequest ==
    \E u \in Users, r \in RoleIds : Assign(u, r) \/ Unassign(u, r) \/ ReplaceRole(u, r)

UserRequest ==
    \E u \in Users, active \in BOOLEAN :
        \/ UpdateUserStatus(u, active)
        \/ \E r \in RoleIds : CreateUser(u, r, active)

AccessRequest ==
    /\ Authorized(Manage)
    /\ RoleRequest \/ RoleGrantRequest \/ PermissionRequest \/ UserRoleRequest \/ UserRequest

AccessNext == Bootstrap \/ AccessRequest

-----------------------------------------------------------------------------
(* Properties *)

\* No two active roles have one name, so the bootstrap, which takes the one
\* row a name has, always runs (bootstrap_service.py, ensure_admin_role).
NamesAreUnique == \A r, s \in ActiveRoles : roles[r].name = roles[s].name => r = s

\* Nobody is left with a role that was deleted: what the screens show of a
\* user is what the user holds (roles_service.py, delete).
NobodyHoldsADeletedRole == \A u \in Users : HeldBy(u) = ShownRoles(u)

\* After a bootstrap, whatever the administrators did before, locking everybody
\* out included, the program's own roles confer exactly their allowlists, the
\* parameter types of the candidates' role excepted, and the administrator's
\* account holds everything (bootstrap_service.py, bootstrap_admin).
BootstrapRestores ==
    fresh =>
        /\ ActiveCodes \ Types \subseteq CodesOf(AdminUser) /\ Catalog \subseteq CodesOf(AdminUser)
        /\ \A r \in ActiveRoles : LET n == roles[r].name IN
              n \in DOMAIN Allowlist => Confers(r) \cap Ruled(n) = Allowlist[n] \cap Ruled(n)
=============================================================================
