------------------------ MODULE NotificationsProofs -------------------------
(***************************************************************************)
(* For any users, roles and codes: names of roles are unique, nobody holds *)
(* a deleted role, a bootstrap restores what it is for, and a run of the   *)
(* notice tells whom it found, once.                                       *)
(*                                                                         *)
(* For any number of CVs, uploads and tasks: file rows have their objects, *)
(* and what the tasks write comes from a CV the candidate has linked, and  *)
(* goes to an application that stands; the quota holds up to the uploads   *)
(* that race.                                                              *)
(***************************************************************************)
EXTENDS Notifications, CvPipeline, FiniteSetTheorems, WellFoundedInduction, TLAPS

-----------------------------------------------------------------------------
(* Roles and the task that tells the holders of a permission               *)

RoleTable == [RoleIds -> [row : RowState, name : Names]]
LinkTable == [Users -> [RoleIds -> RowState]]

\* A role somebody holds is active.
HeldAreActive == \A u \in Users, r \in RoleIds : holds[u][r] = "active" => IsActive(roles[r])

RolesInv == roles \in RoleTable /\ holds \in LinkTable /\ NamesAreUnique /\ HeldAreActive

\* The sequence of ids has a next one as long as one is free.
LEMMA NextIdIsFree ==
    ASSUME HasNextId
    PROVE  NextId \in RoleIds /\ roles[NextId].row = "absent"
<1>. DEFINE T == {r \in RoleIds : roles[r].row = "absent"}
            Less == {ss \in Nat \X Nat : ss[1] < ss[2]}
<1>1. T \subseteq Nat /\ T # {}
  BY AccessAssumption DEF HasNextId
<1>2. \E x \in T : \A y \in T : ~(<<y, x>> \in Less)
  <2>1. IsWellFoundedOn(Less, Nat)
    BY NatLessThanWellFounded DEF OpToRel, Less
  <2>. HIDE DEF T, Less
  <2>. QED BY <1>1, <2>1, WFMin
<1>3. \E x \in T : \A y \in T : x <= y
  <2>. HIDE DEF T
  <2>1. PICK x \in T : \A y \in T : ~(<<y, x>> \in Less)
    BY <1>2
  <2>2. \A y \in T : ~(y < x)
    BY <1>1, <2>1 DEF Less
  <2>3. \A y \in T : x <= y
    BY <1>1, <2>2
  <2>. QED BY <2>3
<1>4. \E r \in RoleIds : /\ roles[r].row = "absent"
                         /\ \A s \in RoleIds : roles[s].row = "absent" => r <= s
  BY <1>3
<1>. QED BY <1>4 DEF NextId

\* Creating, renaming and deleting a role.
LEMMA RoleRequestsKeep ==
    ASSUME RolesInv, RoleRequest
    PROVE  RolesInv'
<1>1. UNCHANGED holds
  BY DEF RoleRequest, CreateRole, UpdateRole, DeleteRole, Edit
<1>2. PICK r \in RoleIds, row \in [row : RowState, name : Names] :
         /\ roles' = [roles EXCEPT ![r] = row]
         /\ \/ row.row = "active" /\ NameIsFree(row.name)
            \/ row.row = "inactive" /\ \A u \in Users : holds[u][r] # "active"
  <2>1. ASSUME NEW n \in Names, CreateRole(n)
        PROVE  \E r \in RoleIds, row \in [row : RowState, name : Names] :
                  /\ roles' = [roles EXCEPT ![r] = row]
                  /\ row.row = "active" /\ NameIsFree(row.name)
    <3>1. NextId \in RoleIds
      BY <2>1, NextIdIsFree DEF CreateRole
    <3>2. [row |-> "active", name |-> n] \in [row : RowState, name : Names]
      BY DEF RowState
    <3>. QED BY <2>1, <3>1, <3>2 DEF CreateRole
  <2>2. ASSUME NEW r \in RoleIds, NEW n \in Names, UpdateRole(r, n)
        PROVE  \E row \in [row : RowState, name : Names] :
                  /\ roles' = [roles EXCEPT ![r] = row]
                  /\ row.row = "active" /\ NameIsFree(row.name)
    <3>. DEFINE new == [roles[r] EXCEPT !.name = n]
    <3>1. roles[r] \in [row : RowState, name : Names] /\ roles[r].row = "active"
      BY <2>2 DEF RolesInv, RoleTable, UpdateRole, Renamable, IsActive
    <3>2. new \in [row : RowState, name : Names] /\ new.row = "active" /\ new.name = n
      BY <3>1
    <3>3. roles' = [roles EXCEPT ![r] = new] /\ NameIsFree(n)
      BY <2>2 DEF UpdateRole, Renamable, RolesInv, RoleTable
    <3>. QED BY <3>2, <3>3
  <2>3. ASSUME NEW r \in RoleIds, DeleteRole(r)
        PROVE  \E row \in [row : RowState, name : Names] :
                  /\ roles' = [roles EXCEPT ![r] = row]
                  /\ row.row = "inactive" /\ \A u \in Users : holds[u][r] # "active"
    <3>. DEFINE new == [roles[r] EXCEPT !.row = "inactive"]
    <3>1. new \in [row : RowState, name : Names] /\ new.row = "inactive"
      BY DEF RolesInv, RoleTable, RowState
    <3>2. /\ roles' = [roles EXCEPT ![r] = new]
          /\ \A u \in Users : holds[u][r] # "active"
      BY <2>3 DEF DeleteRole, Deletable, RolesInv, RoleTable
    <3>. QED BY <3>1, <3>2
  <2>. QED BY <2>1, <2>2, <2>3 DEF RoleRequest
<1>3. /\ roles \in RoleTable /\ roles' \in RoleTable
      /\ roles'[r] = row
      /\ \A s \in RoleIds : s # r => roles'[s] = roles[s]
  BY <1>2 DEF RolesInv, RoleTable
<1>4. NamesAreUnique'
  BY <1>2, <1>3 DEF RolesInv, NamesAreUnique, ActiveRoles, IsActive, NameIsFree, RolesNamed
<1>5. HeldAreActive'
  BY <1>1, <1>2, <1>3 DEF RolesInv, HeldAreActive, IsActive
<1>. QED BY <1>1, <1>3, <1>4, <1>5 DEF RolesInv

\* Whoever gives a role gives an active one.
LEMMA LinksKeep ==
    ASSUME RolesInv, UNCHANGED roles, holds' \in LinkTable,
           \A u \in Users, r \in RoleIds :
              holds'[u][r] = "active" => holds[u][r] = "active" \/ r \in ActiveRoles
    PROVE  RolesInv'
BY DEF RolesInv, NamesAreUnique, HeldAreActive, ActiveRoles, IsActive

LEMMA UserRequestsKeep ==
    ASSUME RolesInv, UserRoleRequest \/ UserRequest
    PROVE  RolesInv'
<1>1. UNCHANGED roles
  BY DEF UserRoleRequest, UserRequest, Assign, Unassign, ReplaceRole, UpdateUserStatus,
         CreateUser, Edit
<1>2. holds \in LinkTable
  BY DEF RolesInv
<1>3. CASE UNCHANGED holds
  BY <1>1, <1>2, <1>3, LinksKeep
<1>4. ASSUME NEW u \in Users, NEW r \in RoleIds,
             r \in ActiveRoles, holds' = [holds EXCEPT ![u][r] = "active"]
      PROVE  RolesInv'
  <2>1. holds' \in LinkTable
    BY <1>2, <1>4 DEF LinkTable, RowState
  <2>2. \A v \in Users, s \in RoleIds :
           holds'[v][s] = "active" => holds[v][s] = "active" \/ s \in ActiveRoles
    BY <1>2, <1>4 DEF LinkTable
  <2>. QED BY <1>1, <2>1, <2>2, LinksKeep
<1>5. ASSUME NEW u \in Users, NEW r \in RoleIds, holds' = [holds EXCEPT ![u][r] = "inactive"]
      PROVE  RolesInv'
  <2>1. holds' \in LinkTable
    BY <1>2, <1>5 DEF LinkTable, RowState
  <2>2. \A v \in Users, s \in RoleIds : holds'[v][s] = "active" => holds[v][s] = "active"
    BY <1>2, <1>5 DEF LinkTable
  <2>. QED BY <1>1, <2>1, <2>2, LinksKeep
<1>6. ASSUME NEW u \in Users, NEW r \in RoleIds, r \in ActiveRoles,
             holds' = [holds EXCEPT ![u] = Replaced(@, r)]
      PROVE  RolesInv'
  <2>1. /\ Replaced(holds[u], r) \in [RoleIds -> RowState]
        /\ \A s \in RoleIds : Replaced(holds[u], r)[s] = "active" => s = r
    BY <1>2 DEF Replaced, LinkTable, RowState
  <2>2. /\ holds' \in LinkTable
        /\ \A v \in Users, s \in RoleIds :
              holds'[v][s] = "active" => holds[v][s] = "active" \/ s \in ActiveRoles
    BY <1>2, <1>6, <2>1 DEF LinkTable
  <2>. QED BY <1>1, <2>2, LinksKeep
<1>7. CASE \E u \in Users, r \in RoleIds : Assign(u, r)
  BY <1>4, <1>7 DEF Assign
<1>8. CASE \E u \in Users, r \in RoleIds : Unassign(u, r)
  BY <1>5, <1>8 DEF Unassign
<1>9. CASE \E u \in Users, r \in RoleIds : ReplaceRole(u, r)
  BY <1>6, <1>9 DEF ReplaceRole
<1>10. CASE \E u \in Users, r \in RoleIds, active \in BOOLEAN : CreateUser(u, r, active)
  BY <1>4, <1>10 DEF CreateUser
<1>. QED
  BY <1>3, <1>7, <1>8, <1>9, <1>10 DEF UserRoleRequest, UserRequest, UpdateUserStatus, Edit

\* The roles the bootstrap makes have names no active role has.
LEMMA BootstrapKeeps ==
    ASSUME RolesInv, Bootstrap
    PROVE  RolesInv'
<1>1. PICK f \in Placements :
         /\ roles' = EnsuredRoles(f)
         /\ holds' = [holds EXCEPT ![AdminUser] =
                         [r \in RoleIds |-> IF EnsuredRoles(f)[r] = [row |-> "active", name |-> AdminName]
                                            THEN "active" ELSE @[r]]]
  BY DEF Bootstrap
<1>2. /\ f \in [Missing -> FreeIds]
      /\ \A m, n \in Missing : f[m] = f[n] => m = n
      /\ Missing \subseteq Names
  BY AccessAssumption DEF Placements, Missing, Kept
<1>3. ASSUME NEW r \in RoleIds
      PROVE  \/ roles'[r] = roles[r]
             \/ \E n \in Missing : /\ f[n] = r /\ roles[r].row = "absent"
                                   /\ roles'[r] = [row |-> "active", name |-> n]
  <2>1. CASE \E n \in Missing : f[n] = r
    <3>1. PICK n \in Missing : f[n] = r
      BY <2>1
    <3>2. (CHOOSE m \in Missing : f[m] = r) = n
      BY <1>2, <3>1
    <3>3. roles[r].row = "absent"
      BY <1>2, <3>1 DEF FreeIds
    <3>. QED BY <1>1, <3>1, <3>2, <3>3 DEF EnsuredRoles
  <2>2. CASE ~\E n \in Missing : f[n] = r
    BY <1>1, <2>2 DEF EnsuredRoles
  <2>. QED BY <2>1, <2>2
<1>4. roles' \in RoleTable
  <2>1. ASSUME NEW r \in RoleIds PROVE roles'[r] \in [row : RowState, name : Names]
    <3>1. CASE roles'[r] = roles[r]
      BY <3>1 DEF RolesInv, RoleTable
    <3>2. ASSUME NEW n \in Missing, roles'[r] = [row |-> "active", name |-> n]
          PROVE  roles'[r] \in [row : RowState, name : Names]
      BY <1>2, <3>2 DEF RowState
    <3>. QED BY <1>3, <3>1, <3>2
  <2>2. roles' = [r \in RoleIds |-> roles'[r]]
    BY <1>1 DEF EnsuredRoles
  <2>. QED BY <2>1, <2>2 DEF RoleTable
<1>8. \A r \in RoleIds : roles[r].row = "active" => roles'[r] = roles[r]
  BY <1>3
<1>5. NamesAreUnique'
  <2> SUFFICES ASSUME NEW r \in RoleIds, NEW s \in RoleIds,
                      roles'[r].row = "active", roles'[s].row = "active",
                      roles'[r].name = roles'[s].name
               PROVE  r = s
    BY DEF NamesAreUnique, ActiveRoles, IsActive
  <2>0. \A n \in Missing, q \in RoleIds : roles[q].row = "active" => roles[q].name # n
    BY DEF Missing, RolesNamed, ActiveRoles, IsActive
  <2>1. CASE roles'[r] = roles[r] /\ roles'[s] = roles[s]
    BY <2>1 DEF RolesInv, NamesAreUnique, ActiveRoles, IsActive
  <2>2. CASE roles'[r] = roles[r] /\ roles'[s] # roles[s]
    <3>1. PICK n \in Missing : roles'[s] = [row |-> "active", name |-> n]
      BY <1>3, <2>2
    <3>. QED BY <2>0, <2>2, <3>1
  <2>3. CASE roles'[r] # roles[r] /\ roles'[s] = roles[s]
    <3>1. PICK n \in Missing : roles'[r] = [row |-> "active", name |-> n]
      BY <1>3, <2>3
    <3>. QED BY <2>0, <2>3, <3>1
  <2>4. CASE roles'[r] # roles[r] /\ roles'[s] # roles[s]
    <3>1. PICK n \in Missing : f[n] = r /\ roles'[r] = [row |-> "active", name |-> n]
      BY <1>3, <2>4
    <3>2. PICK m \in Missing : f[m] = s /\ roles'[s] = [row |-> "active", name |-> m]
      BY <1>3, <2>4
    <3>3. n = m
      BY <3>1, <3>2
    <3>. QED BY <3>1, <3>2, <3>3
  <2>. QED BY <2>1, <2>2, <2>3, <2>4
<1>6. /\ holds' \in LinkTable
      /\ \A u \in Users, r \in RoleIds :
            holds'[u][r] = "active" => holds[u][r] = "active" \/ roles'[r].row = "active"
  <2>. DEFINE links == [r \in RoleIds |-> IF EnsuredRoles(f)[r] = [row |-> "active", name |-> AdminName]
                                          THEN "active" ELSE holds[AdminUser][r]]
  <2>1. AdminUser \in Users /\ holds \in LinkTable
    BY AccessAssumption DEF RolesInv
  <2>2. links \in [RoleIds -> RowState]
    BY <2>1 DEF LinkTable, RowState
  <2>3. \A r \in RoleIds : links[r] = "active" =>
                              holds[AdminUser][r] = "active" \/ roles'[r].row = "active"
    BY <1>1
  <2>4. holds' = [holds EXCEPT ![AdminUser] = links]
    BY <1>1
  <2>. HIDE DEF links
  <2>. QED BY <2>1, <2>2, <2>3, <2>4 DEF LinkTable
<1>7. HeldAreActive'
  BY <1>6, <1>8 DEF RolesInv, HeldAreActive, IsActive
<1>. QED BY <1>4, <1>5, <1>6, <1>7 DEF RolesInv

LEMMA RolesKeep == RolesInv /\ [Next]_vars => RolesInv'
<1> SUFFICES ASSUME RolesInv, [Next]_vars PROVE RolesInv'
  OBVIOUS
<1>1. CASE UNCHANGED <<roles, holds>>
  BY <1>1 DEF RolesInv, NamesAreUnique, HeldAreActive, ActiveRoles, IsActive
<1>2. CASE Bootstrap
  BY <1>2, BootstrapKeeps
<1>3. CASE AccessRequest
  <2>1. CASE RoleGrantRequest \/ PermissionRequest
    BY <1>1, <2>1
    DEF RoleGrantRequest, PermissionRequest, Grant, Revoke, ReplaceTypes, CreatePermission,
        DeletePermission, Edit
  <2>. QED BY <1>3, <2>1, RoleRequestsKeep, UserRequestsKeep DEF AccessRequest
<1>. QED BY <1>1, <1>2, <1>3 DEF Next, AccessNext, InboxRequest, vars, accessVars

LEMMA RolesStart == Init => RolesInv
<1> SUFFICES ASSUME Init PROVE RolesInv
  OBVIOUS
<1>1. AdminName \in Names
  BY AccessAssumption
<1>. QED
  BY <1>1
  DEF Init, AccessInit, RolesInv, RoleTable, LinkTable, RowState, NamesAreUnique, HeldAreActive,
      ActiveRoles, IsActive

THEOREM RolesInvariant == Spec => []RolesInv
BY RolesStart, RolesKeep, PTL DEF Spec

\* The bootstrap never finds two active roles of one name.
THEOREM RoleNamesAreUnique == Spec => []NamesAreUnique
BY RolesInvariant, PTL DEF RolesInv

\* What somebody holds is shown, whatever roles were deleted.
THEOREM DeletedRolesAreHeldByNobody == Spec => []NobodyHoldsADeletedRole
<1>1. RolesInv => NobodyHoldsADeletedRole
  BY DEF RolesInv, HeldAreActive, NobodyHoldsADeletedRole, HeldBy, ShownRoles, ActiveRoles
<1>. QED BY <1>1, RolesInvariant, PTL
-----------------------------------------------------------------------------
CodeTable == [RoleIds -> [Codes -> RowState]]

\* What the edits leave of the catalogue: the types have no row to delete.
CodesInv ==
    /\ codes \in [Codes -> RowState] /\ grants \in CodeTable
    /\ \A c \in Types : codes[c] = "active"

RestoreInv == RolesInv /\ CodesInv /\ BootstrapRestores

\* The role of each name the bootstrap keeps is there when it is done.
LEMMA KeptRolesAreThere ==
    ASSUME RolesInv, NEW f \in Placements, NEW n \in Kept
    PROVE  \E r \in RoleIds : EnsuredRoles(f)[r] = [row |-> "active", name |-> n]
<1>1. CASE n \in Missing
  <2>1. f[n] \in RoleIds /\ \A m \in Missing : f[m] = f[n] => m = n
    BY <1>1 DEF Placements, FreeIds
  <2>2. (CHOOSE m \in Missing : f[m] = f[n]) = n
    BY <1>1, <2>1
  <2>. QED BY <1>1, <2>1, <2>2 DEF EnsuredRoles
<1>2. CASE n \notin Missing
  <2>1. PICK r \in RoleIds : roles[r].row = "active" /\ roles[r].name = n
    BY <1>2 DEF Missing, RolesNamed, ActiveRoles, IsActive
  <2>2. roles[r] = [row |-> "active", name |-> n]
    BY <2>1 DEF RolesInv, RoleTable
  <2>3. ~\E m \in Missing : f[m] = r
    BY <2>1 DEF Placements, FreeIds
  <2>. QED BY <2>2, <2>3 DEF EnsuredRoles
<1>. QED BY <1>1, <1>2

\* Switched off or not, afterwards exactly what is allowed is granted.
LEMMA ExactlyGrants ==
    ASSUME NEW row \in [Codes -> RowState], NEW allowed \in SUBSET Codes
    PROVE  /\ Exactly(row, allowed) \in [Codes -> RowState]
           /\ {c \in Codes : Exactly(row, allowed)[c] = "active"} = allowed
BY DEF Exactly, RowState

\* Of the codes the bootstrap decides about.
LEMMA RestoredGrants ==
    ASSUME NEW row \in [Codes -> RowState], NEW n \in DOMAIN Allowlist,
           Allowlist[n] \in SUBSET Codes
    PROVE  /\ Restored(row, n) \in [Codes -> RowState]
           /\ \A c \in Ruled(n) : Restored(row, n)[c] = "active" <=> c \in Allowlist[n]
<1>1. Ruled(n) \subseteq Codes
  BY DEF Ruled
<1>2. Exactly(row, Allowlist[n]) \in [Codes -> RowState]
  BY ExactlyGrants
<1>3. \A c \in Codes : Exactly(row, Allowlist[n])[c] = "active" <=> c \in Allowlist[n]
  BY ExactlyGrants
<1>. QED BY <1>1, <1>2, <1>3 DEF Restored

LEMMA EverythingGrants ==
    ASSUME CodesInv, NEW row \in [Codes -> RowState]
    PROVE  /\ Everything(row) \in [Codes -> RowState]
           /\ \A c \in Codes \ Types : SyncedCodes[c] = "active" => Everything(row)[c] = "active"
BY DEF Everything, RowState

\* What the bootstrap is for, from whatever state it finds.
LEMMA BootstrapDoesRestore ==
    ASSUME RolesInv, CodesInv, Bootstrap
    PROVE  CodesInv' /\ BootstrapRestores'
<1>1. PICK f \in Placements :
         /\ roles' = EnsuredRoles(f)
         /\ grants' = EnsuredGrants(EnsuredRoles(f))
         /\ holds' = [holds EXCEPT ![AdminUser] =
                         [r \in RoleIds |-> IF EnsuredRoles(f)[r] = [row |-> "active", name |-> AdminName]
                                            THEN "active" ELSE @[r]]]
  BY DEF Bootstrap
<1>2. codes' = SyncedCodes
  BY DEF Bootstrap
<1>3. /\ Types \subseteq Codes /\ Catalog \subseteq Codes \ Types
      /\ DOMAIN Allowlist \subseteq Names \ {AdminName}
      /\ \A n \in DOMAIN Allowlist : Allowlist[n] \subseteq Catalog \cup Types
  BY AccessAssumption
<1>4. /\ codes' \in [Codes -> RowState]
      /\ \A c \in Catalog \cup Types : codes'[c] = "active"
  BY <1>2, <1>3 DEF CodesInv, SyncedCodes, RowState
<1>5. ASSUME NEW r \in RoleIds
      PROVE  /\ grants'[r] \in [Codes -> RowState]
             /\ roles'[r].row = "active" /\ roles'[r].name = AdminName =>
                   grants'[r] = Everything(grants[r])
             /\ roles'[r].row = "active" /\ roles'[r].name \in DOMAIN Allowlist =>
                   grants'[r] = Restored(grants[r], roles'[r].name)
  <2>. DEFINE rs == EnsuredRoles(f)
  <2>1. grants'[r] =
           CASE rs[r].row = "active" /\ rs[r].name = AdminName -> Everything(grants[r])
             [] rs[r].row = "active" /\ rs[r].name \in DOMAIN Allowlist ->
                    Restored(grants[r], rs[r].name)
             [] OTHER -> grants[r]
    BY <1>1 DEF EnsuredGrants
  <2>2. rs = roles'
    BY <1>1
  <2>3. grants[r] \in [Codes -> RowState]
    BY DEF CodesInv, CodeTable
  <2>. HIDE DEF rs
  <2>4. CASE roles'[r].row = "active" /\ roles'[r].name = AdminName
    BY <1>3, <2>1, <2>2, <2>3, <2>4, EverythingGrants
  <2>5. CASE roles'[r].row = "active" /\ roles'[r].name \in DOMAIN Allowlist
    <3>1. roles'[r].name # AdminName /\ Allowlist[roles'[r].name] \in SUBSET Codes
      BY <1>3, <2>5
    <3>. QED BY <2>1, <2>2, <2>3, <2>5, <3>1, RestoredGrants
  <2>6. CASE ~(roles'[r].row = "active" /\ roles'[r].name \in {AdminName} \cup DOMAIN Allowlist)
    BY <2>1, <2>2, <2>3, <2>6
  <2>. QED BY <2>4, <2>5, <2>6
<1>6. CodesInv'
  <2>1. grants' = [r \in RoleIds |-> grants'[r]]
    BY <1>1 DEF EnsuredGrants
  <2>2. grants' \in CodeTable
    BY <1>5, <2>1 DEF CodeTable
  <2>. QED BY <1>4, <2>2 DEF CodesInv
<1>7. ASSUME NEW r \in ActiveRoles', roles'[r].name \in DOMAIN Allowlist
      PROVE  Confers(r)' \cap Ruled(roles'[r].name)
                 = Allowlist[roles'[r].name] \cap Ruled(roles'[r].name)
  <2>. DEFINE n == roles'[r].name
              allowed == Allowlist[roles'[r].name]
  <2>1. r \in RoleIds /\ roles'[r].row = "active"
    BY DEF ActiveRoles, IsActive
  <2>2. allowed \in SUBSET Codes /\ allowed \subseteq Catalog \cup Types
    BY <1>3, <1>7
  <2>3. grants[r] \in [Codes -> RowState] /\ grants'[r] = Restored(grants[r], n)
    BY <1>5, <1>7, <2>1 DEF CodesInv, CodeTable
  <2>4. \A c \in Ruled(n) : grants'[r][c] = "active" <=> c \in allowed
    BY <1>7, <2>2, <2>3, RestoredGrants
  <2>5. Ruled(n) \subseteq Codes
    BY DEF Ruled
  <2>. HIDE DEF allowed, n
  <2>6. Confers(r)' = {c \in Codes : grants'[r][c] = "active" /\ codes'[c] = "active"}
    BY <2>1 DEF Confers, Granted, ActiveCodes, IsActive
  <2>7. Confers(r)' \cap Ruled(n) = allowed \cap Ruled(n)
    BY <1>4, <2>2, <2>4, <2>5, <2>6
  <2>. QED BY <2>7 DEF allowed, n
<1>8. /\ (ActiveCodes \ Types)' \subseteq CodesOf(AdminUser)'
      /\ Catalog \subseteq CodesOf(AdminUser)'
  <2>1. AdminUser \in Users /\ AdminName \in Kept
    BY AccessAssumption DEF Kept
  <2>2. PICK r \in RoleIds : roles'[r] = [row |-> "active", name |-> AdminName]
    BY <1>1, <2>1, KeptRolesAreThere
  <2>3. holds'[AdminUser][r] = "active"
    BY <1>1, <2>1, <2>2 DEF RolesInv, LinkTable
  <2>4. grants[r] \in [Codes -> RowState] /\ grants'[r] = Everything(grants[r])
    BY <1>5, <2>2 DEF CodesInv, CodeTable
  <2>5. \A c \in Codes \ Types : codes'[c] = "active" => grants'[r][c] = "active"
    BY <1>2, <2>4, EverythingGrants
  <2>6. \A c \in Codes \ Types : codes'[c] = "active" => c \in Confers(r)'
    BY <2>2, <2>5 DEF Confers, Granted, ActiveCodes, IsActive
  <2>7. Confers(r)' \subseteq CodesOf(AdminUser)'
    BY <2>2, <2>3 DEF CodesOf, HeldBy
  <2>. QED BY <1>3, <1>4, <2>6, <2>7 DEF ActiveCodes
<1>. QED BY <1>6, <1>7, <1>8 DEF BootstrapRestores

\* A request of an administrator ends what the bootstrap promised, but leaves
\* it something to restore.
LEMMA EditsLeaveCodes ==
    ASSUME RolesInv, CodesInv, AccessRequest
    PROVE  CodesInv' /\ fresh' = FALSE
<1>1. CASE UNCHANGED <<codes, grants>> /\ fresh' = FALSE
  BY <1>1 DEF CodesInv
<1>2. ASSUME NEW r \in RoleIds, NEW c \in Codes, NEW row \in {"active", "inactive"},
             grants' = [grants EXCEPT ![r][c] = row], UNCHANGED codes
      PROVE  CodesInv'
  BY <1>2 DEF CodesInv, CodeTable, RowState
<1>3. ASSUME NEW r \in RoleIds, NEW allowed \in SUBSET Types, ReplaceTypes(r, allowed)
      PROVE  CodesInv'
  <2>. DEFINE links == [c \in Codes |-> IF c \in Types THEN Exactly(grants[r], allowed)[c]
                                        ELSE grants[r][c]]
  <2>1. grants[r] \in [Codes -> RowState] /\ allowed \in SUBSET Codes
    BY AccessAssumption DEF CodesInv, CodeTable
  <2>2. links \in [Codes -> RowState]
    BY <2>1, ExactlyGrants
  <2>3. grants' = [grants EXCEPT ![r] = links] /\ UNCHANGED codes
    BY <1>3 DEF ReplaceTypes, Edit
  <2>. HIDE DEF links
  <2>. QED BY <2>2, <2>3 DEF CodesInv, CodeTable
<1>4. ASSUME NEW c \in Codes, CreatePermission(c) \/ DeletePermission(c)
      PROVE  CodesInv'
  <2>1. CASE CreatePermission(c)
    BY <2>1 DEF CreatePermission, Edit, CodesInv, RowState
  <2>2. CASE DeletePermission(c)
    BY <2>2 DEF DeletePermission, Edit, CodesInv, RowState
  <2>. QED BY <1>4, <2>1, <2>2
<1>5. CASE RoleRequest
  BY <1>1, <1>5 DEF RoleRequest, CreateRole, UpdateRole, DeleteRole, Edit
<1>6. CASE RoleGrantRequest
  <2>1. PICK r \in RoleIds : \/ \E c \in Codes : Grant(r, c) \/ Revoke(r, c)
                             \/ \E allowed \in SUBSET Types : ReplaceTypes(r, allowed)
    BY <1>6 DEF RoleGrantRequest
  <2>2. fresh' = FALSE
    BY <2>1 DEF Grant, Revoke, ReplaceTypes, Edit
  <2>3. CASE \E c \in Codes : Grant(r, c)
    BY <1>2, <2>3 DEF Grant, Edit
  <2>4. CASE \E c \in Codes : Revoke(r, c)
    BY <1>2, <2>4 DEF Revoke, Edit
  <2>. QED BY <1>3, <2>1, <2>2, <2>3, <2>4
<1>7. CASE PermissionRequest
  BY <1>4, <1>7 DEF PermissionRequest, CreatePermission, DeletePermission, Edit
<1>8. CASE UserRoleRequest
  BY <1>1, <1>8 DEF UserRoleRequest, Assign, Unassign, ReplaceRole, Edit
<1>9. CASE UserRequest
  BY <1>1, <1>9 DEF UserRequest, UpdateUserStatus, CreateUser, Edit
<1>. QED BY <1>5, <1>6, <1>7, <1>8, <1>9 DEF AccessRequest

\* Whoever renamed, deleted, granted or revoked what before, the administrator
\* locked out included, a bootstrap makes the program's own roles confer exactly
\* their allowlists again (bootstrap_service.py, bootstrap_admin).
THEOREM BootstrapsRestore == Spec => []BootstrapRestores
<1>1. Init => RestoreInv
  <2>1. Types \subseteq Codes
    BY AccessAssumption
  <2>. QED
    BY <2>1, RolesStart
    DEF Init, AccessInit, RestoreInv, CodesInv, CodeTable, RowState, BootstrapRestores
<1>2. RestoreInv /\ [Next]_vars => RestoreInv'
  <2> SUFFICES ASSUME RestoreInv, [Next]_vars PROVE CodesInv' /\ BootstrapRestores'
    BY RolesKeep DEF RestoreInv
  <2>1. CASE UNCHANGED <<users, roles, codes, grants, holds, fresh>>
    BY <2>1 DEF RestoreInv, CodesInv, BootstrapRestores, ActiveCodes, ActiveRoles, Confers,
                Granted, CodesOf, HeldBy
  <2>2. CASE Bootstrap
    BY <2>2, BootstrapDoesRestore DEF RestoreInv
  <2>3. CASE AccessRequest
    BY <2>3, EditsLeaveCodes DEF RestoreInv, BootstrapRestores
  <2>. QED BY <2>1, <2>2, <2>3 DEF Next, AccessNext, InboxRequest, vars, accessVars
<1>3. RestoreInv => BootstrapRestores
  BY DEF RestoreInv
<1>. QED BY <1>1, <1>2, <1>3, PTL DEF Spec
-----------------------------------------------------------------------------
InboxRow == [unread : Nat, read : Nat, deleted : Nat]

\* While the task runs its rows are those it found, unless its session broke.
RunIsWhole ==
    task.stage \in {"running", "committed"} =>
        /\ vacancy = "committed"
        /\ task.rows \subseteq task.found
        /\ ~broken => task.rows = task.found

\* A task that is still to commit has given nobody a notice, but for the runs
\* whose worker died after their commit.
Given == IF task.stage \in {"queued", "running"} THEN 0 ELSE 1

InboxIsOwed ==
    /\ vacancy # "committed" => \A u \in Users : RowsOf(u) = 0
    /\ \A u \in Users : RowsOf(u) <= repeats + Given /\ (RowsOf(u) > 0 => u \in owed)
    /\ ~broken => \A u \in owed : RowsOf(u) > 0

TaskType ==
    [stage : {"none", "queued", "running", "committed"}, rows : SUBSET Users, to : SUBSET Users,
     found : SUBSET Users, tries : 0..NoticeTries]

NoticeInv ==
    /\ inbox \in [Users -> InboxRow] /\ task \in TaskType /\ owed \subseteq Users
    /\ repeats \in Nat /\ RunIsWhole /\ InboxIsOwed

LEMMA NoTaskType == NoTask \in TaskType /\ NoTask.stage = "none"
<1>1. 0 \in 0..NoticeTries
  BY NoticeAssumption
<1>. QED BY <1>1 DEF NoTask, TaskType

LEMMA RowsAreNat ==
    ASSUME NEW u \in Users, inbox \in [Users -> InboxRow]
    PROVE  RowsOf(u) \in Nat
BY DEF RowsOf, InboxRow

LEMMA NoticesStart == Init => NoticeInv
BY NoTaskType
DEF Init, NoticeInit, NoticeInv, InboxRow, RunIsWhole, InboxIsOwed, Given, RowsOf

\* Steps that write no inbox: before the commit of a run, and between runs.
LEMMA RunsKeep ==
    ASSUME NoticeInv, UNCHANGED inbox, task' \in TaskType,
           UNCHANGED owed, broken => broken', repeats' \in Nat,
           \/ repeats' = repeats /\ (Given' >= Given \/ vacancy # "committed")
           \/ repeats' = repeats + 1,
           vacancy = "committed" => vacancy' = "committed",
           RunIsWhole'
    PROVE  NoticeInv'
<1>1. Given \in {0, 1} /\ Given' \in {0, 1} /\ repeats \in Nat
  BY DEF Given, NoticeInv
<1>2. \A u \in Users : RowsOf(u)' = RowsOf(u) /\ RowsOf(u) \in Nat
  BY RowsAreNat DEF RowsOf, NoticeInv
<1>3. \A u \in Users : RowsOf(u)' <= repeats' + Given'
  BY <1>1, <1>2 DEF NoticeInv, InboxIsOwed
<1>4. owed \subseteq Users
  BY DEF NoticeInv
<1>5. InboxIsOwed'
  BY <1>2, <1>3, <1>4 DEF NoticeInv, InboxIsOwed
<1>. QED BY <1>5 DEF NoticeInv

LEMMA NoticeStepsKeep ==
    ASSUME NoticeInv, NoticeNext, ~CommitNotice
    PROVE  NoticeInv'
<1>0. /\ task \in TaskType /\ RunIsWhole /\ NoTask \in TaskType /\ NoTask.stage = "none"
      /\ repeats \in Nat /\ 0 >= 0 /\ 1 >= 0 /\ 1 >= 1
  BY NoTaskType DEF NoticeInv
<1>1. CASE RequestVacancy
  <2>. DEFINE new == [NoTask EXCEPT !.stage = "queued"]
  <2>1. new \in TaskType /\ new.stage = "queued"
    BY <1>0 DEF TaskType
  <2>. HIDE DEF new
  <2>2. /\ vacancy = "absent" /\ task' = new /\ UNCHANGED <<inbox, owed, broken, repeats>>
    BY <1>1 DEF RequestVacancy, new
  <2>3. RunIsWhole'
    BY <2>1, <2>2 DEF RunIsWhole
  <2>4. vacancy # "committed" /\ repeats' = repeats /\ repeats' \in Nat /\ task' \in TaskType
    BY <1>0, <2>1, <2>2
  <2>. QED BY <2>2, <2>3, <2>4, RunsKeep
<1>2. CASE \E outcome \in {"committed", "absent"} : SettleVacancy(outcome)
  <2>1. vacancy = "open" /\ UNCHANGED <<task, inbox, owed, broken, repeats>>
    BY <1>2 DEF SettleVacancy
  <2>2. vacancy # "committed" /\ task' \in TaskType /\ repeats' = repeats /\ repeats' \in Nat
    BY <1>0, <2>1
  <2>3. RunIsWhole'
    BY <1>0, <2>1 DEF RunIsWhole
  <2>. QED BY <2>1, <2>2, <2>3, RunsKeep
<1>3. CASE StartNotice
  <2>. DEFINE found == Holders(Publish)
              new == [task EXCEPT !.stage = "running", !.rows = found, !.to = found, !.found = found]
  <2>1. found \in SUBSET Users
    BY DEF Holders
  <2>. HIDE DEF found
  <2>2. new \in TaskType /\ new.stage = "running" /\ new.rows = found /\ new.found = found
    BY <1>0, <2>1 DEF TaskType
  <2>. HIDE DEF new
  <2>3. /\ task.stage = "queued" /\ UNCHANGED <<vacancy, inbox, owed, broken, repeats>>
        /\ \/ task' = NoTask
           \/ vacancy = "committed" /\ task' = new
    BY <1>3 DEF StartNotice, new, found
  <2>. QED BY <1>0, <2>2, <2>3, RunsKeep DEF RunIsWhole, Given
<1>4. CASE \E u \in Users, sent \in BOOLEAN : MailNotice(u, sent)
  <2>1. PICK u \in Users : /\ task.stage = "running" /\ task' = [task EXCEPT !.to = @ \ {u}]
                           /\ UNCHANGED <<vacancy, inbox, owed, broken, repeats>>
    BY <1>4 DEF MailNotice, AfterMail
  <2>2. /\ task' \in TaskType /\ task'.stage = "running"
        /\ task'.rows = task.rows /\ task'.found = task.found
    BY <1>0, <2>1 DEF TaskType
  <2>. QED BY <1>0, <2>1, <2>2, RunsKeep DEF RunIsWhole, Given
<1>5. CASE NoticeBreaks
  <2>1. /\ task' \in TaskType /\ task'.stage = "running" /\ task'.rows = {}
        /\ task.stage = "running" /\ broken' = TRUE /\ UNCHANGED <<vacancy, inbox, owed, repeats>>
    BY <1>0, <1>5 DEF NoticeBreaks, TaskType
  <2>. QED BY <1>0, <2>1, RunsKeep DEF RunIsWhole, Given
<1>6. CASE NoticeWorkerDies
  <2>1. RunAgain(task) \in TaskType /\ RunAgain(task).stage \notin {"running", "committed"}
    <3>1. CASE task.tries + 1 < NoticeTries
      <4>1. task.tries + 1 \in 0..NoticeTries
        BY <1>0, <3>1, NoticeAssumption DEF TaskType
      <4>2. RunAgain(task) = [NoTask EXCEPT !.stage = "queued", !.tries = task.tries + 1]
        BY <3>1 DEF RunAgain
      <4>. QED BY <1>0, <4>1, <4>2 DEF TaskType
    <3>2. CASE ~(task.tries + 1 < NoticeTries)
      BY <1>0, <3>2 DEF RunAgain
    <3>. QED BY <3>1, <3>2
  <2>2. /\ task.stage \in {"running", "committed"} /\ task' = RunAgain(task)
        /\ repeats' = IF task.stage = "committed" THEN repeats + 1 ELSE repeats
        /\ UNCHANGED <<vacancy, inbox, owed, broken>>
    BY <1>6 DEF NoticeWorkerDies
  <2>3. task'.stage \notin {"running", "committed"} /\ RunIsWhole'
    BY <2>1, <2>2 DEF RunIsWhole
  <2>4. CASE task.stage = "running"
    <3>1. Given = 0 /\ Given' >= 0 /\ repeats' = repeats
      BY <2>2, <2>4 DEF Given
    <3>. QED BY <1>0, <2>1, <2>2, <2>3, <3>1, RunsKeep
  <2>5. CASE task.stage = "committed"
    <3>1. repeats' = repeats + 1 /\ repeats' \in Nat
      BY <1>0, <2>2, <2>5
    <3>. QED BY <1>0, <2>1, <2>2, <2>3, <3>1, RunsKeep
  <2>. QED BY <2>2, <2>4, <2>5
<1>7. CASE EndNotice
  BY <1>0, <1>7, RunsKeep DEF EndNotice, RunIsWhole, Given
<1>. QED BY <1>1, <1>2, <1>3, <1>4, <1>5, <1>6, <1>7 DEF NoticeNext, NoticeWork

\* A run that commits adds one notice for each of those it found.
LEMMA CommitKeeps ==
    ASSUME NoticeInv, CommitNotice
    PROVE  NoticeInv'
<1>1. /\ task.stage = "running" /\ vacancy = "committed" /\ UNCHANGED <<vacancy, broken, repeats>>
      /\ task.rows \subseteq task.found /\ (~broken => task.rows = task.found)
      /\ task.found \subseteq Users /\ owed' = owed \cup task.found /\ owed \subseteq Users
  BY DEF CommitNotice, NoticeInv, RunIsWhole, TaskType
<1>2. inbox \in [Users -> InboxRow] /\ repeats \in Nat /\ Given = 0
  BY <1>1 DEF NoticeInv, Given
<1>3. ASSUME NEW u \in Users
      PROVE  /\ inbox'[u] \in InboxRow
             /\ RowsOf(u)' = IF u \in task.rows THEN RowsOf(u) + 1 ELSE RowsOf(u)
  <2>1. inbox[u] \in InboxRow
    BY <1>2
  <2>2. inbox'[u] = IF u \in task.rows THEN [inbox[u] EXCEPT !.unread = @ + 1] ELSE inbox[u]
    BY DEF CommitNotice, Delivered
  <2>3. CASE u \in task.rows
    <3>1. inbox'[u] = [inbox[u] EXCEPT !.unread = inbox[u].unread + 1]
      BY <2>2, <2>3
    <3>2. /\ inbox'[u] \in InboxRow
          /\ inbox'[u].unread = inbox[u].unread + 1
          /\ inbox'[u].read = inbox[u].read /\ inbox'[u].deleted = inbox[u].deleted
      BY <2>1, <3>1 DEF InboxRow
    <3>. QED BY <2>1, <2>3, <3>2 DEF InboxRow, RowsOf
  <2>4. CASE u \notin task.rows
    BY <2>1, <2>2, <2>4 DEF RowsOf
  <2>. QED BY <2>3, <2>4
<1>4. inbox' \in [Users -> InboxRow]
  <2>1. inbox' = [u \in Users |-> inbox'[u]]
    BY DEF CommitNotice, Delivered
  <2>. QED BY <1>3, <2>1
<1>5. task' \in TaskType /\ task'.stage = "committed" /\ task'.rows = task.rows
      /\ task'.found = task.found
  BY DEF CommitNotice, NoticeInv, TaskType
<1>6. RunIsWhole' /\ Given' = 1
  BY <1>1, <1>5 DEF RunIsWhole, Given
<1>7. ASSUME NEW u \in Users
      PROVE  /\ RowsOf(u)' <= repeats + 1
             /\ RowsOf(u)' > 0 => u \in owed'
             /\ ~broken /\ u \in owed' => RowsOf(u)' > 0
  <2>1. /\ RowsOf(u) \in Nat /\ RowsOf(u) <= repeats + 0 /\ (RowsOf(u) > 0 => u \in owed)
        /\ ~broken /\ u \in owed => RowsOf(u) > 0
    BY <1>2, RowsAreNat DEF NoticeInv, InboxIsOwed
  <2>2. RowsOf(u)' = IF u \in task.rows THEN RowsOf(u) + 1 ELSE RowsOf(u)
    BY <1>3
  <2>3. RowsOf(u)' <= repeats + 1
    BY <1>2, <2>1, <2>2
  <2>4. RowsOf(u)' > 0 => u \in task.rows \/ RowsOf(u) > 0
    BY <2>1, <2>2
  <2>5. u \in task.rows \/ RowsOf(u) > 0 => RowsOf(u)' > 0
    BY <2>1, <2>2
  <2>. QED BY <1>1, <2>1, <2>3, <2>4, <2>5
<1>8. InboxIsOwed'
  BY <1>1, <1>6, <1>7 DEF InboxIsOwed
<1>. QED BY <1>1, <1>2, <1>4, <1>5, <1>6, <1>8 DEF NoticeInv

\* Reading and deleting notices moves rows, it does not make any.
LEMMA InboxKeeps ==
    ASSUME NoticeInv, InboxRequest
    PROVE  NoticeInv'
<1>1. PICK u \in Users : MarkRead(u) \/ DeleteNotice(u)
  BY DEF InboxRequest
<1>2. UNCHANGED <<vacancy, task, owed, broken, repeats>>
  BY <1>1 DEF MarkRead, DeleteNotice
<1>3. PICK row \in InboxRow :
         /\ inbox' = [inbox EXCEPT ![u] = row]
         /\ row.unread + row.read + row.deleted = RowsOf(u)
  <2>. DEFINE Row(a, b, c) == [unread |-> a, read |-> b, deleted |-> c]
              a == inbox[u].unread
              b == inbox[u].read
              c == inbox[u].deleted
  <2>1. /\ a \in Nat /\ b \in Nat /\ c \in Nat /\ RowsOf(u) = a + b + c
        /\ inbox[u] = Row(a, b, c) /\ inbox \in [Users -> InboxRow]
    BY DEF NoticeInv, InboxRow, RowsOf
  <2>2. \A x, y, z \in Nat : Row(x, y, z) \in InboxRow
    BY DEF InboxRow
  <2>3. \/ a > 0 /\ inbox' = [inbox EXCEPT ![u] = Row(a - 1, b + 1, c)]
        \/ a > 0 /\ inbox' = [inbox EXCEPT ![u] = Row(a - 1, b, c + 1)]
        \/ b > 0 /\ inbox' = [inbox EXCEPT ![u] = Row(a, b - 1, c + 1)]
    <3>1. CASE a > 0 /\ inbox' = [inbox EXCEPT ![u].unread = a - 1, ![u].read = b + 1]
      BY <2>1, <3>1
    <3>2. CASE a > 0 /\ inbox' = [inbox EXCEPT ![u].unread = a - 1, ![u].deleted = c + 1]
      BY <2>1, <3>2
    <3>3. CASE b > 0 /\ inbox' = [inbox EXCEPT ![u].read = b - 1, ![u].deleted = c + 1]
      BY <2>1, <3>3
    <3>. QED BY <1>1, <2>1, <3>1, <3>2, <3>3 DEF MarkRead, DeleteNotice
  <2>4. ASSUME NEW x \in Nat, NEW y \in Nat, NEW z \in Nat, x + y + z = a + b + c,
               inbox' = [inbox EXCEPT ![u] = Row(x, y, z)]
        PROVE  \E row \in InboxRow : /\ inbox' = [inbox EXCEPT ![u] = row]
                                     /\ row.unread + row.read + row.deleted = RowsOf(u)
    <3>1. Row(x, y, z).unread = x /\ Row(x, y, z).read = y /\ Row(x, y, z).deleted = z
      OBVIOUS
    <3>2. Row(x, y, z) \in InboxRow
      BY <2>2
    <3>. HIDE DEF Row
    <3>. QED BY <2>1, <2>4, <3>1, <3>2
  <2>. HIDE DEF Row, a, b, c
  <2>5. CASE a > 0
    <3>1. /\ a - 1 \in Nat /\ b + 1 \in Nat /\ c + 1 \in Nat
          /\ (a - 1) + (b + 1) + c = a + b + c /\ (a - 1) + b + (c + 1) = a + b + c
      BY <2>1, <2>5
    <3>2. b > 0 => b - 1 \in Nat /\ a + (b - 1) + (c + 1) = a + b + c
      BY <2>1
    <3>. QED BY <2>1, <2>3, <2>4, <3>1, <3>2
  <2>6. CASE ~(a > 0)
    <3>1. b > 0 => b - 1 \in Nat /\ c + 1 \in Nat /\ a + (b - 1) + (c + 1) = a + b + c
      BY <2>1
    <3>. QED BY <2>1, <2>3, <2>4, <2>6, <3>1
  <2>. QED BY <2>5, <2>6
<1>4. /\ inbox' \in [Users -> InboxRow]
      /\ \A w \in Users : RowsOf(w)' = RowsOf(w)
  <2>1. inbox \in [Users -> InboxRow]
    BY DEF NoticeInv
  <2>2. /\ inbox' \in [Users -> InboxRow]
        /\ inbox'[u] = row
        /\ \A w \in Users : w # u => inbox'[w] = inbox[w]
    BY <1>3, <2>1
  <2>3. RowsOf(u)' = row.unread + row.read + row.deleted
    BY <2>2 DEF RowsOf
  <2>4. ASSUME NEW w \in Users, w # u PROVE RowsOf(w)' = RowsOf(w)
    BY <2>2, <2>4 DEF RowsOf
  <2>5. \A w \in Users : RowsOf(w)' = RowsOf(w)
    <3>1. RowsOf(u)' = RowsOf(u)
      BY <1>3, <2>3
    <3>2. ASSUME NEW w \in Users PROVE RowsOf(w)' = RowsOf(w)
      <4>1. CASE w = u
        BY <3>1, <4>1
      <4>2. CASE w # u
        BY <2>4, <4>2
      <4>. QED BY <4>1, <4>2
    <3>. QED BY <3>2
  <2>. QED BY <2>2, <2>5
<1>5. owed \subseteq Users
  BY DEF NoticeInv
<1>6. InboxIsOwed'
  BY <1>2, <1>4, <1>5 DEF NoticeInv, InboxIsOwed, Given
<1>. QED BY <1>2, <1>4, <1>5, <1>6 DEF NoticeInv, RunIsWhole

THEOREM NoticeInvariant == Spec => []NoticeInv
<1>1. NoticeInv /\ [Next]_vars => NoticeInv'
  <2> SUFFICES ASSUME NoticeInv, [Next]_vars PROVE NoticeInv'
    OBVIOUS
  <2>1. CASE NoticeNext
    BY <2>1, NoticeStepsKeep, CommitKeeps
  <2>2. CASE InboxRequest
    BY <2>2, InboxKeeps
  <2>3. CASE UNCHANGED noticeVars
    BY <2>3 DEF NoticeInv, RunIsWhole, InboxIsOwed, Given, RowsOf, noticeVars
  <2>. QED BY <2>1, <2>2, <2>3 DEF Next, vars
<1>. QED BY <1>1, NoticesStart, PTL DEF Spec

\* A run that commits told whom it found, and whoever is told again owes it to
\* a worker that died after a commit.
THEOREM FoundUsersAreTold == Spec => []FoundAreTold
<1>1. ASSUME NoticeInv PROVE FoundAreTold
  <2>1. ASSUME NEW u \in Users PROVE RowsOf(u) <= 1 + repeats
    <3>1. RowsOf(u) \in Nat /\ repeats \in Nat /\ Given \in {0, 1} /\ RowsOf(u) <= repeats + Given
      BY <1>1, RowsAreNat DEF NoticeInv, InboxIsOwed, Given
    <3>. QED BY <3>1
  <2>. QED BY <1>1, <2>1 DEF NoticeInv, InboxIsOwed, FoundAreTold
<1>. QED BY <1>1, NoticeInvariant, PTL

-----------------------------------------------------------------------------
(* Files, and the tasks that read a CV                                     *)

\* An upload past the object store has its object, and so has every row.
ObjectsFirst ==
    \A f \in Cvs : uploads[f] = "stored" \/ files[f] # "absent" => f \in stored

\* Whatever a profile, a task or an answer names was linked once: a task reads
\* the committed profile, never the request that enqueued it.
NamesLinked ==
    /\ {profile.cv, profile.parsed, app.score} \subseteq linked \cup {NULL}
    /\ \A s \in Slots : jobs[s].cv \in linked \cup {NULL}

CvInv == CvTypeOK /\ ObjectsFirst /\ NamesLinked

JobType ==
    [task : {"none", "parse", "analyze"}, force : BOOLEAN, cv : MaybeCv,
     row : {"unread", "read", "late"}, tries : 0..MaxTries]

\* A slot with no task is well typed.
LEMMA NoJobType == NoJob \in JobType /\ NoJob.cv = NULL
<1>1. 0 \in 0..MaxTries
  BY CvAssumption
<1>. QED BY <1>1 DEF NoJob, JobType, MaybeCv

LEMMA CvStarts == CvInit => CvInv
<1> SUFFICES ASSUME CvInit PROVE CvInv
  OBVIOUS
<1>1. jobs \in [Slots -> JobType] /\ \A s \in Slots : jobs[s].cv = NULL
  BY NoJobType DEF CvInit
<1>2. CvTypeOK
  BY <1>1 DEF CvInit, CvTypeOK, JobType, MaybeCv, NoRequest, RowState
<1>3. ObjectsFirst /\ NamesLinked
  BY <1>1 DEF CvInit, ObjectsFirst, NamesLinked
<1>. QED BY <1>2, <1>3 DEF CvInv

\* The steps of an upload touch the upload, its object and its row.
LEMMA UploadsKeep ==
    ASSUME CvInv, NEW f \in Cvs,
           CountCvs(f) \/ StoreObject(f) \/ RegisterFile(f) \/ UploadBreaks(f) \/ DeleteFile(f)
    PROVE  CvInv'
<1>1. /\ uploads' \in [Cvs -> {"none", "counted", "stored", "ended"}]
      /\ stored' \subseteq Cvs
      /\ files' \in [Cvs -> RowState]
  BY DEF CvInv, CvTypeOK, CountCvs, StoreObject, RegisterFile, UploadBreaks, DeleteFile,
         UploadStep, RowState
<1>2. raced' \in BOOLEAN
  <2>1. raced' = raced \/ raced' = (raced \/ Cardinality(Open') > 1)
    BY DEF CountCvs, StoreObject, RegisterFile, UploadBreaks, DeleteFile, UploadStep
  <2>. QED BY <2>1, Zenon DEF CvInv, CvTypeOK
<1>3. UNCHANGED <<profile, app, request, jobs, linked>>
  BY DEF CountCvs, StoreObject, RegisterFile, UploadBreaks, DeleteFile, UploadStep
<1>4. ObjectsFirst'
  BY DEF CvInv, CvTypeOK, ObjectsFirst, CountCvs, StoreObject, RegisterFile, UploadBreaks,
         DeleteFile, UploadStep, Open
<1>5. CvTypeOK'
  BY <1>1, <1>2, <1>3 DEF CvInv, CvTypeOK
<1>6. NamesLinked'
  BY <1>3 DEF CvInv, NamesLinked
<1>. QED BY <1>4, <1>5, <1>6 DEF CvInv

\* A task just enqueued has read no CV yet.
LEMMA EnqueuedJobs ==
    ASSUME CvInv, NEW js, js \in [Slots -> JobType],
           \A s \in Slots : js[s].cv \in linked \cup {NULL},
           NEW s \in Slots, NEW kind \in {"parse", "analyze"}, NEW force \in BOOLEAN
    PROVE  /\ Enqueued(js, s, Job(kind, force)) \in [Slots -> JobType]
           /\ \A t \in Slots : Enqueued(js, s, Job(kind, force))[t].cv \in linked \cup {NULL}
<1>1. Job(kind, force) = [NoJob EXCEPT !.task = kind, !.force = force]
  BY DEF Job
<1>2. Job(kind, force) \in JobType /\ Job(kind, force).cv = NULL
  BY <1>1, NoJobType DEF JobType
<1>. QED BY <1>2 DEF Enqueued

\* Requests of the candidate and of staff: until the commit they only enqueue.
LEMMA RequestsKeep ==
    ASSUME CvInv,
           \/ \E cv \in MaybeCv : CreateCandidate(cv) \/ UpdateCandidate(cv)
           \/ Apply
           \/ \E force \in BOOLEAN : TriggerAnalysis(force)
    PROVE  CvInv'
<1>0. jobs \in [Slots -> JobType] /\ \A s \in Slots : jobs[s].cv \in linked \cup {NULL}
  BY DEF CvInv, CvTypeOK, NamesLinked, JobType
<1>1. jobs' \in [Slots -> JobType] /\ \A s \in Slots : jobs'[s].cv \in linked \cup {NULL}
  <2>1. ASSUME NEW kind \in {"parse", "analyze"}, NEW force \in BOOLEAN,
               Enqueue(Job(kind, force))
        PROVE  jobs' \in [Slots -> JobType] /\ \A s \in Slots : jobs'[s].cv \in linked \cup {NULL}
    BY <1>0, <2>1, EnqueuedJobs DEF Enqueue, FreeSlots
  <2>2. ASSUME EnqueueBoth(Job("parse", FALSE), Job("analyze", TRUE))
        PROVE  jobs' \in [Slots -> JobType] /\ \A s \in Slots : jobs'[s].cv \in linked \cup {NULL}
    <3>1. PICK s \in Slots, t \in Slots :
             jobs' = Enqueued(Enqueued(jobs, s, Job("parse", FALSE)), t, Job("analyze", TRUE))
      BY <2>2 DEF EnqueueBoth, FreeSlots
    <3>2. /\ Enqueued(jobs, s, Job("parse", FALSE)) \in [Slots -> JobType]
          /\ \A k \in Slots : Enqueued(jobs, s, Job("parse", FALSE))[k].cv \in linked \cup {NULL}
      BY <1>0, EnqueuedJobs
    <3>. QED BY <3>1, <3>2, EnqueuedJobs
  <2>3. \/ UNCHANGED jobs
        \/ \E kind \in {"parse", "analyze"}, force \in BOOLEAN : Enqueue(Job(kind, force))
        \/ EnqueueBoth(Job("parse", FALSE), Job("analyze", TRUE))
    <3>1. CASE \E cv \in MaybeCv : CreateCandidate(cv)
      BY <3>1 DEF CreateCandidate
    <3>2. CASE \E cv \in MaybeCv : UpdateCandidate(cv)
      BY <3>2 DEF UpdateCandidate
    <3>3. CASE Apply
      BY <3>3 DEF Apply
    <3>4. CASE \E force \in BOOLEAN : TriggerAnalysis(force)
      BY <3>4 DEF TriggerAnalysis
    <3>. QED BY <3>1, <3>2, <3>3, <3>4
  <2>. QED BY <1>0, <2>1, <2>2, <2>3
<1>2. UNCHANGED <<uploads, stored, files, profile, app, linked, raced>>
  BY DEF CreateCandidate, UpdateCandidate, Apply, TriggerAnalysis, Handled
<1>3. request' \in [kind : {"none", "create", "update", "apply"}, cv : MaybeCv]
  <2>. DEFINE R == [kind : {"none", "create", "update", "apply"}, cv : MaybeCv]
  <2>1. request \in R /\ NULL \in MaybeCv
    BY DEF CvInv, CvTypeOK, MaybeCv
  <2>2. CASE \E cv \in MaybeCv : CreateCandidate(cv)
    BY <2>2 DEF CreateCandidate, Handled
  <2>3. CASE \E cv \in MaybeCv : UpdateCandidate(cv)
    BY <2>3 DEF UpdateCandidate, Handled
  <2>4. CASE Apply
    BY <2>1, <2>4 DEF Apply, Handled
  <2>5. CASE \E force \in BOOLEAN : TriggerAnalysis(force)
    BY <2>1, <2>5 DEF TriggerAnalysis
  <2>. QED BY <2>2, <2>3, <2>4, <2>5
<1>4. CvTypeOK'
  BY <1>1, <1>2, <1>3 DEF CvInv, CvTypeOK, JobType
<1>5. ObjectsFirst' /\ NamesLinked'
  BY <1>1, <1>2 DEF CvInv, ObjectsFirst, NamesLinked
<1>. QED BY <1>4, <1>5 DEF CvInv

\* The commit links the CV of the request; a rollback and a withdrawal link none.
LEMMA CommitsKeep ==
    ASSUME CvInv, CommitRequest \/ RequestBreaks \/ Withdraw
    PROVE  CvInv'
<1>1. UNCHANGED <<uploads, stored, files, raced>>
  BY DEF CommitRequest, RequestBreaks, Withdraw
<1>3. jobs' \in [Slots -> JobType] /\ \A s \in Slots : jobs'[s].cv = jobs[s].cv
  <2>1. jobs \in [Slots -> JobType]
    BY DEF CvInv, CvTypeOK, JobType
  <2>2. CASE Withdraw
    <3>1. \A s \in Slots : Late(jobs[s]) \in JobType /\ Late(jobs[s]).cv = jobs[s].cv
      BY <2>1 DEF Late, JobType
    <3>. QED BY <2>2, <3>1 DEF Withdraw
  <2>. QED BY <2>1, <2>2 DEF CommitRequest, RequestBreaks
<1>2. /\ profile' \in [exists : BOOLEAN, cv : MaybeCv, parsed : MaybeCv]
      /\ app' \in [row : RowState, score : MaybeCv]
      /\ request' \in [kind : {"none", "create", "update", "apply"}, cv : MaybeCv]
      /\ linked' \subseteq Cvs
      /\ linked \subseteq linked'
      /\ {profile'.cv, profile'.parsed, app'.score} \subseteq linked' \cup {NULL}
  <2>1. /\ profile \in [exists : BOOLEAN, cv : MaybeCv, parsed : MaybeCv]
        /\ app \in [row : RowState, score : MaybeCv]
        /\ request \in [kind : {"none", "create", "update", "apply"}, cv : MaybeCv]
        /\ linked \subseteq Cvs
        /\ {profile.cv, profile.parsed, app.score} \subseteq linked \cup {NULL}
    BY DEF CvInv, CvTypeOK, NamesLinked
  <2>2. NoRequest \in [kind : {"none", "create", "update", "apply"}, cv : MaybeCv]
    BY DEF NoRequest, MaybeCv
  <2>3. CASE CommitRequest /\ request.kind = "apply"
    <3>1. app' = [row |-> "active", score |-> NULL]
      BY <2>3 DEF CommitRequest
    <3>2. app' \in [row : RowState, score : MaybeCv] /\ app'.score = NULL
      BY <3>1 DEF RowState, MaybeCv
    <3>3. UNCHANGED <<profile, linked>> /\ request' = NoRequest
      BY <2>3 DEF CommitRequest
    <3>. QED BY <2>1, <2>2, <3>2, <3>3
  <2>4. CASE CommitRequest /\ request.kind # "apply"
    <3>1. /\ profile' = [profile EXCEPT !.exists = TRUE, !.cv = request.cv]
          /\ linked' = linked \cup ({request.cv} \ {NULL})
          /\ UNCHANGED app /\ request' = NoRequest
      BY <2>4 DEF CommitRequest
    <3>2. request.cv \in MaybeCv
      BY <2>1
    <3>3. /\ profile' \in [exists : BOOLEAN, cv : MaybeCv, parsed : MaybeCv]
          /\ profile'.cv = request.cv /\ profile'.parsed = profile.parsed
      BY <2>1, <3>1, <3>2
    <3>4. linked' \subseteq Cvs /\ linked \subseteq linked' /\ request.cv \in linked' \cup {NULL}
      BY <2>1, <3>1, <3>2 DEF MaybeCv
    <3>. QED BY <2>1, <2>2, <3>1, <3>3, <3>4
  <2>5. CASE RequestBreaks
    BY <2>1, <2>2, <2>5 DEF RequestBreaks
  <2>6. CASE Withdraw
    <3>1. app' = [app EXCEPT !.row = "inactive"] /\ UNCHANGED <<profile, request, linked>>
      BY <2>6 DEF Withdraw
    <3>2. app' \in [row : RowState, score : MaybeCv] /\ app'.score = app.score
      BY <2>1, <3>1 DEF RowState
    <3>. QED BY <2>1, <3>1, <3>2
  <2>. QED BY <2>3, <2>4, <2>5, <2>6
<1>4. CvTypeOK' /\ ObjectsFirst'
  BY <1>1, <1>2, <1>3 DEF CvInv, CvTypeOK, ObjectsFirst, JobType
<1>5. NamesLinked'
  BY <1>1, <1>2, <1>3 DEF CvInv, NamesLinked
<1>. QED BY <1>4, <1>5 DEF CvInv

\* A task writes what it read, and the worker keeps nothing else of it.
LEMMA TasksKeep ==
    ASSUME CvInv, NEW s \in Slots,
           StartTask(s) \/ RereadRow(s) \/ FinishTask(s) \/ TaskFails(s) \/ WorkerDies(s)
    PROVE  CvInv'
<1>1. UNCHANGED <<uploads, stored, files, request, linked, raced>>
  BY DEF StartTask, RereadRow, FinishTask, TaskFails, WorkerDies, TaskStep
<1>2. PICK job :
         /\ jobs' = [jobs EXCEPT ![s] = job]
         /\ job \in JobType
         /\ job.cv \in linked \cup {NULL}
  <2>1. NoJob \in JobType /\ NoJob.cv = NULL
    BY NoJobType
  <2>2. jobs[s] \in JobType
    BY DEF CvInv, CvTypeOK, JobType
  <2>3. profile.cv \in MaybeCv /\ profile.cv \in linked \cup {NULL}
    BY DEF CvInv, CvTypeOK, NamesLinked
  <2>4. CASE StartTask(s)
    <3>. DEFINE job == [jobs[s] EXCEPT !.cv = CvOf]
    <3>1. job \in JobType /\ job.cv = profile.cv
      BY <2>2, <2>3 DEF CvOf, JobType
    <3>2. jobs' = [jobs EXCEPT ![s] = NoJob] \/ jobs' = [jobs EXCEPT ![s] = job]
      BY <2>4 DEF StartTask, TaskStep
    <3>. QED BY <2>1, <2>3, <3>1, <3>2
  <2>5. CASE FinishTask(s) \/ TaskFails(s)
    BY <2>1, <2>5 DEF FinishTask, TaskFails, TaskStep
  <2>6. CASE WorkerDies(s)
    <3>1. jobs' = [jobs EXCEPT ![s] = Requeued(jobs[s])]
      BY <2>6 DEF WorkerDies, TaskStep
    <3>2. CASE jobs[s].tries + 1 < MaxTries
      <4>. DEFINE job == [jobs[s] EXCEPT !.cv = NULL, !.row = "unread", !.tries = @ + 1]
      <4>1. jobs[s].tries + 1 \in 0..MaxTries
        BY <2>2, <3>2, CvAssumption DEF JobType
      <4>2. job \in JobType /\ job.cv = NULL
        BY <2>2, <4>1 DEF JobType, MaybeCv
      <4>3. Requeued(jobs[s]) = job
        BY <3>2 DEF Requeued
      <4>. QED BY <3>1, <4>2, <4>3
    <3>3. CASE ~(jobs[s].tries + 1 < MaxTries)
      BY <2>1, <3>1, <3>3 DEF Requeued
    <3>. QED BY <3>2, <3>3
  <2>7. CASE RereadRow(s)
    <3>. DEFINE job == [jobs[s] EXCEPT !.row = "read"]
    <3>1. job \in JobType /\ job.cv = jobs[s].cv /\ job.cv \in linked \cup {NULL}
      BY <2>2 DEF JobType, CvInv, NamesLinked
    <3>2. jobs' = [jobs EXCEPT ![s] = NoJob] \/ jobs' = [jobs EXCEPT ![s] = job]
      BY <2>7 DEF RereadRow, TaskStep
    <3>. QED BY <2>1, <3>1, <3>2
  <2>. QED BY <2>4, <2>5, <2>6, <2>7
<1>3. /\ profile' \in [exists : BOOLEAN, cv : MaybeCv, parsed : MaybeCv]
      /\ app' \in [row : RowState, score : MaybeCv]
      /\ {profile'.cv, profile'.parsed, app'.score} \subseteq linked \cup {NULL}
  <2>1. jobs[s].cv \in MaybeCv /\ jobs[s].cv \in linked \cup {NULL}
    BY DEF CvInv, CvTypeOK, NamesLinked
  <2>2. CASE UNCHANGED <<profile, app>>
    BY <2>2 DEF CvInv, CvTypeOK, NamesLinked
  <2>3. CASE FinishTask(s)
    BY <2>1, <2>3 DEF FinishTask, CvInv, CvTypeOK, NamesLinked
  <2>. QED BY <2>2, <2>3 DEF StartTask, RereadRow, TaskFails, WorkerDies
<1>4. CvTypeOK'
  BY <1>1, <1>2, <1>3 DEF CvInv, CvTypeOK, JobType
<1>5. ObjectsFirst'
  BY <1>1 DEF CvInv, ObjectsFirst
<1>6. NamesLinked'
  BY <1>1, <1>2, <1>3 DEF CvInv, CvTypeOK, NamesLinked
<1>. QED BY <1>4, <1>5, <1>6 DEF CvInv

THEOREM CvInvariant == CvSpec => []CvInv
<1>1. CvInv /\ [CvNext]_cvVars => CvInv'
  <2>1. CvInv /\ CvNext => CvInv'
    BY UploadsKeep, RequestsKeep, CommitsKeep, TasksKeep DEF CvNext
  <2>2. CvInv /\ UNCHANGED cvVars => CvInv'
    BY DEF CvInv, CvTypeOK, ObjectsFirst, NamesLinked, cvVars
  <2>. QED BY <2>1, <2>2
<1>. QED BY <1>1, CvStarts, PTL DEF CvSpec

\* Every state of the pipeline is well typed.
THEOREM CvTypeCorrect == CvSpec => []CvTypeOK
BY CvInvariant, PTL DEF CvInv

\* A row is registered after its object was stored and deleted without it.
THEOREM RowsKeepTheirObjects == CvSpec => []RowsHaveObjects
<1>1. CvInv => RowsHaveObjects
  BY DEF CvInv, ObjectsFirst, RowsHaveObjects
<1>. QED BY <1>1, CvInvariant, PTL

\* Scores and parsed data are of CVs that have been on the profile.
THEOREM AnswersComeFromLinkedCvs == CvSpec => []AnswersAreOfLinkedCvs
<1>1. CvInv => AnswersAreOfLinkedCvs
  BY DEF CvInv, NamesLinked, AnswersAreOfLinkedCvs
<1>. QED BY <1>1, CvInvariant, PTL

\* A task that has read the row again, and not missed a withdrawal since, has
\* an active row before it.
RowsReadAreActive == \A s \in Slots : jobs[s].row = "read" => app.row = "active"

LEMMA RowsReadStay ==
    ASSUME CvInv, RowsReadAreActive, CvNext
    PROVE  RowsReadAreActive'
<1>0. jobs \in [Slots -> JobType] /\ NoJob.row = "unread"
  BY DEF CvInv, CvTypeOK, JobType, NoJob
<1>1. ASSUME NEW s \in Slots, NEW job, jobs' = [jobs EXCEPT ![s] = job],
             job.row = "read" => app.row = "active", app.row = "active" => app'.row = "active"
      PROVE  RowsReadAreActive'
  BY <1>0, <1>1 DEF RowsReadAreActive
<1>2. CASE UNCHANGED <<jobs, app>>
  BY <1>2 DEF RowsReadAreActive
<1>3. CASE CommitRequest
  <2>1. UNCHANGED jobs /\ (app.row = "active" => app'.row = "active")
    BY <1>3 DEF CommitRequest
  <2>. QED BY <2>1 DEF RowsReadAreActive
<1>4. CASE Withdraw
  <2>1. \A s \in Slots : Late(jobs[s]).row # "read"
    BY <1>0 DEF Late, JobType
  <2>. QED BY <1>4, <2>1 DEF Withdraw, RowsReadAreActive
<1>5. ASSUME NEW kind \in {"parse", "analyze"}, NEW force \in BOOLEAN,
             Enqueue(Job(kind, force)), UNCHANGED app
      PROVE  RowsReadAreActive'
  <2>1. Job(kind, force).row = "unread"
    BY <1>0 DEF Job, NoJob
  <2>. QED BY <1>1, <1>5, <2>1 DEF Enqueue, Enqueued, FreeSlots
<1>6. ASSUME EnqueueBoth(Job("parse", FALSE), Job("analyze", TRUE)), UNCHANGED app
      PROVE  RowsReadAreActive'
  <2>1. Job("parse", FALSE).row = "unread" /\ Job("analyze", TRUE).row = "unread"
    BY <1>0 DEF Job, NoJob
  <2>2. PICK s \in Slots, t \in Slots :
           jobs' = Enqueued(Enqueued(jobs, s, Job("parse", FALSE)), t, Job("analyze", TRUE))
    BY <1>6 DEF EnqueueBoth, FreeSlots
  <2>3. \A k \in Slots : jobs'[k] = jobs[k] \/ jobs'[k].row = "unread"
    BY <1>0, <2>1, <2>2 DEF Enqueued
  <2>. QED BY <1>6, <2>3 DEF RowsReadAreActive
<1>7. CASE \/ \E cv \in MaybeCv : CreateCandidate(cv) \/ UpdateCandidate(cv)
           \/ Apply
           \/ \E force \in BOOLEAN : TriggerAnalysis(force)
  <2>1. UNCHANGED app
    BY <1>7 DEF CreateCandidate, UpdateCandidate, Apply, TriggerAnalysis, Handled
  <2>2. \/ UNCHANGED jobs
        \/ \E kind \in {"parse", "analyze"}, force \in BOOLEAN : Enqueue(Job(kind, force))
        \/ EnqueueBoth(Job("parse", FALSE), Job("analyze", TRUE))
    <3>1. CASE \E cv \in MaybeCv : CreateCandidate(cv)
      BY <3>1 DEF CreateCandidate
    <3>2. CASE \E cv \in MaybeCv : UpdateCandidate(cv)
      BY <3>2 DEF UpdateCandidate
    <3>3. CASE Apply
      BY <3>3 DEF Apply
    <3>4. CASE \E force \in BOOLEAN : TriggerAnalysis(force)
      BY <3>4 DEF TriggerAnalysis
    <3>. QED BY <1>7, <3>1, <3>2, <3>3, <3>4
  <2>. QED BY <1>2, <1>5, <1>6, <2>1, <2>2
<1>8. ASSUME NEW s \in Slots,
             StartTask(s) \/ RereadRow(s) \/ FinishTask(s) \/ TaskFails(s) \/ WorkerDies(s)
      PROVE  RowsReadAreActive'
  <2>0. app'.row = app.row /\ jobs[s] \in JobType
    BY <1>0, <1>8 DEF StartTask, RereadRow, FinishTask, TaskFails, WorkerDies, CvInv, CvTypeOK
  <2>1. CASE StartTask(s)
    <3>. DEFINE job == IF NothingToDo(jobs[s]) THEN NoJob ELSE [jobs[s] EXCEPT !.cv = CvOf]
    <3>1. job.row = "read" => jobs[s].row = "read"
      BY <1>0, <2>0 DEF JobType
    <3>2. jobs' = [jobs EXCEPT ![s] = job]
      BY <2>1 DEF StartTask, TaskStep
    <3>. HIDE DEF job
    <3>. QED BY <1>1, <2>0, <3>1, <3>2 DEF RowsReadAreActive
  <2>2. CASE RereadRow(s)
    <3>. DEFINE job == IF RowIsThere THEN [jobs[s] EXCEPT !.row = "read"] ELSE NoJob
    <3>1. job.row = "read" => app.row = "active"
      BY <1>0 DEF RowIsThere
    <3>2. jobs' = [jobs EXCEPT ![s] = job]
      BY <2>2 DEF RereadRow, TaskStep
    <3>. HIDE DEF job
    <3>. QED BY <1>1, <2>0, <3>1, <3>2
  <2>3. CASE FinishTask(s) \/ TaskFails(s)
    <3>1. jobs' = [jobs EXCEPT ![s] = NoJob]
      BY <2>3 DEF FinishTask, TaskFails, TaskStep
    <3>. QED BY <1>0, <1>1, <2>0, <3>1
  <2>4. CASE WorkerDies(s)
    <3>1. Requeued(jobs[s]).row = "unread"
      BY <1>0, <2>0 DEF Requeued, JobType
    <3>2. jobs' = [jobs EXCEPT ![s] = Requeued(jobs[s])]
      BY <2>4 DEF WorkerDies, TaskStep
    <3>. QED BY <1>1, <2>0, <3>1, <3>2
  <2>. QED BY <1>8, <2>1, <2>2, <2>3, <2>4
<1>9. ASSUME NEW f \in Cvs,
             CountCvs(f) \/ StoreObject(f) \/ RegisterFile(f) \/ UploadBreaks(f) \/ DeleteFile(f)
      PROVE  UNCHANGED <<jobs, app>>
  BY <1>9 DEF CountCvs, StoreObject, RegisterFile, UploadBreaks, DeleteFile, UploadStep
<1>10. CASE RequestBreaks
  BY <1>2, <1>10 DEF RequestBreaks
<1>. QED BY <1>2, <1>3, <1>4, <1>7, <1>8, <1>9, <1>10 DEF CvNext

\* Whatever else runs, the score of a withdrawn application is written only by
\* a task that had read its row again before the candidate withdrew.
THEOREM WithdrawnScoresStay == CvSpec => WithdrawnKeepsItsScore
<1>1. ASSUME CvInv, RowsReadAreActive, CvNext, app.row = "inactive", app'.row = "inactive",
             app'.score # app.score
      PROVE  \E s \in Slots : jobs[s].row = "late" /\ jobs'[s] = NoJob
  <2>0. jobs \in [Slots -> JobType]
    BY <1>1 DEF CvInv, CvTypeOK, JobType
  <2>1. ~ CommitRequest /\ ~ Withdraw
    BY <1>1 DEF CommitRequest, Withdraw
  <2>2. PICK s \in Slots : FinishTask(s)
    BY <1>1, <2>1
    DEF CvNext, CountCvs, StoreObject, RegisterFile, UploadBreaks, DeleteFile, UploadStep,
        CreateCandidate, UpdateCandidate, Apply, Handled, RequestBreaks, TriggerAnalysis,
        StartTask, RereadRow, TaskFails, WorkerDies
  <2>3. jobs[s].row # "unread" /\ jobs' = [jobs EXCEPT ![s] = NoJob]
    BY <1>1, <2>2 DEF FinishTask, TaskStep
  <2>4. jobs[s].row = "late"
    BY <1>1, <2>0, <2>3 DEF RowsReadAreActive, JobType
  <2>. QED BY <2>0, <2>3, <2>4
<1>2. CvInv /\ RowsReadAreActive /\ [CvNext]_cvVars
      => [app.row = "inactive" /\ app'.row = "inactive" /\ app'.score # app.score
          => \E s \in Slots : jobs[s].row = "late" /\ jobs'[s] = NoJob]_cvVars
  BY <1>1
<1>3. CvInit => RowsReadAreActive
  BY DEF CvInit, RowsReadAreActive, NoJob
<1>4. CvInv /\ RowsReadAreActive /\ [CvNext]_cvVars => RowsReadAreActive'
  BY RowsReadStay DEF RowsReadAreActive, cvVars
<1>. QED BY <1>2, <1>3, <1>4, CvInvariant, PTL DEF CvSpec, WithdrawnKeepsItsScore

-----------------------------------------------------------------------------
(* The quota of a user's CVs                                               *)

\* What is active, or may become so by an upload that has been counted.
Claimed == ActiveCvs \cup Open

LEMMA FiniteCvs ==
    ASSUME NEW S \in SUBSET Cvs
    PROVE  /\ IsFiniteSet(S) /\ Cardinality(S) \in Nat
           /\ \A R \in SUBSET S : Cardinality(R) <= Cardinality(S)
<1>1. IsFiniteSet(S)
  BY CvAssumption, FS_Subset
<1>. QED BY <1>1, FS_Subset, FS_CardinalityType

LEMMA FiniteBytes ==
    ASSUME NEW S \in SUBSET Cvs
    PROVE  /\ IsFiniteSet(Bytes(S)) /\ TotalOf(S) \in Nat
           /\ TotalOf(S) <= Cardinality(S) * MaxSize
<1>1. IsFiniteSet(1..MaxSize) /\ Cardinality(1..MaxSize) = MaxSize
  BY CvAssumption, FS_Interval
<1>2. /\ IsFiniteSet(S \X (1..MaxSize))
      /\ Cardinality(S \X (1..MaxSize)) = Cardinality(S) * MaxSize
  BY <1>1, FiniteCvs, FS_Product
<1>3. Bytes(S) \in SUBSET (S \X (1..MaxSize))
  BY DEF Bytes
<1>. QED BY <1>2, <1>3, FS_Subset, FS_CardinalityType DEF TotalOf

\* The sum over fewer files is smaller, one more file adds its size at most.
LEMMA TotalGrows ==
    ASSUME NEW S \in SUBSET Cvs, NEW R \in SUBSET S
    PROVE  TotalOf(R) <= TotalOf(S)
<1>1. Bytes(R) \in SUBSET Bytes(S)
  BY DEF Bytes
<1>. QED BY <1>1, FiniteBytes, FS_Subset DEF TotalOf

LEMMA TotalOfBoth ==
    ASSUME NEW S \in SUBSET Cvs, NEW R \in SUBSET Cvs
    PROVE  TotalOf(S \cup R) <= TotalOf(S) + TotalOf(R)
<1>1. Bytes(S \cup R) = Bytes(S) \cup Bytes(R)
  BY DEF Bytes
<1>2. IsFiniteSet(Bytes(S)) /\ IsFiniteSet(Bytes(R))
  BY FiniteBytes
<1>3. Cardinality(Bytes(S) \cap Bytes(R)) \in Nat
  BY <1>2, FS_Intersection, FS_CardinalityType
<1>4. Cardinality(Bytes(S \cup R)) =
         Cardinality(Bytes(S)) + Cardinality(Bytes(R)) - Cardinality(Bytes(S) \cap Bytes(R))
  BY <1>1, <1>2, FS_Union
<1>. QED BY <1>3, <1>4, FiniteBytes DEF TotalOf

LEMMA TotalOfOne ==
    ASSUME NEW f \in Cvs
    PROVE  TotalOf({f}) = Size[f]
<1>1. Size[f] \in Nat /\ Size[f] <= MaxSize /\ MaxSize \in Nat
  BY CvAssumption
<1>2. Bytes({f}) = {f} \X (1..Size[f])
  <2>1. ASSUME NEW x \in Bytes({f})
        PROVE  x \in {f} \X (1..Size[f])
    <3>1. x \in {f} \X (1..MaxSize) /\ x[2] <= Size[x[1]]
      BY DEF Bytes
    <3>2. x = <<x[1], x[2]>> /\ x[1] = f /\ x[2] \in 1..MaxSize
      BY <3>1
    <3>3. x[2] \in 1..Size[f]
      BY <1>1, <3>1, <3>2
    <3>. QED BY <3>2, <3>3
  <2>2. ASSUME NEW n \in 1..Size[f]
        PROVE  <<f, n>> \in Bytes({f})
    <3>1. n \in 1..MaxSize /\ n <= Size[f]
      BY <1>1
    <3>. QED BY <3>1 DEF Bytes
  <2>3. Bytes({f}) \subseteq {f} \X (1..Size[f])
    BY <2>1
  <2>4. \A x \in {f} \X (1..Size[f]) : x \in Bytes({f})
    BY <2>2
  <2>. QED BY <2>3, <2>4
<1>3. IsFiniteSet(1..Size[f]) /\ Cardinality(1..Size[f]) = Size[f]
  <2>1. \A n \in Nat : IsFiniteSet(1..n) /\ Cardinality(1..n) = n
    BY FS_Interval
  <2>. QED BY <1>1, <2>1
<1>4. IsFiniteSet({f}) /\ Cardinality({f}) = 1
  BY FS_Singleton
<1>5. Cardinality({f} \X (1..Size[f])) = 1 * Size[f]
  BY <1>3, <1>4, FS_Product
<1>6. 1 * Size[f] = Size[f]
  BY <1>1
<1>. QED BY <1>2, <1>5, <1>6 DEF TotalOf

\* The quota, with what open uploads may still add.
QuotaInv ==
    /\ CvTypeOK
    /\ Cardinality(Open) <= Uploaders
    /\ ~raced => /\ Cardinality(Open) <= 1
                 /\ Cardinality(Claimed) <= MaxCount
                 /\ TotalOf(Claimed) <= MaxTotal
    /\ Cardinality(Claimed) <= MaxCount + Uploaders - 1
    /\ TotalOf(Claimed) <= MaxTotal + (Uploaders - 1) * MaxSize

LEMMA InitQuota == CvInit => QuotaInv
<1> SUFFICES ASSUME CvInit PROVE QuotaInv
  OBVIOUS
<1>1. CvTypeOK
  BY CvStarts DEF CvInv
<1>2. Open = {} /\ Claimed = {}
  BY DEF CvInit, Open, Claimed, ActiveCvs
<1>3. Cardinality({}) = 0 /\ {} \in SUBSET Cvs
  BY FS_EmptySet
<1>4. TotalOf({}) = 0
  BY <1>3, FiniteBytes, CvAssumption
<1>5. /\ Uploaders \in Nat /\ Uploaders >= 1 /\ MaxCount \in Nat /\ MaxTotal \in Nat
      /\ (Uploaders - 1) * MaxSize \in Nat
  BY CvAssumption
<1>. QED BY <1>1, <1>2, <1>3, <1>4, <1>5 DEF QuotaInv

\* Nothing more is claimed, and no more uploads are open.
LEMMA FewerClaims ==
    ASSUME QuotaInv, CvTypeOK', Claimed' \subseteq Claimed, Open' \subseteq Open,
           raced' => raced \/ Cardinality(Open') > 1, raced => raced'
    PROVE  QuotaInv'
<1>1. Claimed \in SUBSET Cvs /\ Open \in SUBSET Cvs
  BY DEF Claimed, ActiveCvs, Open
<1>2. /\ Cardinality(Claimed') <= Cardinality(Claimed) /\ Cardinality(Open') <= Cardinality(Open)
      /\ Cardinality(Claimed) \in Nat /\ Cardinality(Open) \in Nat
      /\ Cardinality(Claimed') \in Nat /\ Cardinality(Open') \in Nat
  BY <1>1, FiniteCvs
<1>3. TotalOf(Claimed') <= TotalOf(Claimed) /\ TotalOf(Claimed) \in Nat /\ TotalOf(Claimed') \in Nat
  BY <1>1, TotalGrows, FiniteBytes
<1>4. /\ Uploaders \in Nat /\ MaxCount \in Nat /\ MaxTotal \in Nat
      /\ (Uploaders - 1) * MaxSize \in Int
  BY CvAssumption
<1>5. ~raced' => ~raced
  OBVIOUS
<1>. QED BY <1>2, <1>3, <1>4, <1>5 DEF QuotaInv

LEMMA UploadsInQuota ==
    ASSUME QuotaInv, CvTypeOK', NEW f \in Cvs,
           CountCvs(f) \/ StoreObject(f) \/ RegisterFile(f) \/ UploadBreaks(f) \/ DeleteFile(f)
    PROVE  QuotaInv'
<1>1. /\ uploads \in [Cvs -> {"none", "counted", "stored", "ended"}]
      /\ files \in [Cvs -> RowState]
  BY DEF QuotaInv, CvTypeOK
<1>2. CASE CountCvs(f)
  <2>1. /\ f \notin Open /\ Open' = Open \cup {f} /\ ActiveCvs' = ActiveCvs
        /\ Cardinality(Open) < Uploaders
        /\ Cardinality(ActiveCvs) + 1 <= MaxCount /\ TotalOf(ActiveCvs) + Size[f] <= MaxTotal
        /\ raced' = (raced \/ Cardinality(Open') > 1)
    <3>1. f \notin Open /\ Open' = Open \cup {f} /\ ActiveCvs' = ActiveCvs
      BY <1>1, <1>2 DEF CountCvs, UploadStep, Open, ActiveCvs
    <3>2. ActiveCvs \in SUBSET Cvs
      BY DEF ActiveCvs
    <3>3. Cardinality(ActiveCvs) \in Nat /\ TotalOf(ActiveCvs) \in Nat
      BY <3>2, FiniteCvs, FiniteBytes
    <3>4. Size[f] \in Nat /\ MaxCount \in Nat /\ MaxTotal \in Nat
      BY CvAssumption
    <3>5. ~(Cardinality(ActiveCvs) + 1 > MaxCount) /\ ~(TotalOf(ActiveCvs) + Size[f] > MaxTotal)
      BY <1>2 DEF CountCvs, CvQuotaExceeded
    <3>6. Cardinality(Open) < Uploaders /\ raced' = (raced \/ Cardinality(Open') > 1)
      BY <1>2 DEF CountCvs, UploadStep
    <3>. QED BY <3>1, <3>3, <3>4, <3>5, <3>6
  <2>2. /\ ActiveCvs \in SUBSET Cvs /\ Open \in SUBSET Cvs /\ Open' \in SUBSET Cvs
        /\ Claimed' = ActiveCvs \cup Open' /\ Claimed' \in SUBSET Cvs
    BY <2>1 DEF ActiveCvs, Open, Claimed
  <2>3. /\ IsFiniteSet(ActiveCvs) /\ IsFiniteSet(Open) /\ IsFiniteSet(Open')
        /\ Cardinality(ActiveCvs) \in Nat /\ Cardinality(Open) \in Nat
        /\ Cardinality(Open') = Cardinality(Open) + 1
    BY <2>1, <2>2, FiniteCvs, FS_AddElement
  <2>4. Cardinality(Claimed') \in Nat /\ Cardinality(Claimed') <= Cardinality(ActiveCvs) + Cardinality(Open')
    <3>1. Cardinality(ActiveCvs \cap Open') \in Nat
      BY <2>3, FS_Intersection, FS_CardinalityType
    <3>2. Cardinality(ActiveCvs \cup Open') =
             Cardinality(ActiveCvs) + Cardinality(Open') - Cardinality(ActiveCvs \cap Open')
      BY <2>3, FS_Union
    <3>3. Cardinality(Claimed') \in Nat
      BY <2>2, FiniteCvs
    <3>. QED BY <2>2, <2>3, <3>1, <3>2, <3>3
  <2>5. TotalOf(Claimed') \in Nat /\ TotalOf(Claimed') <= TotalOf(ActiveCvs) + Size[f] + TotalOf(Open)
    <3>1. Claimed' = (ActiveCvs \cup {f}) \cup Open /\ ActiveCvs \cup {f} \in SUBSET Cvs
          /\ {f} \in SUBSET Cvs
      BY <2>1, <2>2
    <3>2. TotalOf(Claimed') <= TotalOf(ActiveCvs \cup {f}) + TotalOf(Open)
      BY <2>2, <3>1, TotalOfBoth
    <3>3. TotalOf(ActiveCvs \cup {f}) <= TotalOf(ActiveCvs) + TotalOf({f})
      BY <2>2, <3>1, TotalOfBoth
    <3>4. TotalOf({f}) = Size[f]
      BY TotalOfOne
    <3>5. /\ TotalOf(Claimed') \in Nat /\ TotalOf(ActiveCvs \cup {f}) \in Nat
          /\ TotalOf(ActiveCvs) \in Nat /\ TotalOf(Open) \in Nat /\ Size[f] \in Nat
      BY <2>2, <3>1, FiniteBytes, CvAssumption
    <3>. QED BY <3>2, <3>3, <3>4, <3>5
  <2>6. TotalOf(Open) \in Nat /\ TotalOf(Open) <= (Uploaders - 1) * MaxSize
    <3>1. TotalOf(Open) \in Nat /\ TotalOf(Open) <= Cardinality(Open) * MaxSize
      BY <2>2, FiniteBytes
    <3>2. Cardinality(Open) <= Uploaders - 1 /\ Uploaders \in Nat /\ MaxSize \in Nat
      BY <2>1, <2>3, CvAssumption
    <3>3. Cardinality(Open) * MaxSize <= (Uploaders - 1) * MaxSize
      BY <2>3, <3>2
    <3>. QED BY <2>3, <3>1, <3>2, <3>3
  \* With no race no other upload is open.
  <2>7. ~raced' => Open = {} /\ Cardinality(Open') <= 1
    <3>1. ~raced' => ~(Cardinality(Open') > 1)
      BY <2>1, Zenon
    <3>2. ~(Cardinality(Open') > 1) => Cardinality(Open) = 0 /\ Cardinality(Open') <= 1
      BY <2>3
    <3>3. Cardinality(Open) = 0 => Open = {}
      BY <2>3, FS_EmptySet
    <3>. QED BY <3>1, <3>2, <3>3
  <2>8. Open = {} => Cardinality(Open) = 0 /\ TotalOf(Open) = 0
    <3>1. Cardinality({}) = 0
      BY FS_EmptySet
    <3>2. TotalOf({}) <= 0 * MaxSize /\ TotalOf({}) \in Nat
      BY <3>1, FiniteBytes
    <3>3. 0 * MaxSize = 0
      BY CvAssumption
    <3>. QED BY <3>1, <3>2, <3>3
  <2>9. /\ Uploaders \in Nat /\ MaxCount \in Nat /\ MaxTotal \in Nat /\ Size[f] \in Nat
        /\ (Uploaders - 1) * MaxSize \in Int /\ TotalOf(ActiveCvs) \in Nat
    BY <2>2, FiniteBytes, CvAssumption
  <2>10. Cardinality(Open') <= Uploaders /\ Cardinality(Claimed') <= MaxCount + Uploaders - 1
    BY <2>1, <2>3, <2>4, <2>9
  <2>11. TotalOf(Claimed') <= MaxTotal + (Uploaders - 1) * MaxSize
    BY <2>1, <2>5, <2>6, <2>9
  <2>12. ~raced' => Cardinality(Claimed') <= MaxCount /\ TotalOf(Claimed') <= MaxTotal
    BY <2>1, <2>3, <2>4, <2>5, <2>7, <2>8, <2>9
  <2>. QED BY <2>7, <2>10, <2>11, <2>12 DEF QuotaInv
<1>3. CASE ~CountCvs(f)
  <2>1. Claimed' \subseteq Claimed /\ Open' \subseteq Open
    BY <1>1, <1>3 DEF StoreObject, RegisterFile, UploadBreaks, DeleteFile, UploadStep,
                      Claimed, ActiveCvs, Open
  <2>2. raced' = raced \/ raced' = (raced \/ Cardinality(Open') > 1)
    BY <1>3 DEF StoreObject, RegisterFile, UploadBreaks, DeleteFile, UploadStep
  <2>3. (raced' => raced \/ Cardinality(Open') > 1) /\ (raced => raced')
    BY <2>2 DEF QuotaInv, CvTypeOK
  <2>. QED BY <2>1, <2>3, FewerClaims
<1>. QED BY <1>2, <1>3

\* Uploads that come one after the other keep the quota, and uploads that race
\* go past it by no more than there are of them, for any sizes and limits
\* (files_service.py, cv_quota_exceeded).
THEOREM QuotasHold == CvSpec => []QuotaHolds
<1>1. CvInv /\ CvInv' /\ QuotaInv /\ [CvNext]_cvVars => QuotaInv'
  <2>. SUFFICES ASSUME CvInv, CvInv', QuotaInv, [CvNext]_cvVars PROVE QuotaInv'
    OBVIOUS
  <2>1. CASE \E f \in Cvs : CountCvs(f) \/ StoreObject(f) \/ RegisterFile(f)
                            \/ UploadBreaks(f) \/ DeleteFile(f)
    BY <2>1, UploadsInQuota DEF CvInv
  <2>2. CASE UNCHANGED <<uploads, files, raced>>
    <3>1. UNCHANGED <<Claimed, Open, raced>>
      BY <2>2 DEF Claimed, ActiveCvs, Open
    <3>2. CvTypeOK'
      BY DEF CvInv
    <3>. QED BY <3>1, <3>2, FewerClaims
  <2>3. (\E f \in Cvs : CountCvs(f) \/ StoreObject(f) \/ RegisterFile(f)
                        \/ UploadBreaks(f) \/ DeleteFile(f))
        \/ UNCHANGED <<uploads, files, raced>>
    BY DEF CvNext, cvVars, CreateCandidate, UpdateCandidate, Apply, CommitRequest, RequestBreaks,
           Withdraw, TriggerAnalysis, StartTask, RereadRow, FinishTask, TaskFails, WorkerDies, Handled,
           TaskStep
  <2>. QED BY <2>1, <2>2, <2>3
<1>2. QuotaInv => QuotaHolds
  <2>. SUFFICES ASSUME QuotaInv PROVE QuotaHolds
    OBVIOUS
  <2>1. Claimed \in SUBSET Cvs /\ ActiveCvs \in SUBSET Claimed
    BY DEF Claimed, ActiveCvs, Open
  <2>2. /\ Cardinality(ActiveCvs) <= Cardinality(Claimed) /\ Cardinality(Claimed) \in Nat
        /\ Cardinality(ActiveCvs) \in Nat
    BY <2>1, FiniteCvs
  <2>3. /\ TotalOf(ActiveCvs) <= TotalOf(Claimed) /\ TotalOf(Claimed) \in Nat
        /\ TotalOf(ActiveCvs) \in Nat
    BY <2>1, TotalGrows, FiniteBytes
  <2>4. /\ Uploaders \in Nat /\ MaxCount \in Nat /\ MaxTotal \in Nat
        /\ (Uploaders - 1) * MaxSize \in Int
    BY CvAssumption
  <2>. QED BY <2>2, <2>3, <2>4 DEF QuotaInv, QuotaHolds
<1>. QED BY <1>1, <1>2, InitQuota, CvInvariant, PTL DEF CvSpec
=============================================================================
