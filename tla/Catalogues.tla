------------------------------ MODULE Catalogues ------------------------------
(***************************************************************************)
(* The catalogues almost every row of the system points at: parameters     *)
(* (type, code), departments, profile templates with their items, and the  *)
(* navigation menu.  Each is a thin service that validates the rows it     *)
(* points at when it writes one, and refuses to delete a row that others   *)
(* still use; PATCH is_active asks nobody.  One request at a time.         *)
(*                                                                         *)
(* Abstracted: names, labels, routes, icons and the order of siblings.  Of *)
(* the tables that point at the catalogues one of each kind is kept: the   *)
(* items and the menu for parameters, a process and a vacancy for the rest.*)
(***************************************************************************)
EXTENDS Naturals, FiniteSets, Rows

CONSTANTS
    Parameters,   \* ids of org.parameters
    Types,        \* their types
    Codes,        \* their codes
    Seeds,        \* the parameters the migrations insert
    CategoryType, \* ITEM_CATEGORY_TYPE
    Callers,      \* the types a caller may write, per kind of caller
    Departments,  \* ids of org.departments
    Templates,    \* ids of org.profile_templates
    MaxItems,     \* bound on org.profile_template_items
    MenuItems,    \* ids of auth.menu_items
    Permissions,  \* permissions a menu item may ask for
    MaxEdits,     \* bound on the requests
    NULL          \* SQL NULL

Items == 1..MaxItems
Parameter == [row : RowState, type : Types, code : Codes]
Item == [row : RowState, template : Templates \cup {NULL}, category : Parameters \cup {NULL}]
MenuItem ==
    [row : RowState, portal : Parameters \cup {NULL}, parent : MenuItems \cup {NULL},
     permission : Permissions \cup {NULL}]
Process == [row : RowState, department : Departments \cup {NULL}]
Vacancy ==
    [row : {"absent", "live", "ended"}, department : Departments \cup {NULL},
     template : Templates \cup {NULL}]

\* The body of PATCH /parameters/{id}.
ParameterUpdate ==
    [type : Types \cup {Unset}, code : Codes \cup {Unset}, active : BOOLEAN \cup {Unset}]

ASSUME CataloguesAssumption ==
    /\ MaxItems \in Nat /\ MaxEdits \in Nat
    /\ CategoryType \in Types
    /\ Seeds \in [Parameters -> Parameter]
    /\ Callers \subseteq SUBSET Types
    /\ NULL \notin Parameters \cup Departments \cup Templates \cup MenuItems \cup Permissions
    /\ Unset \notin Types \cup Codes

VARIABLES
    parameters,   \* org.parameters
    departments,  \* org.departments
    templates,    \* org.profile_templates
    items,        \* org.profile_template_items
    menu,         \* auth.menu_items
    process,      \* a row of org.processes
    vacancy,      \* a row of recruitment.vacancies
    edits,        \* requests so far
    switched      \* history: the rows a PATCH switched or retyped

vars == <<parameters, departments, templates, items, menu, process, vacancy, edits, switched>>

Switchable ==
    ({"parameter"} \X Parameters) \cup ({"department"} \X Departments)
        \cup ({"template"} \X Templates) \cup {<<"process">>, <<"vacancy">>}

TypeOK ==
    /\ parameters \in [Parameters -> Parameter]
    /\ departments \in [Departments -> RowState]
    /\ templates \in [Templates -> RowState]
    /\ items \in [Items -> Item]
    /\ menu \in [MenuItems -> MenuItem]
    /\ process \in Process
    /\ vacancy \in Vacancy
    /\ edits \in 0..MaxEdits
    /\ switched \subseteq Switchable

NoItem == [row |-> "absent", template |-> NULL, category |-> NULL]
NoMenuItem == [row |-> "absent", portal |-> NULL, parent |-> NULL, permission |-> NULL]

Init ==
    /\ parameters = Seeds
    /\ departments = [d \in Departments |-> "absent"]
    /\ templates = [t \in Templates |-> "absent"]
    /\ items = [i \in Items |-> NoItem]
    /\ menu = [m \in MenuItems |-> NoMenuItem]
    /\ process = [row |-> "absent", department |-> NULL]
    /\ vacancy = [row |-> "absent", department |-> NULL, template |-> NULL]
    /\ edits = 0
    /\ switched = {}

Edit == edits < MaxEdits /\ edits' = edits + 1
\* History of what a PATCH did by hand.
ByHand(x) == switched' = switched \cup {x}
Flag(active) == IF active THEN "active" ELSE "inactive"
-----------------------------------------------------------------------------
(* Parameters *)

\* uq_parameters_type_code, deleted rows included.
KeyIsFree(p, type, code) ==
    \A q \in Parameters \ {p} :
        ~(parameters[q].row # "absent" /\ parameters[q].type = type /\ parameters[q].code = code)

UnchangedByParameter ==
    UNCHANGED <<departments, templates, items, menu, process, vacancy>>

\* The duplicate check sees active rows only; the constraint sees the others.
CreateParameter(p, type, code, allowed) ==
    /\ type \in allowed
    /\ parameters[p].row = "absent" /\ KeyIsFree(p, type, code) /\ Edit
    /\ parameters' = [parameters EXCEPT ![p] = [row |-> "active", type |-> type, code |-> code]]
    /\ UnchangedByParameter /\ UNCHANGED switched

PatchedParameter(row, b) ==
    [row |-> IF b.active = Unset THEN row.row ELSE Flag(b.active),
     type |-> OrKeep(b.type, row.type), code |-> OrKeep(b.code, row.code)]

\* The caller's types are compared with the type the row will have.
UpdateParameter(p, b, allowed) ==
    LET row == PatchedParameter(parameters[p], b)
    IN  /\ parameters[p].row # "absent" /\ row.type \in allowed
        /\ KeyIsFree(p, row.type, row.code) /\ Edit
        /\ parameters' = [parameters EXCEPT ![p] = row]
        /\ IF row.row # parameters[p].row \/ row.type # parameters[p].type
           THEN ByHand(<<"parameter", p>>) ELSE UNCHANGED switched
        /\ UnchangedByParameter

\* Mutant of IsReferenced: (ProfileTemplateItem, "category_id") is not listed.
MutIsReferencedNoItems(p) == \E m \in MenuItems : IsActive(menu[m]) /\ menu[m].portal = p

\* is_referenced: an active row of a listed column.
IsReferenced(p) ==
    \/ \E i \in Items : IsActive(items[i]) /\ items[i].category = p
    \/ \E m \in MenuItems : IsActive(menu[m]) /\ menu[m].portal = p

DeleteParameter(p, allowed) ==
    /\ parameters[p].row # "absent" /\ parameters[p].type \in allowed
    /\ ~IsReferenced(p) /\ Edit
    /\ parameters' = [parameters EXCEPT ![p].row = "inactive"]
    /\ UnchangedByParameter /\ UNCHANGED switched

ParameterRequest(p) ==
    \E allowed \in Callers :
        \/ \E type \in Types, code \in Codes : CreateParameter(p, type, code, allowed)
        \/ \E b \in ParameterUpdate : UpdateParameter(p, b, allowed)
        \/ DeleteParameter(p, allowed)
-----------------------------------------------------------------------------
(* Departments *)

IsLive == vacancy.row = "live"

DepartmentInUse(d) ==
    \/ IsLive /\ vacancy.department = d
    \/ IsActive(process) /\ process.department = d

SetDepartment(d, row) ==
    /\ Edit /\ departments' = [departments EXCEPT ![d] = row]
    /\ UNCHANGED <<parameters, templates, items, menu, process, vacancy>>

CreateDepartment(d) ==
    departments[d] = "absent" /\ SetDepartment(d, "active") /\ UNCHANGED switched

UpdateDepartment(d, active) ==
    /\ departments[d] # "absent" /\ SetDepartment(d, Flag(active))
    /\ ByHand(<<"department", d>>)

DeleteDepartment(d) ==
    /\ departments[d] # "absent" /\ ~DepartmentInUse(d)
    /\ SetDepartment(d, "inactive") /\ UNCHANGED switched

DepartmentRequest(d) ==
    \/ CreateDepartment(d)
    \/ \E active \in BOOLEAN : UpdateDepartment(d, active)
    \/ DeleteDepartment(d)
-----------------------------------------------------------------------------
(* Profile templates and their items *)

TemplateInUse(t) == IsLive /\ vacancy.template = t

SetTemplate(t, row) ==
    /\ Edit /\ templates' = [templates EXCEPT ![t] = row]
    /\ UNCHANGED <<parameters, departments, menu, process, vacancy>>

CreateTemplate(t) ==
    templates[t] = "absent" /\ SetTemplate(t, "active") /\ UNCHANGED <<items, switched>>

UpdateTemplate(t, active) ==
    /\ templates[t] # "absent" /\ SetTemplate(t, Flag(active))
    /\ ByHand(<<"template", t>>) /\ UNCHANGED items

DeleteTemplate(t) ==
    /\ templates[t] # "absent" /\ ~TemplateInUse(t)
    /\ SetTemplate(t, "inactive") /\ UNCHANGED <<items, switched>>

ItemsOf(t) == {i \in Items : IsActive(items[i]) /\ items[i].template = t}
FreshItems == {i \in Items : items[i].row = "absent"}

\* Mutant of CopyOf: the new row keeps the template it was read with.
MutCopyOfShared(i, t) == items[i]

CopyOf(i, t) == [items[i] EXCEPT !.template = t]

\* POST /profile-templates/{id}/copy: deleted templates too, their active items
\* only, and no category is looked at.
CopyTemplate(source, t) ==
    /\ templates[source] # "absent" /\ templates[t] = "absent"
    /\ \E new \in SUBSET FreshItems : \E of \in [new -> ItemsOf(source)] :
          /\ Cardinality(new) = Cardinality(ItemsOf(source))
          /\ {of[i] : i \in new} = ItemsOf(source)
          /\ items' = [i \in Items |-> IF i \in new THEN CopyOf(of[i], t) ELSE items[i]]
    /\ SetTemplate(t, "active") /\ UNCHANGED switched

TemplateRequest(t) ==
    \/ CreateTemplate(t)
    \/ \E active \in BOOLEAN : UpdateTemplate(t, active)
    \/ DeleteTemplate(t)
    \/ \E source \in Templates : CopyTemplate(source, t)

\* _assert_category
IsCategory(p) == IsActive(parameters[p]) /\ parameters[p].type = CategoryType

SetItem(i, row) ==
    /\ Edit /\ items' = [items EXCEPT ![i] = row]
    /\ UNCHANGED <<parameters, departments, templates, menu, process, vacancy, switched>>

CreateItem(i, t, p) ==
    /\ items[i].row = "absent" /\ templates[t] = "active" /\ IsCategory(p)
    /\ SetItem(i, [row |-> "active", template |-> t, category |-> p])

UpdateItem(i, p) ==
    IsActive(items[i]) /\ IsCategory(p) /\ SetItem(i, [items[i] EXCEPT !.category = p])

DeleteItem(i) == IsActive(items[i]) /\ SetItem(i, [items[i] EXCEPT !.row = "inactive"])

ItemRequest(i) ==
    \/ \E t \in Templates, p \in Parameters : CreateItem(i, t, p)
    \/ \E p \in Parameters : UpdateItem(i, p)
    \/ DeleteItem(i)
-----------------------------------------------------------------------------
(* The rows that point at departments and templates *)

UnchangedCatalogues == UNCHANGED <<parameters, departments, templates, items, menu>>

SetProcess(row) == Edit /\ process' = row /\ UnchangedCatalogues /\ UNCHANGED vacancy
SetVacancy(row) == Edit /\ vacancy' = row /\ UnchangedCatalogues /\ UNCHANGED process

CreateProcess(d) ==
    /\ process.row = "absent" /\ departments[d] = "active"
    /\ SetProcess([row |-> "active", department |-> d]) /\ UNCHANGED switched

\* PATCH: the department it moves to is looked up, whatever is_active.
MoveProcess(d) ==
    /\ process.row # "absent" /\ departments[d] = "active"
    /\ SetProcess([process EXCEPT !.department = d]) /\ UNCHANGED switched

\* PATCH is_active looks nothing up.
SwitchProcess(active) ==
    /\ process.row # "absent"
    /\ SetProcess([process EXCEPT !.row = Flag(active)]) /\ ByHand(<<"process">>)

DeleteProcess ==
    /\ process.row # "absent"
    /\ SetProcess([process EXCEPT !.row = "inactive"]) /\ UNCHANGED switched

\* The references of a body are looked up in their catalogues.
OpenVacancy(d, t) ==
    /\ vacancy.row = "absent" /\ departments[d] = "active"
    /\ t # NULL => templates[t] = "active"
    /\ SetVacancy([row |-> "live", department |-> d, template |-> t]) /\ UNCHANGED switched

\* PATCH profile_template_id.
RetargetVacancy(t) ==
    /\ vacancy.row # "absent" /\ templates[t] = "active"
    /\ SetVacancy([vacancy EXCEPT !.template = t]) /\ UNCHANGED switched

\* PATCH status_id, to a terminal status or back: it looks up what it changes.
TurnVacancy ==
    /\ vacancy.row # "absent"
    /\ SetVacancy([vacancy EXCEPT !.row = IF IsLive THEN "ended" ELSE "live"])
    /\ IF IsLive THEN UNCHANGED switched ELSE ByHand(<<"vacancy">>)

DependentRequest ==
    \/ \E d \in Departments : CreateProcess(d) \/ MoveProcess(d)
    \/ \E active \in BOOLEAN : SwitchProcess(active)
    \/ DeleteProcess
    \/ \E d \in Departments, t \in Templates \cup {NULL} : OpenVacancy(d, t)
    \/ \E t \in Templates : RetargetVacancy(t)
    \/ TurnVacancy
-----------------------------------------------------------------------------
(* The navigation menu *)

\* _validate_refs; any parameter passes for a portal.
MayPointAt(m, portal, parent) ==
    /\ portal # NULL => IsActive(parameters[portal])
    /\ parent # NULL => parent # m /\ IsActive(menu[parent])

SetMenuItem(m, row) ==
    /\ Edit /\ menu' = [menu EXCEPT ![m] = row]
    /\ UNCHANGED <<parameters, departments, templates, items, process, vacancy, switched>>

CreateMenuItem(m, portal, parent, permission) ==
    /\ menu[m].row = "absent" /\ MayPointAt(m, portal, parent)
    /\ SetMenuItem(m, [row |-> "active", portal |-> portal, parent |-> parent,
                       permission |-> permission])

\* PATCH parent_id or permission_id; NULL takes them away.
UpdateMenuItem(m, parent, permission) ==
    /\ IsActive(menu[m]) /\ (parent # Unset => MayPointAt(m, NULL, parent))
    /\ SetMenuItem(m, [menu[m] EXCEPT !.parent = OrKeep(parent, @),
                                      !.permission = OrKeep(permission, @)])

DeleteMenuItem(m) == IsActive(menu[m]) /\ SetMenuItem(m, [menu[m] EXCEPT !.row = "inactive"])

MenuItemRequest(m) ==
    \/ \E portal \in Parameters, parent \in MenuItems \cup {NULL},
          permission \in Permissions \cup {NULL} : CreateMenuItem(m, portal, parent, permission)
    \/ \E parent \in MenuItems \cup {NULL, Unset}, permission \in Permissions \cup {NULL, Unset} :
          UpdateMenuItem(m, parent, permission)
    \/ DeleteMenuItem(m)
-----------------------------------------------------------------------------
Next ==
    \/ \E p \in Parameters : ParameterRequest(p)
    \/ \E d \in Departments : DepartmentRequest(d)
    \/ \E t \in Templates : TemplateRequest(t)
    \/ \E i \in Items : ItemRequest(i)
    \/ DependentRequest
    \/ \E m \in MenuItems : MenuItemRequest(m)

Spec == Init /\ [][Next]_vars
-----------------------------------------------------------------------------
Untouched(x, target) == x \notin switched /\ target \notin switched

\* Whatever is in use finds its catalogue row active and, an item, of the right
\* type: creations, copies, moves and deletions in any order leave nothing
\* behind, unless a PATCH switched one of the two rows by hand (the in-use
\* guards of parameters, departments and templates, and the look-ups).
InUseIsNotDeleted ==
    /\ \A i \in Items : LET p == items[i].category IN
          IsActive(items[i]) /\ <<"parameter", p>> \notin switched => IsCategory(p)
    /\ \A m \in MenuItems : LET p == menu[m].portal IN
          IsActive(menu[m]) /\ <<"parameter", p>> \notin switched => IsActive(parameters[p])
    /\ LET d == process.department IN
          IsActive(process) /\ Untouched(<<"process">>, <<"department", d>>)
              => departments[d] = "active"
    /\ LET d == vacancy.department IN
          IsLive /\ Untouched(<<"vacancy">>, <<"department", d>>) => departments[d] = "active"
    /\ LET t == vacancy.template IN
          IsLive /\ t # NULL /\ Untouched(<<"vacancy">>, <<"template", t>>)
              => templates[t] = "active"

\* The rows of a template's items with their contents, deleted ones included.
RowsOfTemplate(t) ==
    {<<i, items[i]>> : i \in {j \in Items : items[j].row # "absent" /\ items[j].template = t}}

\* A copy shares nothing with its source: a request that makes, copies, switches
\* or deletes a template, or touches an item of it, changes no item of another,
\* although items outlive the template they were copied from
\* (profile_templates_service.py, copy: "mutating the copy never touches the
\* source").
TemplatesKeepTheirItems ==
    [][\A t \in Templates, u \in Templates :
          /\ t # u
          /\ templates'[t] # templates[t] \/ RowsOfTemplate(t)' # RowsOfTemplate(t)
          => RowsOfTemplate(u)' = RowsOfTemplate(u)]_vars
=============================================================================
