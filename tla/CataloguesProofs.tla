-------------------------- MODULE CataloguesProofs --------------------------
(***************************************************************************)
(* For any catalogues: whatever is in use is there, unless a PATCH         *)
(* switched it by hand, and copying a template leaves the others' items.   *)
(***************************************************************************)
EXTENDS Catalogues, TLAPS

\* A row that was ever created points at something.
RowsPointSomewhere ==
    /\ \A i \in Items : items[i].row # "absent" => items[i].category \in Parameters
    /\ \A m \in MenuItems : menu[m].row # "absent" => menu[m].portal \in Parameters
    /\ process.row # "absent" => process.department \in Departments
    /\ vacancy.row # "absent" => vacancy.department \in Departments

\* The parts of InUseIsNotDeleted, one per column that points at a catalogue.
CategoriesHold ==
    \A i \in Items : IsActive(items[i]) /\ <<"parameter", items[i].category>> \notin switched
                        => IsCategory(items[i].category)
PortalsHold ==
    \A m \in MenuItems : IsActive(menu[m]) /\ <<"parameter", menu[m].portal>> \notin switched
                            => IsActive(parameters[menu[m].portal])
ProcessHolds ==
    IsActive(process) /\ Untouched(<<"process">>, <<"department", process.department>>)
        => departments[process.department] = "active"
VacancyHolds ==
    /\ IsLive /\ Untouched(<<"vacancy">>, <<"department", vacancy.department>>)
          => departments[vacancy.department] = "active"
    /\ IsLive /\ vacancy.template # NULL
              /\ Untouched(<<"vacancy">>, <<"template", vacancy.template>>)
          => templates[vacancy.template] = "active"

CatalogueInv ==
    /\ TypeOK /\ RowsPointSomewhere
    /\ CategoriesHold /\ PortalsHold /\ ProcessHolds /\ VacancyHolds

LEMMA CataloguesStart == Init => CatalogueInv
<1> SUFFICES ASSUME Init PROVE CatalogueInv
  OBVIOUS
<1>1. TypeOK
  BY CataloguesAssumption
  DEF Init, TypeOK, Item, MenuItem, Process, Vacancy, NoItem, NoMenuItem, RowState
<1>2. RowsPointSomewhere
  BY DEF Init, RowsPointSomewhere, NoItem, NoMenuItem
<1>3. CategoriesHold /\ PortalsHold /\ ProcessHolds /\ VacancyHolds
  BY DEF Init, CategoriesHold, PortalsHold, ProcessHolds, VacancyHolds, NoItem, NoMenuItem,
         IsActive, IsLive
<1>. QED BY <1>1, <1>2, <1>3 DEF CatalogueInv

\* Every request is counted.
LEMMA EditsCounted ==
    ASSUME edits \in 0..MaxEdits, Edit
    PROVE  edits' \in 0..MaxEdits
BY CataloguesAssumption DEF Edit

\* A parameter that is used is not deleted, and what a PATCH changes is noted.
LEMMA ParametersKeep ==
    ASSUME CatalogueInv, NEW p \in Parameters, ParameterRequest(p)
    PROVE  CatalogueInv'
<1>1. UNCHANGED <<departments, templates, items, menu, process, vacancy>> /\ Edit
  BY DEF ParameterRequest, CreateParameter, UpdateParameter, DeleteParameter, UnchangedByParameter
<1>2. parameters \in [Parameters -> Parameter] /\ switched \subseteq Switchable
  BY DEF CatalogueInv, TypeOK
<1>3. PICK row \in Parameter :
         /\ parameters' = [parameters EXCEPT ![p] = row]
         /\ \/ switched' = switched \cup {<<"parameter", p>>}
            \/ UNCHANGED switched /\ parameters[p].row = "absent"
            \/ UNCHANGED switched /\ ~IsReferenced(p)
            \/ UNCHANGED switched /\ row.row = parameters[p].row /\ row.type = parameters[p].type
  <2>1. parameters[p] \in Parameter
    BY <1>2
  <2>2. ASSUME NEW type \in Types, NEW code \in Codes, NEW allowed,
               CreateParameter(p, type, code, allowed)
        PROVE  \E row \in Parameter :
                  /\ parameters' = [parameters EXCEPT ![p] = row]
                  /\ UNCHANGED switched /\ parameters[p].row = "absent"
    BY <2>2 DEF CreateParameter, Parameter, RowState
  <2>3. ASSUME NEW b \in ParameterUpdate, NEW allowed, UpdateParameter(p, b, allowed)
        PROVE  \E row \in Parameter :
                  /\ parameters' = [parameters EXCEPT ![p] = row]
                  /\ \/ switched' = switched \cup {<<"parameter", p>>}
                     \/ /\ UNCHANGED switched /\ row.row = parameters[p].row
                        /\ row.type = parameters[p].type
    <3>. DEFINE row == PatchedParameter(parameters[p], b)
    <3>1. row \in Parameter
      BY <2>1 DEF PatchedParameter, ParameterUpdate, OrKeep, Flag, Parameter, RowState
    <3>2. /\ parameters' = [parameters EXCEPT ![p] = row]
          /\ \/ switched' = switched \cup {<<"parameter", p>>}
             \/ /\ UNCHANGED switched /\ row.row = parameters[p].row
                /\ row.type = parameters[p].type
      BY <2>3 DEF UpdateParameter, ByHand
    <3>. QED BY <3>1, <3>2
  <2>4. ASSUME NEW allowed, DeleteParameter(p, allowed)
        PROVE  \E row \in Parameter :
                  /\ parameters' = [parameters EXCEPT ![p] = row]
                  /\ UNCHANGED switched /\ ~IsReferenced(p)
    <3>. DEFINE row == [parameters[p] EXCEPT !.row = "inactive"]
    <3>1. row \in Parameter
      BY <2>1 DEF Parameter, RowState
    <3>2. /\ parameters' = [parameters EXCEPT ![p] = row]
          /\ UNCHANGED switched /\ ~IsReferenced(p)
      BY <1>2, <2>4 DEF DeleteParameter
    <3>. QED BY <3>1, <3>2
  <2>. QED BY <2>2, <2>3, <2>4 DEF ParameterRequest
<1>4. /\ parameters' \in [Parameters -> Parameter]
      /\ parameters'[p] = row
      /\ \A q \in Parameters : q # p => parameters'[q] = parameters[q]
  BY <1>2, <1>3
<1>5. switched \subseteq switched' /\ switched' \subseteq Switchable
  BY <1>2, <1>3 DEF Switchable
<1>6. TypeOK'
  BY <1>1, <1>4, <1>5, EditsCounted DEF CatalogueInv, TypeOK
<1>7. RowsPointSomewhere'
  BY <1>1 DEF CatalogueInv, RowsPointSomewhere
<1>8. CategoriesHold'
  <2> SUFFICES ASSUME NEW i \in Items, IsActive(items[i]),
                      <<"parameter", items[i].category>> \notin switched'
               PROVE  IsCategory(items[i].category)'
    BY <1>1 DEF CategoriesHold, IsActive
  <2>1. items[i].category \in Parameters /\ IsCategory(items[i].category)
    BY <1>5 DEF CatalogueInv, RowsPointSomewhere, CategoriesHold, IsActive
  <2>2. CASE items[i].category # p
    BY <1>1, <1>4, <2>1, <2>2 DEF IsCategory, IsActive
  <2>3. CASE items[i].category = p
    <3>1. IsReferenced(p) /\ <<"parameter", p>> \notin switched'
      BY <2>3 DEF IsReferenced
    <3>2. row.row = parameters[p].row /\ row.type = parameters[p].type
      BY <1>3, <2>1, <2>3, <3>1 DEF IsCategory, IsActive
    <3>. QED BY <1>1, <1>4, <2>1, <2>3, <3>2 DEF IsCategory, IsActive
  <2>. QED BY <2>2, <2>3
<1>9. PortalsHold'
  <2> SUFFICES ASSUME NEW m \in MenuItems, IsActive(menu[m]),
                      <<"parameter", menu[m].portal>> \notin switched'
               PROVE  IsActive(parameters'[menu[m].portal])
    BY <1>1 DEF PortalsHold, IsActive
  <2>1. menu[m].portal \in Parameters /\ IsActive(parameters[menu[m].portal])
    BY <1>5 DEF CatalogueInv, RowsPointSomewhere, PortalsHold, IsActive
  <2>2. CASE menu[m].portal # p
    BY <1>4, <2>1, <2>2
  <2>3. CASE menu[m].portal = p
    <3>1. IsReferenced(p) /\ <<"parameter", p>> \notin switched'
      BY <2>3 DEF IsReferenced
    <3>2. row.row = parameters[p].row
      BY <1>3, <2>1, <2>3, <3>1 DEF IsActive
    <3>. QED BY <1>4, <2>1, <2>3, <3>2 DEF IsActive
  <2>. QED BY <2>2, <2>3
<1>10. ProcessHolds' /\ VacancyHolds'
  BY <1>1, <1>5 DEF CatalogueInv, ProcessHolds, VacancyHolds, Untouched, IsActive, IsLive
<1>. QED BY <1>6, <1>7, <1>8, <1>9, <1>10 DEF CatalogueInv

\* A department that a process or a live vacancy names is not deleted.
LEMMA DepartmentsKeep ==
    ASSUME CatalogueInv, NEW d \in Departments, DepartmentRequest(d)
    PROVE  CatalogueInv'
<1>1. UNCHANGED <<parameters, templates, items, menu, process, vacancy>> /\ Edit
  BY DEF DepartmentRequest, CreateDepartment, UpdateDepartment, DeleteDepartment, SetDepartment
<1>2. PICK row \in RowState :
         /\ departments' = [departments EXCEPT ![d] = row]
         /\ \/ switched' = switched \cup {<<"department", d>>}
            \/ UNCHANGED switched /\ row = "active"
            \/ UNCHANGED switched /\ ~DepartmentInUse(d)
  BY DEF DepartmentRequest, CreateDepartment, UpdateDepartment, DeleteDepartment, SetDepartment,
         ByHand, Flag, RowState
<1>3. departments \in [Departments -> RowState] /\ switched \subseteq Switchable
  BY DEF CatalogueInv, TypeOK
<1>4. /\ departments' \in [Departments -> RowState]
      /\ departments'[d] = row
      /\ \A e \in Departments : e # d => departments'[e] = departments[e]
  BY <1>2, <1>3
<1>5. switched \subseteq switched' /\ switched' \subseteq Switchable
  BY <1>2, <1>3 DEF Switchable
<1>6. TypeOK'
  BY <1>1, <1>4, <1>5, EditsCounted DEF CatalogueInv, TypeOK
<1>7. RowsPointSomewhere' /\ CategoriesHold' /\ PortalsHold'
  BY <1>1, <1>5
  DEF CatalogueInv, RowsPointSomewhere, CategoriesHold, PortalsHold, IsCategory, IsActive
<1>8. ProcessHolds'
  <2> SUFFICES ASSUME IsActive(process),
                      Untouched(<<"process">>, <<"department", process.department>>)'
               PROVE  departments'[process.department] = "active"
    BY <1>1 DEF ProcessHolds, IsActive
  <2>1. /\ process.department \in Departments
        /\ departments[process.department] = "active"
    BY <1>1, <1>5 DEF CatalogueInv, RowsPointSomewhere, ProcessHolds, Untouched, IsActive
  <2>. QED BY <1>1, <1>2, <1>4, <2>1 DEF Untouched, DepartmentInUse
<1>9. VacancyHolds'
  <2>1. ASSUME IsLive, Untouched(<<"vacancy">>, <<"department", vacancy.department>>)'
        PROVE  departments'[vacancy.department] = "active"
    <3>1. /\ vacancy.department \in Departments
          /\ departments[vacancy.department] = "active"
      BY <1>1, <1>5, <2>1 DEF CatalogueInv, RowsPointSomewhere, VacancyHolds, Untouched, IsLive
    <3>. QED BY <1>1, <1>2, <1>4, <2>1, <3>1 DEF Untouched, DepartmentInUse
  <2>2. IsLive /\ vacancy.template # NULL
              /\ Untouched(<<"vacancy">>, <<"template", vacancy.template>>)'
           => templates[vacancy.template] = "active"
    BY <1>1, <1>5 DEF CatalogueInv, VacancyHolds, Untouched
  <2>. QED BY <1>1, <2>1, <2>2 DEF VacancyHolds, IsLive
<1>. QED BY <1>6, <1>7, <1>8, <1>9 DEF CatalogueInv

\* What CopyTemplate writes: items that were absent, of the new template.
LEMMA CopiedItems ==
    ASSUME CatalogueInv, NEW source \in Templates, NEW t \in Templates, CopyTemplate(source, t)
    PROVE  /\ items' \in [Items -> Item]
           /\ \A i \in Items :
                 \/ items'[i] = items[i]
                 \/ /\ items[i].row = "absent" /\ IsActive(items'[i])
                    /\ items'[i].template = t
                    /\ \E j \in Items : IsActive(items[j]) /\ items'[i].category = items[j].category
<1>1. items \in [Items -> Item]
  BY DEF CatalogueInv, TypeOK
<1>0. PICK new \in SUBSET FreshItems :
         \E of \in [new -> ItemsOf(source)] :
            items' = [i \in Items |-> IF i \in new THEN CopyOf(of[i], t) ELSE items[i]]
  BY DEF CopyTemplate
<1>2. PICK of \in [new -> ItemsOf(source)] :
         items' = [i \in Items |-> IF i \in new THEN CopyOf(of[i], t) ELSE items[i]]
  BY <1>0
<1>3. ASSUME NEW i \in Items, i \in new
      PROVE  /\ CopyOf(of[i], t) \in Item
             /\ items[i].row = "absent" /\ IsActive(CopyOf(of[i], t))
             /\ CopyOf(of[i], t).template = t
             /\ of[i] \in Items /\ IsActive(items[of[i]])
             /\ CopyOf(of[i], t).category = items[of[i]].category
  <2>1. of[i] \in Items /\ IsActive(items[of[i]]) /\ items[i].row = "absent"
    BY <1>2, <1>3 DEF FreshItems, ItemsOf
  <2>2. items[of[i]] \in Item
    BY <1>1, <2>1
  <2>. QED BY <2>1, <2>2 DEF CopyOf, Item, IsActive
<1>4. ASSUME NEW i \in Items
      PROVE  items'[i] = IF i \in new THEN CopyOf(of[i], t) ELSE items[i]
  BY <1>2
<1>5. ASSUME NEW i \in Items PROVE items'[i] \in Item
  BY <1>1, <1>3, <1>4
<1>6. items' \in [Items -> Item]
  BY <1>2, <1>5
<1>. QED BY <1>3, <1>4, <1>6

\* A template a live vacancy was opened with is not deleted.
LEMMA TemplatesKeep ==
    ASSUME CatalogueInv, NEW t \in Templates, TemplateRequest(t)
    PROVE  CatalogueInv'
<1>1. UNCHANGED <<parameters, departments, menu, process, vacancy>> /\ Edit
  BY DEF TemplateRequest, CreateTemplate, UpdateTemplate, DeleteTemplate, CopyTemplate, SetTemplate
<1>2. PICK row \in RowState :
         /\ templates' = [templates EXCEPT ![t] = row]
         /\ \/ switched' = switched \cup {<<"template", t>>}
            \/ UNCHANGED switched /\ row = "active"
            \/ UNCHANGED switched /\ ~TemplateInUse(t)
  BY DEF TemplateRequest, CreateTemplate, UpdateTemplate, DeleteTemplate, CopyTemplate,
         SetTemplate, ByHand, Flag, RowState
<1>3. /\ items' \in [Items -> Item]
      /\ \A i \in Items :
            \/ items'[i] = items[i]
            \/ \E j \in Items : IsActive(items[j]) /\ items'[i].category = items[j].category
  <2>1. CASE UNCHANGED items
    BY <2>1 DEF CatalogueInv, TypeOK
  <2>2. CASE \E source \in Templates : CopyTemplate(source, t)
    BY <2>2, CopiedItems
  <2>. QED BY <2>1, <2>2 DEF TemplateRequest, CreateTemplate, UpdateTemplate, DeleteTemplate
<1>4. templates \in [Templates -> RowState] /\ switched \subseteq Switchable
  BY DEF CatalogueInv, TypeOK
<1>5. /\ templates' \in [Templates -> RowState]
      /\ templates'[t] = row
      /\ \A u \in Templates : u # t => templates'[u] = templates[u]
  BY <1>2, <1>4
<1>6. switched \subseteq switched' /\ switched' \subseteq Switchable
  BY <1>2, <1>4 DEF Switchable
<1>7. TypeOK'
  BY <1>1, <1>3, <1>5, <1>6, EditsCounted DEF CatalogueInv, TypeOK
<1>8. RowsPointSomewhere'
  BY <1>1, <1>3 DEF CatalogueInv, RowsPointSomewhere, IsActive
<1>9. CategoriesHold'
  BY <1>1, <1>3, <1>6 DEF CatalogueInv, CategoriesHold, IsCategory, IsActive
<1>10. PortalsHold' /\ ProcessHolds'
  BY <1>1, <1>6 DEF CatalogueInv, PortalsHold, ProcessHolds, Untouched, IsActive
<1>11. VacancyHolds'
  <2>1. ASSUME IsLive, vacancy.template # NULL,
               Untouched(<<"vacancy">>, <<"template", vacancy.template>>)'
        PROVE  templates'[vacancy.template] = "active"
    <3>1. vacancy.template \in Templates /\ templates[vacancy.template] = "active"
      BY <1>1, <1>6, <2>1 DEF CatalogueInv, TypeOK, Vacancy, VacancyHolds, Untouched
    <3>. QED BY <1>1, <1>2, <1>5, <2>1, <3>1 DEF Untouched, TemplateInUse
  <2>2. IsLive /\ Untouched(<<"vacancy">>, <<"department", vacancy.department>>)'
           => departments[vacancy.department] = "active"
    BY <1>1, <1>6 DEF CatalogueInv, VacancyHolds, Untouched
  <2>. QED BY <1>1, <2>1, <2>2 DEF VacancyHolds, IsLive
<1>. QED BY <1>7, <1>8, <1>9, <1>10, <1>11 DEF CatalogueInv

\* An item is given a category that is there, or keeps the one it has.
LEMMA ItemsKeep ==
    ASSUME CatalogueInv, NEW i \in Items, ItemRequest(i)
    PROVE  CatalogueInv'
<1>1. UNCHANGED <<parameters, departments, templates, menu, process, vacancy, switched>> /\ Edit
  BY DEF ItemRequest, CreateItem, UpdateItem, DeleteItem, SetItem
<1>2. items \in [Items -> Item] /\ items[i] \in Item
  BY DEF CatalogueInv, TypeOK
<1>3. PICK row \in Item :
         /\ items' = [items EXCEPT ![i] = row]
         /\ \/ row.category \in Parameters /\ IsCategory(row.category)
            \/ row.row = "inactive" /\ items[i].row = "active" /\ row.category = items[i].category
  <2>1. ASSUME NEW t \in Templates, NEW p \in Parameters, CreateItem(i, t, p)
        PROVE  \E row \in Item : /\ items' = [items EXCEPT ![i] = row]
                                 /\ row.category \in Parameters /\ IsCategory(row.category)
    <3>. DEFINE row == [row |-> "active", template |-> t, category |-> p]
    <3>1. row \in Item /\ row.category = p
      BY DEF Item, RowState
    <3>2. items' = [items EXCEPT ![i] = row] /\ IsCategory(p)
      BY <2>1 DEF CreateItem, SetItem
    <3>. QED BY <3>1, <3>2
  <2>2. ASSUME NEW p \in Parameters, UpdateItem(i, p)
        PROVE  \E row \in Item : /\ items' = [items EXCEPT ![i] = row]
                                 /\ row.category \in Parameters /\ IsCategory(row.category)
    <3>1. [items[i] EXCEPT !.category = p] \in Item
      BY <1>2 DEF Item
    <3>2. [items[i] EXCEPT !.category = p].category = p
      BY <1>2 DEF Item
    <3>. QED BY <2>2, <3>1, <3>2 DEF UpdateItem, SetItem
  <2>3. ASSUME DeleteItem(i)
        PROVE  \E row \in Item :
                  /\ items' = [items EXCEPT ![i] = row]
                  /\ row.row = "inactive" /\ items[i].row = "active"
                  /\ row.category = items[i].category
    <3>. DEFINE row == [items[i] EXCEPT !.row = "inactive"]
    <3>1. row \in Item /\ row.row = "inactive" /\ row.category = items[i].category
      BY <1>2 DEF Item, RowState
    <3>. QED BY <2>3, <3>1 DEF DeleteItem, SetItem, IsActive
  <2>. QED BY <2>1, <2>2, <2>3 DEF ItemRequest
<1>4. /\ items' \in [Items -> Item]
      /\ items'[i] = row
      /\ \A j \in Items : j # i => items'[j] = items[j]
  BY <1>2, <1>3
<1>5. TypeOK'
  BY <1>1, <1>4, EditsCounted DEF CatalogueInv, TypeOK
<1>6. RowsPointSomewhere'
  BY <1>1, <1>3, <1>4 DEF CatalogueInv, RowsPointSomewhere
<1>7. CategoriesHold'
  BY <1>1, <1>3, <1>4 DEF CatalogueInv, CategoriesHold, IsCategory, IsActive
<1>8. PortalsHold' /\ ProcessHolds' /\ VacancyHolds'
  BY <1>1 DEF CatalogueInv, PortalsHold, ProcessHolds, VacancyHolds, Untouched, IsActive, IsLive
<1>. QED BY <1>5, <1>6, <1>7, <1>8 DEF CatalogueInv

\* A process is given a department that is there, or is switched by hand.
LEMMA ProcessKeeps ==
    ASSUME CatalogueInv,
           \/ \E d \in Departments : CreateProcess(d) \/ MoveProcess(d)
           \/ \E active \in BOOLEAN : SwitchProcess(active)
           \/ DeleteProcess
    PROVE  CatalogueInv'
<1>1. UNCHANGED <<parameters, departments, templates, items, menu, vacancy>> /\ Edit
  BY DEF CreateProcess, MoveProcess, SwitchProcess, DeleteProcess, SetProcess, UnchangedCatalogues
<1>2. process \in Process /\ switched \subseteq Switchable
  BY DEF CatalogueInv, TypeOK
<1>3. /\ process' \in Process /\ process'.department \in Departments
      /\ switched \subseteq switched' /\ switched' \subseteq Switchable
      /\ \/ departments[process'.department] = "active"
         \/ process'.row = "inactive"
         \/ <<"process">> \in switched'
  <2>1. ASSUME NEW d \in Departments, CreateProcess(d)
        PROVE  /\ process' = [row |-> "active", department |-> d]
               /\ departments[d] = "active" /\ UNCHANGED switched
    BY <2>1 DEF CreateProcess, SetProcess
  <2>2. ASSUME NEW d \in Departments, MoveProcess(d)
        PROVE  /\ process' = [process EXCEPT !.department = d]
               /\ departments[d] = "active" /\ UNCHANGED switched
    BY <2>2 DEF MoveProcess, SetProcess
  <2>3. ASSUME NEW active \in BOOLEAN, SwitchProcess(active)
        PROVE  \E row \in RowState : process' = [process EXCEPT !.row = row]
               /\ process.department \in Departments /\ switched' = switched \cup {<<"process">>}
    BY <2>3 DEF SwitchProcess, SetProcess, ByHand, Flag, RowState, CatalogueInv, RowsPointSomewhere
  <2>4. ASSUME DeleteProcess
        PROVE  process' = [process EXCEPT !.row = "inactive"]
               /\ process.department \in Departments /\ UNCHANGED switched
    BY <2>4 DEF DeleteProcess, SetProcess, CatalogueInv, RowsPointSomewhere
  <2>5. CASE \E d \in Departments : CreateProcess(d) \/ MoveProcess(d)
    BY <1>2, <2>1, <2>2, <2>5 DEF Process, RowState
  <2>6. CASE \E active \in BOOLEAN : SwitchProcess(active)
    BY <1>2, <2>3, <2>6 DEF Process, Switchable
  <2>7. CASE DeleteProcess
    BY <1>2, <2>4, <2>7 DEF Process, RowState
  <2>. QED BY <2>5, <2>6, <2>7
<1>4. TypeOK'
  BY <1>1, <1>3, EditsCounted DEF CatalogueInv, TypeOK
<1>5. RowsPointSomewhere'
  BY <1>1, <1>3 DEF CatalogueInv, RowsPointSomewhere
<1>6. CategoriesHold' /\ PortalsHold' /\ VacancyHolds'
  BY <1>1, <1>3
  DEF CatalogueInv, CategoriesHold, PortalsHold, VacancyHolds, IsCategory, IsActive, IsLive, Untouched
<1>7. ProcessHolds'
  BY <1>1, <1>3 DEF ProcessHolds, Untouched, IsActive
<1>. QED BY <1>4, <1>5, <1>6, <1>7 DEF CatalogueInv

\* A vacancy is given a department and a template that are there, keeps those
\* it has, or is reopened by hand.
LEMMA VacancyKeeps ==
    ASSUME CatalogueInv,
           \/ \E d \in Departments, t \in Templates \cup {NULL} : OpenVacancy(d, t)
           \/ \E t \in Templates : RetargetVacancy(t)
           \/ TurnVacancy
    PROVE  CatalogueInv'
<1>1. UNCHANGED <<parameters, departments, templates, items, menu, process>> /\ Edit
  BY DEF OpenVacancy, RetargetVacancy, TurnVacancy, SetVacancy, UnchangedCatalogues
<1>2. vacancy \in Vacancy /\ switched \subseteq Switchable
  BY DEF CatalogueInv, TypeOK
<1>3. /\ vacancy' \in Vacancy /\ vacancy'.department \in Departments
      /\ switched \subseteq switched' /\ switched' \subseteq Switchable
      /\ \/ vacancy'.row # "live"
         \/ <<"vacancy">> \in switched'
         \/ /\ \/ departments[vacancy'.department] = "active"
               \/ vacancy.row = "live" /\ vacancy'.department = vacancy.department
            /\ vacancy'.template # NULL => templates[vacancy'.template] = "active"
  <2>1. ASSUME NEW d \in Departments, NEW t \in Templates \cup {NULL}, OpenVacancy(d, t)
        PROVE  /\ vacancy' = [row |-> "live", department |-> d, template |-> t]
               /\ departments[d] = "active" /\ (t # NULL => templates[t] = "active")
               /\ UNCHANGED switched
    BY <2>1 DEF OpenVacancy, SetVacancy
  <2>2. ASSUME NEW t \in Templates, RetargetVacancy(t)
        PROVE  /\ vacancy' = [vacancy EXCEPT !.template = t]
               /\ vacancy.department \in Departments
               /\ templates[t] = "active" /\ UNCHANGED switched
    BY <2>2 DEF RetargetVacancy, SetVacancy, CatalogueInv, RowsPointSomewhere
  <2>3. ASSUME TurnVacancy
        PROVE  /\ vacancy.department \in Departments
               /\ \/ /\ vacancy' = [vacancy EXCEPT !.row = "ended"] /\ UNCHANGED switched
                  \/ /\ vacancy' = [vacancy EXCEPT !.row = "live"]
                     /\ switched' = switched \cup {<<"vacancy">>}
    BY <2>3 DEF TurnVacancy, SetVacancy, ByHand, CatalogueInv, RowsPointSomewhere
  <2>4. CASE \E d \in Departments, t \in Templates \cup {NULL} : OpenVacancy(d, t)
    BY <1>2, <2>1, <2>4 DEF Vacancy
  <2>5. CASE \E t \in Templates : RetargetVacancy(t)
    BY <1>2, <2>2, <2>5 DEF Vacancy
  <2>6. CASE TurnVacancy
    BY <1>2, <2>3, <2>6 DEF Vacancy, Switchable
  <2>. QED BY <2>4, <2>5, <2>6
<1>4. TypeOK'
  BY <1>1, <1>3, EditsCounted DEF CatalogueInv, TypeOK
<1>5. RowsPointSomewhere'
  BY <1>1, <1>3 DEF CatalogueInv, RowsPointSomewhere
<1>6. CategoriesHold' /\ PortalsHold' /\ ProcessHolds'
  BY <1>1, <1>3
  DEF CatalogueInv, CategoriesHold, PortalsHold, ProcessHolds, IsCategory, IsActive, Untouched
<1>7. VacancyHolds'
  <2>1. ASSUME vacancy.row = "live", <<"vacancy">> \notin switched',
               <<"department", vacancy.department>> \notin switched'
        PROVE  departments[vacancy.department] = "active"
    BY <1>3, <2>1 DEF CatalogueInv, VacancyHolds, IsLive, Untouched
  <2>. QED BY <1>1, <1>3, <2>1 DEF VacancyHolds, IsLive, Untouched
<1>. QED BY <1>4, <1>5, <1>6, <1>7 DEF CatalogueInv

\* A menu item is created under a portal that is there, and stays under it.
LEMMA MenuKeeps ==
    ASSUME CatalogueInv, NEW m \in MenuItems, MenuItemRequest(m)
    PROVE  CatalogueInv'
<1>1. UNCHANGED <<parameters, departments, templates, items, process, vacancy, switched>> /\ Edit
  BY DEF MenuItemRequest, CreateMenuItem, UpdateMenuItem, DeleteMenuItem, SetMenuItem
<1>2. menu \in [MenuItems -> MenuItem] /\ menu[m] \in MenuItem
  BY DEF CatalogueInv, TypeOK
<1>3. PICK row \in MenuItem :
         /\ menu' = [menu EXCEPT ![m] = row]
         /\ row.portal \in Parameters
         /\ \/ IsActive(parameters[row.portal])
            \/ row.portal = menu[m].portal /\ IsActive(menu[m])
  <2>1. ASSUME NEW portal \in Parameters, NEW parent \in MenuItems \cup {NULL},
               NEW permission \in Permissions \cup {NULL},
               CreateMenuItem(m, portal, parent, permission)
        PROVE  \E row \in MenuItem : /\ menu' = [menu EXCEPT ![m] = row]
                                     /\ row.portal \in Parameters
                                     /\ IsActive(parameters[row.portal])
    <3>. DEFINE row == [row |-> "active", portal |-> portal, parent |-> parent,
                        permission |-> permission]
    <3>1. row \in MenuItem /\ row.portal = portal
      BY DEF MenuItem, RowState
    <3>2. menu' = [menu EXCEPT ![m] = row] /\ IsActive(parameters[portal])
      BY <2>1, CataloguesAssumption DEF CreateMenuItem, SetMenuItem, MayPointAt
    <3>. QED BY <3>1, <3>2
  <2>2. ASSUME NEW parent \in MenuItems \cup {NULL, Unset},
               NEW permission \in Permissions \cup {NULL, Unset},
               UpdateMenuItem(m, parent, permission)
        PROVE  \E row \in MenuItem : /\ menu' = [menu EXCEPT ![m] = row]
                                     /\ row.portal = menu[m].portal /\ IsActive(menu[m])
    <3>. DEFINE p == OrKeep(parent, menu[m].parent)
                q == OrKeep(permission, menu[m].permission)
                row == [menu[m] EXCEPT !.parent = p, !.permission = q]
    <3>1. p \in MenuItems \cup {NULL} /\ q \in Permissions \cup {NULL}
      BY <1>2 DEF OrKeep, MenuItem
    <3>2. menu' = [menu EXCEPT ![m] = row] /\ IsActive(menu[m])
      BY <2>2 DEF UpdateMenuItem, SetMenuItem
    <3>. HIDE DEF p, q
    <3>3. row \in MenuItem /\ row.portal = menu[m].portal
      BY <1>2, <3>1 DEF MenuItem
    <3>. QED BY <3>2, <3>3
  <2>3. ASSUME DeleteMenuItem(m)
        PROVE  \E row \in MenuItem : /\ menu' = [menu EXCEPT ![m] = row]
                                     /\ row.portal = menu[m].portal /\ IsActive(menu[m])
    <3>. DEFINE row == [menu[m] EXCEPT !.row = "inactive"]
    <3>1. row \in MenuItem /\ row.portal = menu[m].portal
      BY <1>2 DEF MenuItem, RowState
    <3>. QED BY <2>3, <3>1 DEF DeleteMenuItem, SetMenuItem
  <2>4. IsActive(menu[m]) => menu[m].portal \in Parameters
    BY DEF CatalogueInv, RowsPointSomewhere, IsActive
  <2>5. CASE \E portal \in Parameters, parent \in MenuItems \cup {NULL},
                permission \in Permissions \cup {NULL} :
               CreateMenuItem(m, portal, parent, permission)
    BY <2>1, <2>5
  <2>6. CASE \/ \E parent \in MenuItems \cup {NULL, Unset},
                   permission \in Permissions \cup {NULL, Unset} :
                  UpdateMenuItem(m, parent, permission)
             \/ DeleteMenuItem(m)
    <3>1. \E row \in MenuItem : /\ menu' = [menu EXCEPT ![m] = row]
                                /\ row.portal = menu[m].portal /\ IsActive(menu[m])
      BY <2>2, <2>3, <2>6
    <3>. QED BY <2>4, <3>1
  <2>. QED BY <2>5, <2>6 DEF MenuItemRequest
<1>4. /\ menu' \in [MenuItems -> MenuItem]
      /\ menu'[m] = row
      /\ \A n \in MenuItems : n # m => menu'[n] = menu[n]
  BY <1>2, <1>3
<1>5. TypeOK'
  BY <1>1, <1>4, EditsCounted DEF CatalogueInv, TypeOK
<1>6. RowsPointSomewhere'
  BY <1>1, <1>3, <1>4 DEF CatalogueInv, RowsPointSomewhere
<1>7. PortalsHold'
  BY <1>1, <1>3, <1>4 DEF CatalogueInv, PortalsHold, IsActive
<1>8. CategoriesHold' /\ ProcessHolds' /\ VacancyHolds'
  BY <1>1
  DEF CatalogueInv, CategoriesHold, ProcessHolds, VacancyHolds, IsCategory, Untouched, IsActive, IsLive
<1>. QED BY <1>5, <1>6, <1>7, <1>8 DEF CatalogueInv

THEOREM CatalogueInvariant == Spec => []CatalogueInv
<1>1. CatalogueInv /\ [Next]_vars => CatalogueInv'
  <2>1. CatalogueInv /\ Next => CatalogueInv'
    BY ParametersKeep, DepartmentsKeep, TemplatesKeep, ItemsKeep, ProcessKeeps, VacancyKeeps,
       MenuKeeps
    DEF Next, DependentRequest
  <2>2. CatalogueInv /\ UNCHANGED vars => CatalogueInv'
    BY DEF CatalogueInv, TypeOK, RowsPointSomewhere, CategoriesHold, PortalsHold, ProcessHolds,
           VacancyHolds, IsCategory, IsActive, IsLive, Untouched, vars
  <2>. QED BY <2>1, <2>2
<1>. QED BY <1>1, CataloguesStart, PTL DEF Spec

\* Every state of the catalogues is well typed.
THEOREM CataloguesTypeCorrect == Spec => []TypeOK
BY CatalogueInvariant, PTL DEF CatalogueInv

\* What is in use finds its catalogue row, in catalogues of any size.
THEOREM WhatIsInUseIsThere == Spec => []InUseIsNotDeleted
<1>1. CatalogueInv => InUseIsNotDeleted
  BY DEF CatalogueInv, CategoriesHold, PortalsHold, ProcessHolds, VacancyHolds, InUseIsNotDeleted
<1>. QED BY <1>1, CatalogueInvariant, PTL

\* A step works on one template: no other changes, and no item of another.
OneTemplate(w) ==
    /\ \A x \in Templates : x # w => templates'[x] = templates[x]
    /\ \A i \in Items :
          \/ items'[i] = items[i]
          \/ items'[i].template = w /\ (items[i].row = "absent" \/ items[i].template = w)

LEMMA StepsAreOfOneTemplate ==
    ASSUME CatalogueInv, Next
    PROVE  \E w : OneTemplate(w)
<1>0. templates \in [Templates -> RowState] /\ items \in [Items -> Item]
  BY DEF CatalogueInv, TypeOK
<1>1. CASE UNCHANGED <<templates, items>>
  BY <1>1 DEF OneTemplate
<1>2. ASSUME NEW t \in Templates, TemplateRequest(t)
      PROVE  OneTemplate(t)
  <2>1. \E row : templates' = [templates EXCEPT ![t] = row]
    BY <1>2 DEF TemplateRequest, CreateTemplate, UpdateTemplate, DeleteTemplate, CopyTemplate,
                SetTemplate
  <2>2. \A x \in Templates : x # t => templates'[x] = templates[x]
    BY <1>0, <2>1
  <2>3. CASE UNCHANGED items
    BY <2>2, <2>3 DEF OneTemplate
  <2>4. ASSUME NEW source \in Templates, CopyTemplate(source, t)
        PROVE  OneTemplate(t)
    BY <2>2, <2>4, CopiedItems DEF OneTemplate
  <2>. QED
    BY <1>2, <2>3, <2>4 DEF TemplateRequest, CreateTemplate, UpdateTemplate, DeleteTemplate
<1>3. ASSUME NEW i \in Items, ItemRequest(i)
      PROVE  \E w : OneTemplate(w)
  <2>1. UNCHANGED templates
    BY <1>3 DEF ItemRequest, CreateItem, UpdateItem, DeleteItem, SetItem
  <2>2. ASSUME NEW t \in Templates, NEW p \in Parameters, CreateItem(i, t, p)
        PROVE  OneTemplate(t)
    BY <1>0, <2>1, <2>2 DEF CreateItem, SetItem, OneTemplate
  <2>3. ASSUME NEW row \in Item, items' = [items EXCEPT ![i] = row],
               row.template = items[i].template
        PROVE  OneTemplate(items[i].template)
    BY <1>0, <2>1, <2>3 DEF OneTemplate
  <2>4. ASSUME NEW p \in Parameters, UpdateItem(i, p)
        PROVE  OneTemplate(items[i].template)
    <3>. DEFINE row == [items[i] EXCEPT !.category = p]
    <3>1. row \in Item /\ row.template = items[i].template
      BY <1>0 DEF Item
    <3>. QED BY <2>3, <2>4, <3>1 DEF UpdateItem, SetItem
  <2>5. ASSUME DeleteItem(i)
        PROVE  OneTemplate(items[i].template)
    <3>. DEFINE row == [items[i] EXCEPT !.row = "inactive"]
    <3>1. row \in Item /\ row.template = items[i].template
      BY <1>0 DEF Item, RowState
    <3>. QED BY <2>3, <2>5, <3>1 DEF DeleteItem, SetItem
  <2>. QED BY <1>3, <2>2, <2>4, <2>5 DEF ItemRequest
<1>. QED
  BY <1>1, <1>2, <1>3
  DEF Next, ParameterRequest, CreateParameter, UpdateParameter, DeleteParameter,
      UnchangedByParameter, DepartmentRequest, CreateDepartment, UpdateDepartment,
      DeleteDepartment, SetDepartment, DependentRequest, CreateProcess, MoveProcess,
      SwitchProcess, DeleteProcess, OpenVacancy, RetargetVacancy, TurnVacancy, SetProcess,
      SetVacancy, UnchangedCatalogues, MenuItemRequest, CreateMenuItem, UpdateMenuItem,
      DeleteMenuItem, SetMenuItem

\* Working on one template changes no item of another.
THEOREM CopiesShareNothing == Spec => TemplatesKeepTheirItems
<1>1. ASSUME CatalogueInv, Next, NEW t \in Templates, NEW u \in Templates, t # u,
             templates'[t] # templates[t] \/ RowsOfTemplate(t)' # RowsOfTemplate(t)
      PROVE  RowsOfTemplate(u)' = RowsOfTemplate(u)
  <2>1. PICK w : OneTemplate(w)
    BY <1>1, StepsAreOfOneTemplate
  <2>2. ASSUME NEW x \in Templates, x # w
        PROVE  RowsOfTemplate(x)' = RowsOfTemplate(x)
    <3>1. \A i \in Items :
             \/ items'[i] = items[i]
             \/ /\ ~(items[i].row # "absent" /\ items[i].template = x)
                /\ ~(items'[i].row # "absent" /\ items'[i].template = x)
      BY <2>1, <2>2 DEF OneTemplate
    <3>. QED BY <3>1 DEF RowsOfTemplate
  <2>3. t = w
    BY <1>1, <2>1, <2>2 DEF OneTemplate
  <2>. QED BY <1>1, <2>2, <2>3
<1>2. CatalogueInv /\ [Next]_vars =>
        [\A t \in Templates, u \in Templates :
            /\ t # u
            /\ templates'[t] # templates[t] \/ RowsOfTemplate(t)' # RowsOfTemplate(t)
            => RowsOfTemplate(u)' = RowsOfTemplate(u)]_vars
  BY <1>1 DEF vars
<1>. QED BY <1>2, CatalogueInvariant, PTL DEF Spec, TemplatesKeepTheirItems
=============================================================================
