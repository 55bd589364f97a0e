-------------------------- MODULE RecruitmentProofs --------------------------
(***************************************************************************)
(* Proofs about Recruitment, for every set of vacancies, candidates,       *)
(* processes and stages, and for every set of PATCH bodies unless a        *)
(* theorem says otherwise.                                                 *)
(***************************************************************************)
EXTENDS Recruitment, WellFoundedInduction, TLAPS

(***************************************************************************)
(* The rules of KanbanRules map rows to rows.                              *)
(***************************************************************************)

\* FirstStage returns an active stage of the process, or NULL: a non-empty set
\* of columns has one of least order (_first_stage_id).
LEMMA FirstStageFact ==
    ASSUME NEW st, NEW p
    PROVE  FirstStage(st, p) \in ActiveStagesOf(st, p) \cup {NULL}
<1> DEFINE columns == ActiveStagesOf(st, p)
           orders == {StageOrder[s] : s \in columns}
<1>1. CASE columns = {}
  BY <1>1 DEF FirstStage
<1>2. CASE columns # {}
  <2>1. orders \subseteq Nat /\ orders # {}
    BY <1>2, BoardAssumption DEF ActiveStagesOf
  <2>2. PICK n \in orders : \A m \in orders : ~ (<<m, n>> \in OpToRel(<, Nat))
    BY <2>1, NatLessThanWellFounded, WFMin
  <2>3. \A m \in orders : ~ (m < n)
    BY <2>1, <2>2 DEF OpToRel
  <2>4. PICK s \in columns : StageOrder[s] = n
    BY DEF ActiveStagesOf
  <2>5. \A t \in columns : StageOrder[s] <= StageOrder[t]
    BY <2>1, <2>3, <2>4
  <2>6. (CHOOSE x \in columns : \A t \in columns : StageOrder[x] <= StageOrder[t])
           \in columns
    BY <2>4, <2>5
  <2>. QED BY <1>2, <2>6 DEF FirstStage
<1>. QED BY <1>1, <1>2

LEMMA RowTypes ==
    ASSUME NEW a \in Application, NEW b \in PatchBody,
           NEW status \in ApplicationStatus, NEW first \in Stages \cup {NULL},
           NEW sub \in BOOLEAN, NEW reason \in Reason
    PROVE  /\ InsertedRow(status, first, sub) \in Application
           /\ ResurrectedRow(a, status, first) \in Application
           /\ RejectedRow(a, reason) \in Application
           /\ b.stage = Unset => PatchedRow(a, b) \in Application
           /\ b.stage \in Stages \cup {NULL} => PatchedRow(a, b) \in Application
<1>1. InsertedRow(status, first, sub) \in Application
  BY DEF InsertedRow, NoApplication, Application, RowState, ApplicationStatus, Reason
<1>2. ResurrectedRow(a, status, first) \in Application
  BY DEF ResurrectedRow, Application, RowState
<1>3. RejectedRow(a, reason) \in Application
  BY DEF RejectedRow, Application, ApplicationStatus
<1>4. PatchedRow(a, b) \in Application
  <2>1. OrKeep(b.status, a.status) \in ApplicationStatus
    BY DEF OrKeep, PatchBody, Application
  <2>2. OrKeep(b.stage, a.stage) \in Stages \cup {NULL}
    BY DEF OrKeep, PatchBody, Application
  <2>3. OrKeep(b.sub, a.sub) \in BOOLEAN
    BY DEF OrKeep, PatchBody, Application
  <2>4. OrKeep(b.reason, a.reason) \in Reason
    BY DEF OrKeep, PatchBody, Application, Reason
  <2>. QED BY <2>1, <2>2, <2>3, <2>4 DEF PatchedRow, Application
<1>. QED BY <1>1, <1>2, <1>3, <1>4

LEMMA PatchTypes ==
    ASSUME NEW a \in Application, NEW b \in PatchBody,
           b.stage \in Stages \cup {NULL, Unset}
    PROVE  /\ PatchedRow(a, b) \in Application
           /\ RejectedAgainRow(a, b) \in Application
           /\ HiredRow(a, b) \in Application
           /\ MovedRow(a, b) \in Application
<1>1. PatchedRow(a, b) \in Application
  BY RowTypes DEF ApplicationStatus, Reason
<1>2. RejectedAgainRow(a, b) \in Application
  BY <1>1 DEF RejectedAgainRow, Application
<1>3. HiredRow(a, b) \in Application
  BY <1>1 DEF HiredRow, Application, ApplicationStatus
<1>4. MovedRow(a, b) \in Application
  BY <1>1 DEF MovedRow, Application, ApplicationStatus
<1>. QED BY <1>1, <1>2, <1>3, <1>4

\* The auto-reject keeps every row an application.
LEMMA AutoRejectTypes ==
    ASSUME NEW apps \in [Candidates -> Application], NEW reason \in Reason
    PROVE  AutoRejectAll(apps, reason) \in [Candidates -> Application]
<1>1. ASSUME NEW c \in Candidates PROVE RejectedRow(apps[c], reason) \in Application
  <2>1. apps[c] \in Application  OBVIOUS
  <2>. QED BY <2>1 DEF RejectedRow, Application, ApplicationStatus
<1>. QED BY <1>1 DEF AutoRejectAll

\* A PATCH maps a vacancy row to a vacancy row.
LEMMA VacancyTypes ==
    ASSUME NEW vac \in Vacancy, NEW b \in VacancyPatchBody
    PROVE  PatchedVacancy(vac, b) \in Vacancy
<1>1. OrKeep(b.status, vac.status) \in VacancyStatus
  BY DEF OrKeep, VacancyPatchBody, Vacancy
<1>2. OrKeep(b.process, vac.process) \in Processes \cup {NULL}
  BY DEF OrKeep, VacancyPatchBody, Vacancy
<1>3. OrKeep(b.openings, vac.openings) \in 1..MaxOpenings
  BY DEF OrKeep, VacancyPatchBody, Vacancy
<1>4. FlagOrKeep(b.active, vac.row) \in RowState
  BY DEF FlagOrKeep, Vacancy, RowState
<1>. QED BY <1>1, <1>2, <1>3, <1>4 DEF PatchedVacancy, Vacancy

(***************************************************************************)
(* Type correctness.                                                       *)
(***************************************************************************)
LEMMA InitType == Init => TypeOK
<1>1. NoVacancy \in Vacancy
  BY BoardAssumption DEF NoVacancy, Vacancy, RowState, VacancyStatus
<1>2. NoApplication \in Application
  BY DEF NoApplication, Application, RowState, ApplicationStatus, Reason
<1>3. ASSUME Init PROVE stages \in [Stages -> ProcessStage]
  <2>1. \A s \in Stages :
           [row |-> IF StageRole[s] = "middle" THEN "absent" ELSE "active",
            final |-> StageRole[s] = "final"] \in ProcessStage
    <3> TAKE s \in Stages
    <3> DEFINE f == (StageRole[s] = "final")
               r == IF StageRole[s] = "middle" THEN "absent" ELSE "active"
    <3>1. f \in BOOLEAN  OBVIOUS
    <3>2. r \in RowState  BY DEF RowState
    <3> HIDE DEF f, r
    <3>3. [row |-> r, final |-> f] \in ProcessStage
      BY <3>1, <3>2 DEF ProcessStage
    <3>. QED BY <3>3 DEF f, r
  <2>. QED BY <1>3, <2>1 DEF Init
<1>4. ASSUME Init
      PROVE  /\ vacancies \in [Vacancies -> Vacancy]
             /\ applications \in [Vacancies -> [Candidates -> Application]]
  BY <1>1, <1>2, <1>4 DEF Init
<1>. QED
  BY <1>3, <1>4 DEF Init, TypeOK

\* A request on one application keeps the types.
LEMMA ApplicationRequestType ==
    ASSUME TypeOK, NEW v \in Vacancies, NEW c \in Candidates, ApplicationRequest(v, c)
    PROVE  TypeOK'
<1> DEFINE a == applications[v][c]
<1>0. /\ a \in Application
      /\ \A row \in Application : SetApplication(v, c, row) =>
            applications' \in [Vacancies -> [Candidates -> Application]]
  <2>1. a \in Application  BY DEF TypeOK
  <2>2. ASSUME NEW row \in Application, SetApplication(v, c, row)
        PROVE  applications' \in [Vacancies -> [Candidates -> Application]]
    <3>1. [applications[v] EXCEPT ![c] = row] \in [Candidates -> Application]
      BY DEF TypeOK
    <3>2. applications' = [applications EXCEPT ![v] = [applications[v] EXCEPT ![c] = row]]
      BY <2>2 DEF SetApplication
    <3>. QED BY <3>1, <3>2 DEF TypeOK
  <2>. QED BY <2>1, <2>2
<1>1. ASSUME NEW portal \in BOOLEAN, NEW sub \in BOOLEAN,
             NEW status \in CreateStatuses \cup {"active"},
             Apply(v, c, portal, status, sub)
      PROVE  TypeOK'
  <2> DEFINE first == FirstStage(stages, vacancies[v].process)
  <2>1. first \in Stages \cup {NULL} /\ status \in ApplicationStatus
    BY FirstStageFact, InputAssumption DEF ActiveStagesOf, ApplicationStatus
  <2>2. /\ InsertedRow(status, first, sub) \in Application
        /\ ResurrectedRow(a, status, first) \in Application
    <3>1. InsertedRow(status, first, sub) \in Application
      BY <2>1 DEF InsertedRow, NoApplication, Application, RowState, Reason
    <3>2. ResurrectedRow(a, status, first) \in Application
      BY <1>0, <2>1 DEF ResurrectedRow, Application, RowState
    <3>. QED BY <3>1, <3>2
  <2>3. applications' \in [Vacancies -> [Candidates -> Application]]
    BY <1>0, <1>1, <2>2 DEF Apply
  <2>4. tasks' \subseteq Task
    BY <1>1 DEF Apply, ApplicationTask, Task
  <2>. QED BY <1>1, <2>3, <2>4 DEF Apply, TypeOK, UnchangedOrg
<1>2. ASSUME NEW row \in Application, CommitPatch(v, c, row) PROVE TypeOK'
  <2>1. applications' \in [Vacancies -> [Candidates -> Application]]
    BY <1>0, <1>2 DEF CommitPatch
  <2>2. tasks' \subseteq Task
    BY <1>2 DEF CommitPatch, PatchTasks, ApplicationTask, Task
  <2>. QED BY <1>2, <2>1, <2>2 DEF CommitPatch, TypeOK, UnchangedOrg
<1>3. ASSUME NEW b \in Patches, PatchFields(v, c, b) PROVE TypeOK'
  <2>1. b \in PatchBody  BY InputAssumption
  <2>2. PatchedRow(a, b) \in Application
    BY <1>0, <1>3, <2>1, PatchTypes DEF PatchFields
  <2>. QED BY <1>2, <1>3, <2>2 DEF PatchFields
<1>4. ASSUME NEW b \in Patches, RejectManually(v, c, b) PROVE TypeOK'
  <2>1. RejectedRow(a, b.reason) \in Application
    BY <1>0, <1>4 DEF RejectManually, RejectedRow, Application, ApplicationStatus, Reason
  <2>. QED BY <1>2, <1>4, <2>1 DEF RejectManually
<1>5. ASSUME NEW b \in Patches, RejectAgain(v, c, b) PROVE TypeOK'
  <2>1. b \in PatchBody  BY InputAssumption
  <2>2. RejectedAgainRow(a, b) \in Application
    BY <1>0, <1>5, <2>1, PatchTypes DEF RejectAgain
  <2>. QED BY <1>2, <1>5, <2>2 DEF RejectAgain
<1>6. ASSUME NEW b \in Patches, MoveToFinal(v, c, b) PROVE TypeOK'
  <2>1. b \in PatchBody  BY InputAssumption
  <2>2. HiredRow(a, b) \in Application
    BY <1>0, <1>6, <2>1, PatchTypes DEF MoveToFinal
  <2>. QED BY <1>2, <1>6, <2>2 DEF MoveToFinal
<1>7. ASSUME NEW b \in Patches, MoveToStage(v, c, b) PROVE TypeOK'
  <2>1. b \in PatchBody  BY InputAssumption
  <2>2. MovedRow(a, b) \in Application
    BY <1>0, <1>7, <2>1, PatchTypes DEF MoveToStage
  <2>. QED BY <1>2, <1>7, <2>2 DEF MoveToStage
<1>8. ASSUME Withdraw(v, c) PROVE TypeOK'
  <2>1. [a EXCEPT !.row = "inactive"] \in Application
    BY <1>0 DEF Application, RowState
  <2>. QED BY <1>0, <1>8, <2>1 DEF Withdraw, TypeOK, UnchangedOrg
<1>. QED
  BY <1>1, <1>3, <1>4, <1>5, <1>6, <1>7, <1>8 DEF ApplicationRequest

\* A request on a vacancy keeps the types.
LEMMA VacancyRequestType ==
    ASSUME TypeOK, NEW v \in Vacancies, VacancyRequest(v)
    PROVE  TypeOK'
<1>1. ASSUME NEW publisher \in BOOLEAN, NEW status \in VacancyStatus,
             NEW process \in Processes \cup {NULL}, NEW openings \in 1..MaxOpenings,
             CreateVacancy(v, publisher, status, process, openings)
      PROVE  TypeOK'
  <2>1. [row |-> "active", status |-> status, process |-> process,
         openings |-> openings] \in Vacancy
    BY DEF Vacancy, RowState
  <2>2. vacancies' \in [Vacancies -> Vacancy]
    BY <1>1, <2>1 DEF CreateVacancy, TypeOK
  <2>. QED BY <1>1, <2>2 DEF CreateVacancy, TypeOK, UnchangedOrg
<1>2. ASSUME NEW reason \in Reason, AutoReject(v, reason)
      PROVE  /\ applications' \in [Vacancies -> [Candidates -> Application]]
             /\ tasks' \subseteq Task
  <2>1. AutoRejectAll(applications[v], reason) \in [Candidates -> Application]
    BY AutoRejectTypes DEF TypeOK
  <2>2. applications' \in [Vacancies -> [Candidates -> Application]]
    BY <1>2, <2>1 DEF AutoReject, TypeOK
  <2>3. tasks' \subseteq Task
    BY <1>2 DEF AutoReject, ApplicationTask, Task
  <2>. QED BY <2>2, <2>3
<1>3. ASSUME NEW b \in VacancyPatches, PatchVacancyRow(v, b)
      PROVE  vacancies' \in [Vacancies -> Vacancy] /\ UnchangedOrg
  <2>1. PatchedVacancy(vacancies[v], b) \in Vacancy
    BY InputAssumption, VacancyTypes DEF TypeOK
  <2>. QED BY <1>3, <2>1 DEF PatchVacancyRow, TypeOK
<1>4. ASSUME NEW b \in VacancyPatches, EndVacancy(v, b) PROVE TypeOK'
  <2>1. AutoRejectReason(b.status) \in Reason
    BY DEF AutoRejectReason, Reason
  <2>. QED BY <1>2, <1>3, <1>4, <2>1 DEF EndVacancy, TypeOK, UnchangedOrg
<1>5. ASSUME NEW b \in VacancyPatches, NEW publisher \in BOOLEAN,
             UpdateVacancy(v, b, publisher)
      PROVE  TypeOK'
  BY <1>3, <1>5 DEF UpdateVacancy, TypeOK, UnchangedOrg
<1>6. ASSUME DeleteVacancy(v) PROVE TypeOK'
  <2>1. vacancies' \in [Vacancies -> Vacancy]
    BY <1>6 DEF DeleteVacancy, TypeOK, Vacancy, RowState
  <2>2. "closed" \in Reason  BY DEF Reason
  <2>. QED BY <1>2, <1>6, <2>1, <2>2 DEF DeleteVacancy, TypeOK, UnchangedOrg
<1>. QED BY <1>1, <1>4, <1>5, <1>6 DEF VacancyRequest

\* A request on processes, stages or profiles keeps the types.
LEMMA OrgRequestType ==
    ASSUME TypeOK, OrgRequest
    PROVE  TypeOK'
<1>1. ASSUME NEW s \in Stages, NEW final \in BOOLEAN, CreateStage(s, final) PROVE TypeOK'
  BY <1>1 DEF CreateStage, UnchangedBoard, TypeOK, ProcessStage, RowState
<1>2. ASSUME NEW s \in Stages, MarkStageFinal(s) PROVE TypeOK'
  BY <1>2 DEF MarkStageFinal, UnchangedBoard, TypeOK, ProcessStage, RowState
<1>3. ASSUME NEW s \in Stages, DeleteStage(s) PROVE TypeOK'
  BY <1>3 DEF DeleteStage, UnchangedBoard, TypeOK, ProcessStage, RowState
<1>4. ASSUME NEW p \in Processes, DeleteProcess(p) PROVE TypeOK'
  BY <1>4 DEF DeleteProcess, UnchangedBoard, TypeOK
<1>5. ASSUME NEW p \in Processes, NEW active \in BOOLEAN, UpdateProcess(p, active)
      PROVE  TypeOK'
  BY <1>5 DEF UpdateProcess, UnchangedBoard, TypeOK
<1>6. ASSUME NEW c \in Candidates, CloseAccount(c) PROVE TypeOK'
  <2>1. \A v \in Vacancies :
           [applications[v] EXCEPT ![c].row = IF @ = "active" THEN "inactive" ELSE @]
              \in [Candidates -> Application]
    <3> TAKE v \in Vacancies
    <3>1. applications[v][c] \in Application
      BY DEF TypeOK
    <3>2. [applications[v][c] EXCEPT !.row = IF @ = "active" THEN "inactive" ELSE @]
             \in Application
      BY <3>1 DEF Application, RowState
    <3>. QED BY <3>2 DEF TypeOK
  <2>2. applications' \in [Vacancies -> [Candidates -> Application]]
    BY <1>6, <2>1 DEF CloseAccount
  <2>. QED BY <1>6, <2>2 DEF CloseAccount, TypeOK
<1>7. ASSUME NEW c \in Candidates, ReactivateProfile(c) PROVE TypeOK'
  BY <1>7 DEF ReactivateProfile, UnchangedBoard, TypeOK
<1>8. ASSUME NEW c \in Candidates, DeleteCandidate(c) PROVE TypeOK'
  BY <1>8 DEF DeleteCandidate, UnchangedBoard, TypeOK
<1>. QED
  BY <1>1, <1>2, <1>3, <1>4, <1>5, <1>6, <1>7, <1>8 DEF OrgRequest

LEMMA NextType == TypeOK /\ [Next]_vars => TypeOK'
<1>1. TypeOK /\ UNCHANGED vars => TypeOK'
  BY DEF vars, TypeOK
<1>. QED
  BY <1>1, ApplicationRequestType, VacancyRequestType, OrgRequestType DEF Next

\* Every row keeps its type whatever bodies the clients send.
THEOREM TypeCorrect == Spec => []TypeOK
<1>1. Init => TypeOK               BY InitType
<1>2. TypeOK /\ [Next]_vars => TypeOK'  BY NextType
<1>. QED BY <1>1, <1>2, PTL DEF Spec

(***************************************************************************)
(* No card stands in a deleted column.                                     *)
(*                                                                         *)
(* NoCardOnDeletedStage is inductive together with TypeOK: a request that  *)
(* puts a card somewhere picks an active column (FirstStageFact, or the    *)
(* guard StageInProcess), every other request leaves active cards where    *)
(* they are or takes them off the board, and only DeleteStage closes a     *)
(* column, which must then be empty.                                       *)
(***************************************************************************)

\* The card of an application, seen alone.
CardOK(a, st) == IsActive(a) /\ a.stage # NULL => st[a.stage].row = "active"

LEMMA CardsOK ==
    NoCardOnDeletedStage <=>
        \A v \in Vacancies, c \in Candidates : CardOK(applications[v][c], stages)
BY DEF NoCardOnDeletedStage, CardOK

LEMMA CardsOKNext ==
    NoCardOnDeletedStage' <=>
        \A v \in Vacancies, c \in Candidates : CardOK(applications'[v][c], stages')
BY DEF NoCardOnDeletedStage, CardOK

\* Writing one application row leaves every other one alone.
LEMMA OneRowWritten ==
    ASSUME TypeOK, NEW v \in Vacancies, NEW c \in Candidates, NEW row,
           SetApplication(v, c, row)
    PROVE  /\ applications'[v][c] = row
           /\ \A w \in Vacancies, d \in Candidates :
                 <<w, d>> # <<v, c>> => applications'[w][d] = applications[w][d]
BY DEF SetApplication, TypeOK

LEMMA CardApplicationRequest ==
    ASSUME TypeOK, NoCardOnDeletedStage,
           NEW v \in Vacancies, NEW c \in Candidates, ApplicationRequest(v, c)
    PROVE  NoCardOnDeletedStage'
<1> DEFINE a == applications[v][c]
<1>0. a \in Application /\ CardOK(a, stages)
  BY CardsOK DEF TypeOK
<1>1. ASSUME NEW row, SetApplication(v, c, row), CardOK(row, stages), stages' = stages
      PROVE  NoCardOnDeletedStage'
  <2>1. ASSUME NEW w \in Vacancies, NEW d \in Candidates
        PROVE  CardOK(applications'[w][d], stages')
    BY <1>1, OneRowWritten, CardsOK
  <2>. QED BY <2>1, CardsOKNext
<1>2. ASSUME NEW portal \in BOOLEAN, NEW sub \in BOOLEAN,
             NEW status \in CreateStatuses \cup {"active"},
             Apply(v, c, portal, status, sub)
      PROVE  NoCardOnDeletedStage'
  <2> DEFINE first == FirstStage(stages, vacancies[v].process)
  <2>1. first = NULL \/ (first \in Stages /\ stages[first].row = "active")
    BY FirstStageFact DEF ActiveStagesOf
  <2> HIDE DEF first
  <2>2. CardOK(InsertedRow(status, first, sub), stages)
    BY <2>1 DEF CardOK, InsertedRow, NoApplication
  <2>3. CardOK(ResurrectedRow(a, status, first), stages)
    BY <1>0, <2>1 DEF CardOK, ResurrectedRow, Application
  <2>. QED BY <1>1, <1>2, <2>2, <2>3 DEF Apply, UnchangedOrg, first
<1>3. ASSUME NEW b \in Patches, PatchFields(v, c, b) PROVE NoCardOnDeletedStage'
  <2>1. CardOK(PatchedRow(a, b), stages)
    BY <1>0, <1>3 DEF PatchFields, CardOK, PatchedRow, OrKeep, IsActive, Application
  <2>. QED BY <1>1, <1>3, <2>1 DEF PatchFields, CommitPatch, UnchangedOrg
<1>4. ASSUME NEW b \in Patches, RejectManually(v, c, b) PROVE NoCardOnDeletedStage'
  <2>1. CardOK(RejectedRow(a, b.reason), stages)
    BY <1>0 DEF CardOK, RejectedRow, Application
  <2>. QED BY <1>1, <1>4, <2>1 DEF RejectManually, CommitPatch, UnchangedOrg
<1>5. ASSUME NEW b \in Patches, RejectAgain(v, c, b) PROVE NoCardOnDeletedStage'
  <2>1. NULL # Unset  BY BoardAssumption
  <2>2. CardOK(RejectedAgainRow(a, b), stages)
    BY <1>0, <1>5, <2>1
       DEF RejectAgain, CardOK, RejectedAgainRow, PatchedRow, OrKeep, Application
  <2>. QED BY <1>1, <1>5, <2>2 DEF RejectAgain, CommitPatch, UnchangedOrg
<1>6. ASSUME NEW b \in Patches, b.stage \in Stages, StageInProcess(v, b.stage)
      PROVE  /\ CardOK(PatchedRow(a, b), stages)
             /\ CardOK(HiredRow(a, b), stages)
             /\ CardOK(MovedRow(a, b), stages)
  <2>1. stages[b.stage].row = "active" /\ b.stage # Unset
    BY <1>6, BoardAssumption DEF StageInProcess, ActiveStagesOf
  <2>2. PatchedRow(a, b).stage = b.stage
    BY <1>0, <2>1 DEF PatchedRow, OrKeep, Application
  <2>3. HiredRow(a, b).stage = b.stage
    BY <1>0, <2>1 DEF HiredRow, PatchedRow, OrKeep, Application
  <2>4. MovedRow(a, b).stage = b.stage
    BY <1>0, <2>1 DEF MovedRow, PatchedRow, OrKeep, Application
  <2>. QED BY <2>1, <2>2, <2>3, <2>4 DEF CardOK
<1>7. ASSUME NEW b \in Patches, MoveToFinal(v, c, b) PROVE NoCardOnDeletedStage'
  BY <1>1, <1>6, <1>7 DEF MoveToFinal, CommitPatch, UnchangedOrg
<1>8. ASSUME NEW b \in Patches, MoveToStage(v, c, b) PROVE NoCardOnDeletedStage'
  BY <1>1, <1>6, <1>8 DEF MoveToStage, CommitPatch, UnchangedOrg
<1>9. ASSUME Withdraw(v, c) PROVE NoCardOnDeletedStage'
  <2>1. CardOK([a EXCEPT !.row = "inactive"], stages)
    BY <1>0 DEF CardOK, IsActive, Application
  <2>. QED BY <1>1, <1>9, <2>1 DEF Withdraw, UnchangedOrg
<1>. QED
  BY <1>2, <1>3, <1>4, <1>5, <1>7, <1>8, <1>9 DEF ApplicationRequest

\* The auto-reject takes cards off the board and touches no other one.
LEMMA AutoRejectedCards ==
    ASSUME TypeOK, NEW v \in Vacancies, NEW reason, AutoReject(v, reason)
    PROVE  \A w \in Vacancies, c \in Candidates :
              \/ applications'[w][c] = applications[w][c]
              \/ /\ w = v
                 /\ AutoRejectable(applications[w][c])
                 /\ applications'[w][c] = RejectedRow(applications[w][c], reason)
BY DEF AutoReject, AutoRejectAll, TypeOK

LEMMA CardVacancyRequest ==
    ASSUME TypeOK, NoCardOnDeletedStage, NEW v \in Vacancies, VacancyRequest(v)
    PROVE  NoCardOnDeletedStage'
<1>1. ASSUME UNCHANGED <<applications, stages>> PROVE NoCardOnDeletedStage'
  BY <1>1 DEF NoCardOnDeletedStage
<1>2. ASSUME NEW reason, AutoReject(v, reason), stages' = stages
      PROVE  NoCardOnDeletedStage'
  <2>1. ASSUME NEW w \in Vacancies, NEW c \in Candidates
        PROVE  CardOK(applications'[w][c], stages')
    <3>1. applications[w][c] \in Application /\ CardOK(applications[w][c], stages)
      BY CardsOK DEF TypeOK
    <3>2. CardOK(RejectedRow(applications[w][c], reason), stages)
      BY <3>1 DEF CardOK, RejectedRow, Application
    <3>. QED BY <1>2, <3>1, <3>2, AutoRejectedCards
  <2>. QED BY <2>1, CardsOKNext
<1>3. ASSUME NEW b \in VacancyPatches, EndVacancy(v, b) PROVE NoCardOnDeletedStage'
  BY <1>2, <1>3 DEF EndVacancy, PatchVacancyRow, UnchangedOrg
<1>4. ASSUME DeleteVacancy(v) PROVE NoCardOnDeletedStage'
  BY <1>2, <1>4 DEF DeleteVacancy, UnchangedOrg
<1>5. ASSUME NEW b \in VacancyPatches, NEW publisher \in BOOLEAN,
             UpdateVacancy(v, b, publisher)
      PROVE  NoCardOnDeletedStage'
  BY <1>1, <1>5 DEF UpdateVacancy, PatchVacancyRow, UnchangedOrg
<1>6. ASSUME NEW publisher \in BOOLEAN, NEW status \in VacancyStatus,
             NEW process \in Processes \cup {NULL}, NEW openings \in 1..MaxOpenings,
             CreateVacancy(v, publisher, status, process, openings)
      PROVE  NoCardOnDeletedStage'
  BY <1>1, <1>6 DEF CreateVacancy, UnchangedOrg
<1>. QED BY <1>3, <1>4, <1>5, <1>6 DEF VacancyRequest

\* A request on processes, stages or profiles moves no active card.
LEMMA OrgRequestCards ==
    ASSUME TypeOK, OrgRequest
    PROVE  \A v \in Vacancies, c \in Candidates :
              \/ applications'[v][c] = applications[v][c]
              \/ ~IsActive(applications'[v][c])
<1>1. ASSUME NEW d \in Candidates, CloseAccount(d), NEW v \in Vacancies, NEW c \in Candidates
      PROVE  \/ applications'[v][c] = applications[v][c]
             \/ ~IsActive(applications'[v][c])
  <2> DEFINE board == applications[v]
             flag == IF board[d].row = "active" THEN "inactive" ELSE board[d].row
  <2>1. board \in [Candidates -> Application] /\ board[c] \in Application
    BY DEF TypeOK
  <2>2. applications'[v] = [board EXCEPT ![d] = [board[d] EXCEPT !.row = flag]]
    BY <1>1 DEF CloseAccount
  <2>3. flag # "active"
    OBVIOUS
  <2> HIDE DEF board, flag
  <2>4. CASE c # d
    <3>1. applications'[v][c] = board[c]
      BY <2>1, <2>2, <2>4
    <3>. QED BY <3>1 DEF board
  <2>5. CASE c = d
    <3>1. applications'[v][c] = [board[c] EXCEPT !.row = flag]
      BY <2>1, <2>2, <2>5
    <3>2. [board[c] EXCEPT !.row = flag].row = flag
      BY <2>1 DEF Application
    <3>. QED BY <2>3, <3>1, <3>2 DEF IsActive
  <2>. QED BY <2>4, <2>5
<1>2. CASE applications' = applications
  BY <1>2
<1>. QED
  BY <1>1, <1>2
     DEF OrgRequest, CreateStage, MarkStageFinal, DeleteStage, DeleteProcess, UpdateProcess,
         ReactivateProfile, DeleteCandidate, UnchangedBoard

LEMMA CardOrgRequest ==
    ASSUME TypeOK, NoCardOnDeletedStage, OrgRequest
    PROVE  NoCardOnDeletedStage'
<1>1. ASSUME NEW v \in Vacancies, NEW c \in Candidates,
             IsActive(applications'[v][c]), applications'[v][c].stage # NULL
      PROVE  stages'[applications'[v][c].stage].row = "active"
  <2> DEFINE s == applications[v][c].stage
  <2>1. applications'[v][c] = applications[v][c]
    BY <1>1, OrgRequestCards
  <2>2. s \in Stages /\ stages[s].row = "active"
    BY <1>1, <2>1 DEF NoCardOnDeletedStage, TypeOK, Application
  <2>3. ASSUME NEW t \in Stages, NEW final \in BOOLEAN, CreateStage(t, final)
        PROVE  stages'[s].row = "active"
    BY <2>2, <2>3 DEF CreateStage, TypeOK
  <2>4. ASSUME NEW t \in Stages, MarkStageFinal(t) PROVE stages'[s].row = "active"
    BY <2>2, <2>4 DEF MarkStageFinal, TypeOK, ProcessStage
  <2>5. ASSUME NEW t \in Stages, DeleteStage(t) PROVE stages'[s].row = "active"
    <3>1. s # t
      BY <1>1, <2>1, <2>5 DEF DeleteStage
    <3>. QED BY <2>2, <2>5, <3>1 DEF DeleteStage, TypeOK
  <2>6. ASSUME stages' = stages PROVE stages'[s].row = "active"
    BY <2>2, <2>6
  <2>7. stages'[s].row = "active"
    BY <2>3, <2>4, <2>5, <2>6
       DEF OrgRequest, DeleteProcess, UpdateProcess, CloseAccount, ReactivateProfile,
           DeleteCandidate
  <2>. QED BY <2>1, <2>7
<1>. QED BY <1>1 DEF NoCardOnDeletedStage

LEMMA CardStep == TypeOK /\ NoCardOnDeletedStage /\ [Next]_vars => NoCardOnDeletedStage'
<1>1. NoCardOnDeletedStage /\ UNCHANGED vars => NoCardOnDeletedStage'
  BY DEF vars, NoCardOnDeletedStage
<1>. QED
  BY <1>1, CardApplicationRequest, CardVacancyRequest, CardOrgRequest DEF Next

\* No active application stands in a deleted stage, for any PATCH bodies.
THEOREM NoCardIsStranded == Spec => []NoCardOnDeletedStage
<1>1. Init => NoCardOnDeletedStage
  BY DEF Init, NoCardOnDeletedStage, NoApplication, IsActive
<1>. QED BY <1>1, CardStep, TypeCorrect, PTL DEF Spec

(***************************************************************************)
(* The outcome follows the card.                                           *)
(*                                                                         *)
(* The one body the theorem excludes names a column and writes the hired   *)
(* status by itself: the matrix keeps that status on a middle stage.  The  *)
(* proof needs NoCardOnDeletedStage, because CreateStage decides the flag  *)
(* of a stage nobody may be standing on.                                   *)
(***************************************************************************)
MovesWriteNoHire == \A b \in Patches : b.stage # Unset => b.status # "hired"

\* HireFollowsTheCard for one application: r is a, st2 is st, one step later.
Follows(a, st, r, st2) ==
    Misplaced(r, st2) =>
        \/ ~IsActive(a)
        \/ r.stage = a.stage /\ (a.status # "hired" \/ Misplaced(a, st))

LEMMA SameCardFollows ==
    ASSUME NEW a, NEW st PROVE Follows(a, st, a, st)
BY DEF Follows, Misplaced

LEMMA FollowsApplicationRequest ==
    ASSUME MovesWriteNoHire, TypeOK,
           NEW v \in Vacancies, NEW c \in Candidates, ApplicationRequest(v, c),
           NEW w \in Vacancies, NEW d \in Candidates
    PROVE  Follows(applications[w][d], stages, applications'[w][d], stages')
<1> DEFINE a == applications[v][c]
           Goal == Follows(applications[w][d], stages, applications'[w][d], stages')
<1>0. a \in Application
  BY DEF TypeOK
<1>1. ASSUME NEW row, SetApplication(v, c, row), Follows(a, stages, row, stages),
             stages' = stages
      PROVE  Goal
  BY <1>1, OneRowWritten, SameCardFollows
<1>2. ASSUME NEW portal \in BOOLEAN, NEW sub \in BOOLEAN,
             NEW status \in CreateStatuses \cup {"active"},
             Apply(v, c, portal, status, sub)
      PROVE  Goal
  <2>1. ~IsActive(a)  BY <1>2 DEF Apply
  <2>2. ASSUME NEW row PROVE Follows(a, stages, row, stages)
    BY <2>1 DEF Follows
  <2>. QED BY <1>1, <1>2, <2>2 DEF Apply, UnchangedOrg
<1>3. ASSUME NEW b \in Patches, b.stage # Unset
      PROVE  PatchedRow(a, b).status = "hired" => a.status = "hired"
  BY <1>0, <1>3 DEF MovesWriteNoHire, PatchedRow, OrKeep, Application
<1>4. ASSUME NEW b \in Patches, PatchFields(v, c, b) PROVE Goal
  <2>1. /\ IsActive(a)
        /\ PatchedRow(a, b).stage = a.stage /\ PatchedRow(a, b).row = a.row
    BY <1>0, <1>4 DEF PatchFields, PatchedRow, OrKeep, Application
  <2>2. Follows(a, stages, PatchedRow(a, b), stages)
    BY <2>1 DEF Follows, Misplaced
  <2>. QED BY <1>1, <1>4, <2>2 DEF PatchFields, CommitPatch, UnchangedOrg
<1>5. ASSUME NEW b \in Patches, RejectManually(v, c, b) PROVE Goal
  <2>1. Follows(a, stages, RejectedRow(a, b.reason), stages)
    BY <1>0 DEF Follows, Misplaced, RejectedRow, Application
  <2>. QED BY <1>1, <1>5, <2>1 DEF RejectManually, CommitPatch, UnchangedOrg
<1>6. ASSUME NEW b \in Patches, RejectAgain(v, c, b) PROVE Goal
  <2>1. b.stage # Unset /\ a.status # "hired"
    BY <1>6, BoardAssumption DEF RejectAgain
  <2>2. RejectedAgainRow(a, b).status = PatchedRow(a, b).status
    BY <1>0 DEF RejectedAgainRow, PatchedRow, Application
  <2>3. Follows(a, stages, RejectedAgainRow(a, b), stages)
    BY <1>3, <2>1, <2>2 DEF Follows, Misplaced
  <2>. QED BY <1>1, <1>6, <2>3 DEF RejectAgain, CommitPatch, UnchangedOrg
<1>7. ASSUME NEW b \in Patches, MoveToFinal(v, c, b) PROVE Goal
  <2>1. b.stage \in Stages /\ stages[b.stage].final /\ b.stage # Unset /\ b.stage # NULL
    BY <1>7, BoardAssumption DEF MoveToFinal
  <2>2. HiredRow(a, b).stage = b.stage
    BY <1>0, <2>1 DEF HiredRow, PatchedRow, OrKeep, Application
  <2>3. Follows(a, stages, HiredRow(a, b), stages)
    BY <2>1, <2>2 DEF Follows, Misplaced
  <2>. QED BY <1>1, <1>7, <2>3 DEF MoveToFinal, CommitPatch, UnchangedOrg
<1>8. ASSUME NEW b \in Patches, MoveToStage(v, c, b) PROVE Goal
  <2>1. b.stage # Unset
    BY <1>8, BoardAssumption DEF MoveToStage
  <2>2. MovedRow(a, b).status # "hired"
    BY <1>0, <1>3, <2>1 DEF MovedRow, PatchedRow, Application
  <2>3. Follows(a, stages, MovedRow(a, b), stages)
    BY <2>2 DEF Follows, Misplaced
  <2>. QED BY <1>1, <1>8, <2>3 DEF MoveToStage, CommitPatch, UnchangedOrg
<1>9. ASSUME Withdraw(v, c) PROVE Goal
  <2>1. Follows(a, stages, [a EXCEPT !.row = "inactive"], stages)
    BY <1>0 DEF Follows, Misplaced, IsActive, Application
  <2>. QED BY <1>1, <1>9, <2>1 DEF Withdraw, UnchangedOrg
<1>. QED
  BY <1>2, <1>4, <1>5, <1>6, <1>7, <1>8, <1>9 DEF ApplicationRequest

LEMMA FollowsVacancyRequest ==
    ASSUME TypeOK, NEW v \in Vacancies, VacancyRequest(v),
           NEW w \in Vacancies, NEW d \in Candidates
    PROVE  Follows(applications[w][d], stages, applications'[w][d], stages')
<1> DEFINE a == applications[w][d]
           Goal == Follows(a, stages, applications'[w][d], stages')
<1>1. stages' = stages
  BY DEF VacancyRequest, CreateVacancy, EndVacancy, UpdateVacancy, DeleteVacancy,
         PatchVacancyRow, UnchangedOrg
<1>2. ASSUME applications' = applications PROVE Goal
  BY <1>1, <1>2, SameCardFollows
<1>3. ASSUME NEW reason, AutoReject(v, reason) PROVE Goal
  <2>1. a \in Application  BY DEF TypeOK
  <2>2. Follows(a, stages, RejectedRow(a, reason), stages)
    BY <2>1 DEF Follows, Misplaced, RejectedRow, Application
  <2>. QED BY <1>1, <1>3, <2>2, AutoRejectedCards, SameCardFollows
<1>. QED
  BY <1>2, <1>3 DEF VacancyRequest, CreateVacancy, EndVacancy, UpdateVacancy, DeleteVacancy

LEMMA FollowsOrgRequest ==
    ASSUME TypeOK, NoCardOnDeletedStage, OrgRequest,
           NEW w \in Vacancies, NEW d \in Candidates
    PROVE  Follows(applications[w][d], stages, applications'[w][d], stages')
<1> DEFINE a == applications[w][d]
           s == a.stage
<1>1. SUFFICES ASSUME IsActive(applications'[w][d]), applications'[w][d] = a,
                      a.status = "hired", s # NULL, stages[s].final
               PROVE  stages'[s].final
  <2>1. a = applications'[w][d] \/ ~IsActive(applications'[w][d])
    BY OrgRequestCards
  <2>. QED BY <2>1 DEF Follows, Misplaced
<1>2. s \in Stages /\ stages[s].row = "active"
  BY <1>1 DEF NoCardOnDeletedStage, TypeOK, Application
<1>3. ASSUME NEW t \in Stages, NEW final \in BOOLEAN, CreateStage(t, final)
      PROVE  stages'[s].final
  <2>1. s # t
    BY <1>2, <1>3 DEF CreateStage
  <2>. QED BY <1>1, <1>2, <1>3, <2>1 DEF CreateStage, TypeOK
<1>4. ASSUME NEW t \in Stages, MarkStageFinal(t) PROVE stages'[s].final
  BY <1>1, <1>2, <1>4 DEF MarkStageFinal, TypeOK, ProcessStage
<1>5. ASSUME NEW t \in Stages, DeleteStage(t) PROVE stages'[s].final
  BY <1>1, <1>2, <1>5 DEF DeleteStage, TypeOK, ProcessStage
<1>6. ASSUME stages' = stages PROVE stages'[s].final
  BY <1>1, <1>6
<1>. QED
  BY <1>3, <1>4, <1>5, <1>6
     DEF OrgRequest, DeleteProcess, UpdateProcess, CloseAccount, ReactivateProfile,
         DeleteCandidate

\* No request leaves a hire off the final columns, apart from a create that
\* says hired and a status written by hand; and a misplaced hire is settled by
\* the first move of its card.
THEOREM HiresFollowTheirCards == MovesWriteNoHire /\ Spec => HireFollowsTheCard
<1> SUFFICES ASSUME MovesWriteNoHire PROVE Spec => HireFollowsTheCard
  OBVIOUS
<1>1. ASSUME TypeOK, NoCardOnDeletedStage, [Next]_vars,
             NEW w \in Vacancies, NEW d \in Candidates
      PROVE  Follows(applications[w][d], stages, applications'[w][d], stages')
  <2>1. ASSUME UNCHANGED vars
        PROVE  Follows(applications[w][d], stages, applications'[w][d], stages')
    BY <2>1, SameCardFollows DEF vars
  <2>. QED
    BY <1>1, <2>1, FollowsApplicationRequest, FollowsVacancyRequest, FollowsOrgRequest
       DEF Next
<1>2. TypeOK /\ NoCardOnDeletedStage /\ [Next]_vars =>
         [\A v \in Vacancies, c \in Candidates :
            Misplaced(applications'[v][c], stages') =>
              \/ ~IsActive(applications[v][c])
              \/ /\ applications'[v][c].stage = applications[v][c].stage
                 /\ \/ applications[v][c].status # "hired"
                    \/ Misplaced(applications[v][c], stages)]_vars
  BY <1>1 DEF Follows
<1>. QED BY <1>2, TypeCorrect, NoCardIsStranded, PTL DEF Spec, HireFollowsTheCard

(***************************************************************************)
(* Action properties.  Every request is one of three shapes: it writes one *)
(* application (ApplicationShape), or a vacancy with or without the        *)
(* auto-reject (VacancyShape), or neither (OrgRequestCards).               *)
(***************************************************************************)
LEMMA ApplicationShape ==
    ASSUME TypeOK, NEW v \in Vacancies, NEW c \in Candidates, ApplicationRequest(v, c)
    PROVE  /\ vacancies' = vacancies
           /\ \E row :
                /\ SetApplication(v, c, row)
                /\ \/ /\ ~IsActive(applications[v][c])
                      /\ tasks' = {ApplicationTask("analyze_application", v, c)}
                   \/ tasks' = PatchTasks(v, c, applications[v][c], row)
                   \/ ~IsActive(row) /\ tasks' = {}
<1> DEFINE a == applications[v][c]
           Shape(row) ==
              /\ SetApplication(v, c, row)
              /\ \/ /\ ~IsActive(a)
                    /\ tasks' = {ApplicationTask("analyze_application", v, c)}
                 \/ tasks' = PatchTasks(v, c, a, row)
                 \/ ~IsActive(row) /\ tasks' = {}
<1>1. ASSUME NEW portal \in BOOLEAN, NEW sub \in BOOLEAN,
             NEW status \in CreateStatuses \cup {"active"},
             Apply(v, c, portal, status, sub)
      PROVE  vacancies' = vacancies /\ \E row : Shape(row)
  BY <1>1 DEF Apply
<1>2. ASSUME NEW row, CommitPatch(v, c, row)
      PROVE  vacancies' = vacancies /\ \E r : Shape(r)
  BY <1>2 DEF CommitPatch
<1>3. ASSUME NEW b \in Patches,
             \/ PatchFields(v, c, b) \/ RejectManually(v, c, b) \/ RejectAgain(v, c, b)
             \/ MoveToFinal(v, c, b) \/ MoveToStage(v, c, b)
      PROVE  vacancies' = vacancies /\ \E r : Shape(r)
  BY <1>2, <1>3 DEF PatchFields, RejectManually, RejectAgain, MoveToFinal, MoveToStage
<1>4. ASSUME Withdraw(v, c) PROVE vacancies' = vacancies /\ \E r : Shape(r)
  <2>1. a \in Application  BY DEF TypeOK
  <2>2. ~IsActive([a EXCEPT !.row = "inactive"])
    BY <2>1 DEF IsActive, Application
  <2>. QED BY <1>4, <2>2 DEF Withdraw
<1>. QED BY <1>1, <1>3, <1>4 DEF ApplicationRequest

LEMMA VacancyShape ==
    ASSUME NEW v \in Vacancies, VacancyRequest(v)
    PROVE  \/ applications' = applications /\ tasks' = {}
           \/ \E reason : AutoReject(v, reason)
BY DEF VacancyRequest, CreateVacancy, UpdateVacancy, EndVacancy, DeleteVacancy

LEMMA OrgShape ==
    ASSUME OrgRequest
    PROVE  vacancies' = vacancies /\ tasks' = {}
BY DEF OrgRequest, CreateStage, MarkStageFinal, DeleteStage, DeleteProcess, UpdateProcess,
       CloseAccount, ReactivateProfile, DeleteCandidate, UnchangedBoard

\* No request that changes a vacancy changes an application it hired, for any
\* bodies: the auto-reject is the only vacancy step that writes applications.
THEOREM HiresOutliveVacancies == Spec => HireOutlivesVacancy
<1> DEFINE Keeps(v, c) ==
              /\ vacancies'[v] # vacancies[v]
              /\ IsActive(applications[v][c])
              /\ applications[v][c].status = "hired"
              => applications'[v][c] = applications[v][c]
<1>1. ASSUME TypeOK, [Next]_vars, NEW v \in Vacancies, NEW c \in Candidates
      PROVE  Keeps(v, c)
  <2>1. ASSUME UNCHANGED vars PROVE Keeps(v, c)
    BY <2>1 DEF vars
  <2>2. ASSUME NEW w \in Vacancies, NEW d \in Candidates, ApplicationRequest(w, d)
        PROVE  Keeps(v, c)
    BY <1>1, <2>2, ApplicationShape
  <2>3. ASSUME NEW w \in Vacancies, VacancyRequest(w) PROVE Keeps(v, c)
    BY <1>1, <2>3, VacancyShape, AutoRejectedCards DEF AutoRejectable
  <2>4. ASSUME OrgRequest PROVE Keeps(v, c)
    BY <2>4, OrgShape
  <2>. QED BY <1>1, <2>1, <2>2, <2>3, <2>4 DEF Next
<1>2. TypeOK /\ [Next]_vars =>
         [\A v \in Vacancies, c \in Candidates :
            /\ vacancies'[v] # vacancies[v]
            /\ IsActive(applications[v][c])
            /\ applications[v][c].status = "hired"
            => applications'[v][c] = applications[v][c]]_vars
  BY <1>1
<1>. QED BY <1>2, TypeCorrect, PTL DEF Spec, HireOutlivesVacancy

\* Whoever is in the rejected column with the rejected status is told nothing
\* more, whatever is requested.
THEOREM NobodyIsToldTwice == Spec => NoSecondNotice
<1>1. ASSUME TypeOK, Next, NEW v \in Vacancies, NEW c \in Candidates,
             IsActive(applications[v][c]), applications[v][c].stage = NULL,
             applications[v][c].status = "rejected"
      PROVE  RejectionNotice(v, c) \notin tasks'
  <2>1. ASSUME NEW w \in Vacancies, NEW d \in Candidates, ApplicationRequest(w, d)
        PROVE  RejectionNotice(v, c) \notin tasks'
    <3>1. PICK row :
             \/ tasks' = {ApplicationTask("analyze_application", w, d)}
             \/ tasks' = PatchTasks(w, d, applications[w][d], row)
             \/ tasks' = {}
      BY <1>1, <2>1, ApplicationShape
    <3>2. RejectionNotice(v, c) # ApplicationTask("analyze_application", w, d)
      BY DEF RejectionNotice, ApplicationTask
    <3>3. RejectionNotice(v, c) \notin PatchTasks(w, d, applications[w][d], row)
      BY <1>1 DEF PatchTasks, RejectionNotice, ApplicationTask
    <3>. QED BY <3>1, <3>2, <3>3
  <2>2. ASSUME NEW w \in Vacancies, VacancyRequest(w)
        PROVE  RejectionNotice(v, c) \notin tasks'
    <3>1. ASSUME NEW reason, AutoReject(w, reason)
          PROVE  RejectionNotice(v, c) \notin tasks'
      BY <1>1, <3>1 DEF AutoReject, AutoRejectable, RejectionNotice, ApplicationTask
    <3>. QED BY <2>2, <3>1, VacancyShape
  <2>3. ASSUME OrgRequest PROVE RejectionNotice(v, c) \notin tasks'
    BY <2>3, OrgShape
  <2>. QED BY <1>1, <2>1, <2>2, <2>3 DEF Next
<1>2. TypeOK /\ [Next]_vars =>
         [\A v \in Vacancies, c \in Candidates :
            /\ IsActive(applications[v][c])
            /\ applications[v][c].stage = NULL /\ applications[v][c].status = "rejected"
            => RejectionNotice(v, c) \notin tasks']_vars
  BY <1>1
<1>. QED BY <1>2, TypeCorrect, PTL DEF Spec, NoSecondNotice

\* A card that leaves its column for the rejected one is told in the same step.
THEOREM RejectedCardsAreTold == Spec => RejectedCardIsTold
<1>1. ASSUME TypeOK, Next, NEW v \in Vacancies, NEW c \in Candidates,
             IsActive(applications[v][c]), IsActive(applications'[v][c]),
             applications[v][c].stage # NULL, applications'[v][c].stage = NULL
      PROVE  RejectionNotice(v, c) \in tasks'
  <2>1. ASSUME NEW w \in Vacancies, NEW d \in Candidates, ApplicationRequest(w, d)
        PROVE  RejectionNotice(v, c) \in tasks'
    <3>1. PICK row :
             /\ SetApplication(w, d, row)
             /\ \/ ~IsActive(applications[w][d])
                \/ tasks' = PatchTasks(w, d, applications[w][d], row)
                \/ ~IsActive(row)
      BY <1>1, <2>1, ApplicationShape
    <3>2. v = w /\ c = d
      BY <1>1, <3>1, OneRowWritten
    <3>3. applications'[v][c] = row
      BY <1>1, <3>1, <3>2, OneRowWritten
    <3>4. tasks' = PatchTasks(v, c, applications[v][c], row)
      BY <1>1, <3>1, <3>2, <3>3
    <3>. QED BY <1>1, <3>3, <3>4 DEF PatchTasks, RejectionNotice
  <2>2. ASSUME NEW w \in Vacancies, VacancyRequest(w)
        PROVE  RejectionNotice(v, c) \in tasks'
    <3>1. PICK reason : AutoReject(w, reason)
      BY <1>1, <2>2, VacancyShape
    <3>2. v = w /\ AutoRejectable(applications[v][c])
      BY <1>1, <3>1, AutoRejectedCards
    <3>. QED BY <3>1, <3>2 DEF AutoReject, RejectionNotice
  <2>3. ASSUME OrgRequest PROVE RejectionNotice(v, c) \in tasks'
    BY <1>1, <2>3, OrgRequestCards
  <2>. QED BY <1>1, <2>1, <2>2, <2>3 DEF Next
<1>2. TypeOK /\ [Next]_vars =>
         [\A v \in Vacancies, c \in Candidates :
            /\ IsActive(applications[v][c]) /\ IsActive(applications'[v][c])
            /\ applications[v][c].stage # NULL /\ applications'[v][c].stage = NULL
            => RejectionNotice(v, c) \in tasks']_vars
  BY <1>1
<1>. QED BY <1>2, TypeCorrect, PTL DEF Spec, RejectedCardIsTold

\* A rejection is told when the card leaves the board, and never again.
THEOREM RejectionsAreToldOnce == Spec => RejectionIsToldOnce
BY RejectedCardsAreTold, NobodyIsToldTwice DEF RejectionIsToldOnce

\* The clients never switch a vacancy off through PATCH (is_active = false).
NoDeactivation == \A b \in VacancyPatches : b.active \in {TRUE, Unset}

\* A vacancy that closes, is cancelled or is deleted leaves nobody undecided,
\* as long as it is deleted through DELETE.
THEOREM EndsSettleEveryone == NoDeactivation /\ Spec => EndSettlesEveryone
<1> SUFFICES ASSUME NoDeactivation PROVE Spec => EndSettlesEveryone
  OBVIOUS
<1>1. ASSUME NEW b \in VacancyPatches, NEW row PROVE FlagOrKeep(b.active, row) \in {row, "active"}
  BY DEF NoDeactivation, FlagOrKeep
<1>2. ASSUME TypeOK, NEW v \in Vacancies, NEW c \in Candidates,
             NEW reason, AutoReject(v, reason), IsActive(applications'[v][c])
      PROVE  applications'[v][c].status \in {"hired", "rejected"}
  <2>1. applications[v][c] \in Application
    BY <1>2 DEF TypeOK
  <2>2. CASE AutoRejectable(applications[v][c])
    <3>1. applications'[v][c] = RejectedRow(applications[v][c], reason)
      BY <1>2, <2>2 DEF AutoReject, AutoRejectAll, TypeOK
    <3>. QED BY <2>1, <3>1 DEF RejectedRow, Application
  <2>3. CASE ~AutoRejectable(applications[v][c])
    <3>1. applications'[v][c] = applications[v][c]
      BY <1>2, <2>3 DEF AutoReject, AutoRejectAll, TypeOK
    <3>. QED BY <1>2, <2>3, <3>1 DEF AutoRejectable
  <2>. QED BY <2>2, <2>3
<1>3. ASSUME TypeOK, Next, NEW v \in Vacancies, Ends(v)
      PROVE  \E reason : AutoReject(v, reason)
  <2>1. ASSUME vacancies'[v] = vacancies[v] PROVE FALSE
    BY <1>3, <2>1 DEF Ends
  <2>2. PICK w \in Vacancies : VacancyRequest(w)
    BY <1>3, <2>1, ApplicationShape, OrgShape DEF Next
  <2>3. w = v
    BY <1>3, <2>1, <2>2
       DEF VacancyRequest, CreateVacancy, EndVacancy, UpdateVacancy, DeleteVacancy,
           PatchVacancyRow, TypeOK
  <2>4. ASSUME NEW b \in VacancyPatches, NEW publisher \in BOOLEAN,
               UpdateVacancy(v, b, publisher)
        PROVE  FALSE
    <3>1. vacancies[v] \in Vacancy
      BY <1>3 DEF TypeOK
    <3>2. vacancies'[v] = PatchedVacancy(vacancies[v], b)
      BY <1>3, <2>4 DEF UpdateVacancy, PatchVacancyRow, TypeOK
    <3>3. /\ vacancies'[v].status = OrKeep(b.status, vacancies[v].status)
          /\ vacancies'[v].row = FlagOrKeep(b.active, vacancies[v].row)
      BY <3>1, <3>2 DEF PatchedVacancy, Vacancy
    <3>4. vacancies'[v].row \in {vacancies[v].row, "active"}
      BY <1>1, <3>3
    <3>. QED BY <1>3, <2>4, <3>3, <3>4 DEF Ends, UpdateVacancy, StatusChanges, OrKeep
  <2>5. ASSUME NEW publisher \in BOOLEAN, NEW status \in VacancyStatus,
               NEW process \in Processes \cup {NULL}, NEW openings \in 1..MaxOpenings,
               CreateVacancy(v, publisher, status, process, openings)
        PROVE  FALSE
    BY <1>3, <2>5 DEF CreateVacancy, Ends
  <2>. QED BY <2>2, <2>3, <2>4, <2>5 DEF VacancyRequest, EndVacancy, DeleteVacancy
<1>4. TypeOK /\ [Next]_vars =>
         [\A v \in Vacancies : Ends(v) =>
            \A c \in Candidates :
               IsActive(applications'[v][c]) =>
                   applications'[v][c].status \in {"hired", "rejected"}]_vars
  BY <1>2, <1>3
<1>. QED BY <1>4, TypeCorrect, PTL DEF Spec, EndSettlesEveryone

(***************************************************************************)
(* The board keeps its cards.  In the next state NoCardOnDeletedStage says *)
(* that the column a card stands on exists; CardMoves says that it is a    *)
(* column of the vacancy's process, because a card only ever moves to one. *)
(***************************************************************************)
LEMMA CardMoves ==
    ASSUME TypeOK, Next, NEW v \in Vacancies, NEW c \in Candidates,
           IsActive(applications[v][c]), IsActive(applications'[v][c])
    PROVE  \/ applications'[v][c].stage \in {applications[v][c].stage, NULL}
           \/ StageProcess[applications'[v][c].stage] = vacancies[v].process
<1> DEFINE Moves(w, d, row) ==
              \/ row.stage \in {applications[w][d].stage, NULL}
              \/ StageProcess[row.stage] = vacancies[w].process
           Goal == Moves(v, c, applications'[v][c])
<1>1. ASSUME NEW w \in Vacancies, NEW d \in Candidates, ApplicationRequest(w, d)
      PROVE  Goal
  <2> DEFINE a == applications[w][d]
  <2>1. a \in Application
    BY DEF TypeOK
  <2>2. ASSUME NEW row, SetApplication(w, d, row),
               IsActive(a) /\ IsActive(row) => Moves(w, d, row)
        PROVE  Goal
    BY <2>2, OneRowWritten
  <2>3. ASSUME NEW portal \in BOOLEAN, NEW sub \in BOOLEAN,
               NEW status \in CreateStatuses \cup {"active"},
               Apply(w, d, portal, status, sub)
        PROVE  Goal
    BY <2>2, <2>3 DEF Apply
  <2>4. ASSUME NEW b \in Patches, PatchFields(w, d, b) PROVE Goal
    <3>1. PatchedRow(a, b).stage = a.stage
      BY <2>1, <2>4 DEF PatchFields, PatchedRow, OrKeep, Application
    <3>. QED BY <2>2, <2>4, <3>1 DEF PatchFields, CommitPatch
  <2>5. ASSUME NEW b \in Patches, RejectManually(w, d, b) PROVE Goal
    <3>1. RejectedRow(a, b.reason).stage = NULL
      BY <2>1 DEF RejectedRow, Application
    <3>. QED BY <2>2, <2>5, <3>1 DEF RejectManually, CommitPatch
  <2>6. ASSUME NEW b \in Patches, RejectAgain(w, d, b) PROVE Goal
    <3>1. NULL # Unset  BY BoardAssumption
    <3>2. RejectedAgainRow(a, b).stage = NULL
      BY <2>1, <2>6, <3>1 DEF RejectAgain, RejectedAgainRow, PatchedRow, OrKeep, Application
    <3>. QED BY <2>2, <2>6, <3>2 DEF RejectAgain, CommitPatch
  <2>7. ASSUME NEW b \in Patches, b.stage \in Stages, StageInProcess(w, b.stage)
        PROVE  Moves(w, d, HiredRow(a, b)) /\ Moves(w, d, MovedRow(a, b))
    <3>1. StageProcess[b.stage] = vacancies[w].process /\ b.stage # Unset
      BY <2>7, BoardAssumption DEF StageInProcess, ActiveStagesOf
    <3>2. HiredRow(a, b).stage = b.stage
      BY <2>1, <3>1 DEF HiredRow, PatchedRow, OrKeep, Application
    <3>3. MovedRow(a, b).stage = b.stage
      BY <2>1, <3>1 DEF MovedRow, PatchedRow, OrKeep, Application
    <3>. QED BY <3>1, <3>2, <3>3
  <2>8. ASSUME NEW b \in Patches, MoveToFinal(w, d, b) \/ MoveToStage(w, d, b) PROVE Goal
    BY <2>2, <2>7, <2>8 DEF MoveToFinal, MoveToStage, CommitPatch
  <2>9. ASSUME Withdraw(w, d) PROVE Goal
    <3>1. ~IsActive([a EXCEPT !.row = "inactive"])
      BY <2>1 DEF IsActive, Application
    <3>. QED BY <2>2, <2>9, <3>1 DEF Withdraw
  <2>. QED BY <1>1, <2>3, <2>4, <2>5, <2>6, <2>8, <2>9 DEF ApplicationRequest
<1>2. ASSUME NEW w \in Vacancies, VacancyRequest(w) PROVE Goal
  <2>1. applications[v][c] \in Application
    BY DEF TypeOK
  <2>2. ASSUME NEW reason, AutoReject(w, reason) PROVE Goal
    <3>1. RejectedRow(applications[v][c], reason).stage = NULL
      BY <2>1 DEF RejectedRow, Application
    <3>. QED BY <2>2, <3>1, AutoRejectedCards
  <2>. QED BY <1>2, <2>2, VacancyShape
<1>3. ASSUME OrgRequest PROVE Goal
  BY <1>3, OrgRequestCards
<1>. QED BY <1>1, <1>2, <1>3 DEF Next

\* A card that is drawn stays drawn until it is withdrawn, or its vacancy is
\* deleted or given another process, for any PATCH bodies.
THEOREM CardsStayOnTheBoard == Spec => BoardKeepsItsCards
<1> DEFINE Kept(v, c) ==
              /\ v \in Listed /\ v \in Listed' /\ vacancies'[v].process = vacancies[v].process
              /\ Drawn(v, c) /\ IsActive(applications'[v][c])
              => Drawn(v, c)'
<1>1. ASSUME TypeOK, TypeOK', NoCardOnDeletedStage', Next, NEW v \in Vacancies, NEW c \in Candidates
      PROVE  Kept(v, c)
  <2> SUFFICES ASSUME vacancies'[v].process = vacancies[v].process,
                      Drawn(v, c), IsActive(applications'[v][c])
               PROVE  Drawn(v, c)'
    OBVIOUS
  <2> DEFINE s == applications'[v][c].stage
  <2>1. IsActive(applications[v][c])
    BY DEF Drawn, Cards
  <2>2. \/ applications[v][c].stage = NULL
        \/ StageProcess[applications[v][c].stage] = vacancies[v].process
    BY DEF Drawn, Columns, ActiveStagesOf
  <2>3. s = NULL \/ StageProcess[s] = vacancies[v].process
    BY <1>1, <2>1, <2>2, CardMoves
  <2>4. s = NULL \/ (s \in Stages /\ stages'[s].row = "active")
    BY <1>1 DEF TypeOK, NoCardOnDeletedStage, Application
  <2>. QED BY <2>3, <2>4 DEF Drawn, Cards, Columns, ActiveStagesOf
<1>2. TypeOK /\ TypeOK' /\ NoCardOnDeletedStage' /\ [Next]_vars =>
         [\A v \in Listed :
             v \in Listed' /\ vacancies'[v].process = vacancies[v].process =>
                 \A c \in Candidates :
                     Drawn(v, c) /\ IsActive(applications'[v][c]) => Drawn(v, c)']_vars
  BY <1>1 DEF Listed
<1>. QED BY <1>2, TypeCorrect, NoCardIsStranded, PTL DEF Spec, BoardKeepsItsCards
=============================================================================
