-------------------------- MODULE BoardRacesProofs --------------------------
(***************************************************************************)
(* Proofs about BoardRaces, for every set of vacancies, candidates, stages *)
(* and database sessions, and for every set of requests unless a theorem   *)
(* says otherwise.                                                         *)
(***************************************************************************)
EXTENDS BoardRaces, WellFoundedInduction, TLAPS

-----------------------------------------------------------------------------
(* Rows: what an UPDATE of the changed columns leaves                      *)

Columns == {"row", "stage", "sub", "rejectedAt", "status", "reason"}

LEMMA ColumnsOfCard ==
    ASSUME NEW a \in Application
    PROVE  DOMAIN a = Columns
  BY DEF Application, Columns

\* The merged row, column by column.
LEMMA MergedColumn ==
    ASSUME NEW loaded \in Application, NEW wanted \in Application,
           NEW current \in Application, NEW f \in Columns
    PROVE  Merge(loaded, wanted, current)[f] =
              IF wanted[f] # loaded[f] THEN wanted[f] ELSE current[f]
  BY ColumnsOfCard DEF Merge

LEMMA MergedCard ==
    ASSUME NEW loaded \in Application, NEW wanted \in Application, NEW current \in Application
    PROVE  LET m == Merge(loaded, wanted, current)
           IN  m = [row |-> m.row, stage |-> m.stage, sub |-> m.sub,
                    rejectedAt |-> m.rejectedAt, status |-> m.status, reason |-> m.reason]
  BY ColumnsOfCard DEF Merge, Columns

LEMMA MergeType ==
    ASSUME NEW loaded \in Application, NEW wanted \in Application, NEW current \in Application
    PROVE  Merge(loaded, wanted, current) \in Application
<1>. DEFINE m == Merge(loaded, wanted, current)
<1>1. /\ m.row \in RowState /\ m.stage \in Stages \cup {NULL} /\ m.sub \in BOOLEAN
      /\ m.rejectedAt \in Stages \cup {NULL} /\ m.status \in ApplicationStatus
      /\ m.reason \in Reason
  <2>1. m.row \in RowState  BY MergedColumn DEF Application, Columns
  <2>2. m.stage \in Stages \cup {NULL}  BY MergedColumn DEF Application, Columns
  <2>3. m.sub \in BOOLEAN  BY MergedColumn DEF Application, Columns
  <2>4. m.rejectedAt \in Stages \cup {NULL}  BY MergedColumn DEF Application, Columns
  <2>5. m.status \in ApplicationStatus  BY MergedColumn DEF Application, Columns
  <2>6. m.reason \in Reason  BY MergedColumn DEF Application, Columns
  <2>. QED BY <2>1, <2>2, <2>3, <2>4, <2>5, <2>6
<1>2. m = [row |-> m.row, stage |-> m.stage, sub |-> m.sub,
           rejectedAt |-> m.rejectedAt, status |-> m.status, reason |-> m.reason]
  BY MergedCard
<1>. HIDE DEF m
<1>3. m \in Application
  BY <1>1, <1>2 DEF Application
<1>. QED BY <1>3 DEF m

\* Nobody else wrote: the row is the wanted one.
LEMMA MergeAlone ==
    ASSUME NEW loaded \in Application, NEW wanted \in Application
    PROVE  Merge(loaded, wanted, loaded) = wanted
<1>. DEFINE m == Merge(loaded, wanted, loaded)
<1>1. \A f \in Columns : m[f] = wanted[f]
  BY MergedColumn
<1>2. m = [row |-> m.row, stage |-> m.stage, sub |-> m.sub,
           rejectedAt |-> m.rejectedAt, status |-> m.status, reason |-> m.reason]
  BY MergedCard
<1>3. wanted = [row |-> wanted.row, stage |-> wanted.stage, sub |-> wanted.sub,
                rejectedAt |-> wanted.rejectedAt, status |-> wanted.status,
                reason |-> wanted.reason]
  BY DEF Application
<1>. HIDE DEF m
<1>4. m = wanted
  BY <1>1, <1>2, <1>3 DEF Columns
<1>. QED BY <1>4 DEF m

VacancyColumns == {"row", "status", "process", "openings"}

\* The same of a vacancy.
LEMMA MergedVacancy ==
    ASSUME NEW loaded \in Vacancy, NEW wanted \in Vacancy, NEW current \in Vacancy
    PROVE  /\ Merge(loaded, wanted, current) \in Vacancy
           /\ \A f \in VacancyColumns :
                 Merge(loaded, wanted, current)[f] =
                    IF wanted[f] # loaded[f] THEN wanted[f] ELSE current[f]
<1>. DEFINE m == Merge(loaded, wanted, current)
<1>1. DOMAIN current = VacancyColumns
  BY DEF Vacancy, VacancyColumns
<1>2. \A f \in VacancyColumns : m[f] = IF wanted[f] # loaded[f] THEN wanted[f] ELSE current[f]
  BY <1>1 DEF Merge
<1>3. m = [row |-> m.row, status |-> m.status, process |-> m.process, openings |-> m.openings]
  BY <1>1 DEF Merge, VacancyColumns
<1>. HIDE DEF m
<1>4. /\ m.row \in RowState /\ m.status \in VacancyStatus
      /\ m.process \in Processes \cup {NULL} /\ m.openings \in 1..MaxOpenings
  BY <1>2 DEF VacancyColumns, Vacancy
<1>5. m \in Vacancy
  BY <1>3, <1>4 DEF Vacancy
<1>. QED BY <1>2, <1>5 DEF m

\* With nobody else writing.
LEMMA MergedVacancyAlone ==
    ASSUME NEW loaded \in Vacancy, NEW wanted \in Vacancy
    PROVE  Merge(loaded, wanted, loaded) = wanted
<1>. DEFINE m == Merge(loaded, wanted, loaded)
<1>1. m \in Vacancy /\ \A f \in VacancyColumns : m[f] = wanted[f]
  BY MergedVacancy
<1>. HIDE DEF m
<1>2. m = wanted
  BY <1>1 DEF VacancyColumns, Vacancy
<1>. QED BY <1>2 DEF m

\* The first column is an active stage of the process, or there is none.
LEMMA FirstStageFact ==
    ASSUME NEW st, NEW p
    PROVE  /\ FirstStage(st, p) \in ActiveStagesOf(st, p) \cup {NULL}
           /\ ActiveStagesOf(st, p) # {} => FirstStage(st, p) \in Stages
<1>. DEFINE columns == ActiveStagesOf(st, p)
            orders == {StageOrder[s] : s \in columns}
<1>1. CASE columns = {}
  BY <1>1 DEF FirstStage
<1>2. CASE columns # {}
  <2>1. orders \subseteq Nat /\ orders # {}
    BY <1>2, BoardAssumption DEF ActiveStagesOf
  <2>2. PICK n \in orders : \A m \in orders : ~ (<<m, n>> \in OpToRel(<, Nat))
    BY <2>1, NatLessThanWellFounded, WFMin
  <2>3. \A m \in orders : ~ (m < n)
    BY <2>1, <2>2 DEF OpToRel
  <2>4. PICK s \in columns : StageOrder[s] = n
    BY DEF ActiveStagesOf
  <2>5. \A t \in columns : StageOrder[s] <= StageOrder[t]
    BY <2>1, <2>3, <2>4
  <2>6. (CHOOSE x \in columns : \A t \in columns : StageOrder[x] <= StageOrder[t])
           \in columns
    BY <2>4, <2>5
  <2>. QED BY <1>2, <2>6 DEF FirstStage, ActiveStagesOf
<1>. QED BY <1>1, <1>2

\* The fields of the body over the row.
LEMMA PatchedType ==
    ASSUME NEW a \in Application, NEW b \in PatchBody
    PROVE  PatchedRow(a, b) \in Application
<1>1. OrKeep(b.status, a.status) \in ApplicationStatus
  BY DEF OrKeep, PatchBody, Application
<1>2. OrKeep(b.stage, a.stage) \in Stages \cup {NULL}
  BY DEF OrKeep, PatchBody, Application
<1>3. OrKeep(b.sub, a.sub) \in BOOLEAN
  BY DEF OrKeep, PatchBody, Application
<1>4. OrKeep(b.reason, a.reason) \in Reason
  BY DEF OrKeep, PatchBody, Application, Reason
<1>. QED BY <1>1, <1>2, <1>3, <1>4 DEF PatchedRow, Application

\* What a PATCH computes is a row.
LEMMA TransitionType ==
    ASSUME NEW a \in Application, NEW b \in PatchBody,
           b.stage = NULL /\ a.status # "rejected" => b.reason = "manual"
    PROVE  TransitionRow(a, b) \in Application
<1>1. PatchedRow(a, b) \in Application
  BY PatchedType
<1>2. /\ RejectedAgainRow(a, b) \in Application
      /\ HiredRow(a, b) \in Application
      /\ MovedRow(a, b) \in Application
  <2>1. RejectedAgainRow(a, b) \in Application
    BY <1>1 DEF RejectedAgainRow, Application
  <2>2. HiredRow(a, b) \in Application
    BY <1>1 DEF HiredRow, Application, ApplicationStatus
  <2>3. MovedRow(a, b) \in Application
    BY <1>1 DEF MovedRow, Application, ApplicationStatus
  <2>. QED BY <2>1, <2>2, <2>3
<1>3. RejectedRow(a, "manual") \in Application
  BY DEF RejectedRow, Application, ApplicationStatus, Reason
<1>4. CASE b.stage = Unset
  BY <1>1, <1>4, BoardAssumption DEF TransitionRow
<1>5. CASE b.stage = NULL
  BY <1>2, <1>3, <1>5, BoardAssumption DEF TransitionRow
<1>6. CASE b.stage \in Stages
  BY <1>2, <1>6, BoardAssumption DEF TransitionRow
<1>. QED BY <1>4, <1>5, <1>6 DEF PatchBody

LEMMA ApplyTypes ==
    ASSUME NEW a \in Application, NEW first \in Stages \cup {NULL}, NEW status \in PlaceStatus
    PROVE  /\ InsertedRow(status, first, FALSE) \in Application
           /\ ResurrectedRow(a, status, first) \in Application
  BY DEF PlaceStatus, InsertedRow, ResurrectedRow, NoApplication, Application, RowState, ApplicationStatus,
         Reason

LEMMA WantedVacancyType ==
    ASSUME NEW vac \in Vacancy, NEW b \in VacancyPatchBody
    PROVE  PatchedVacancy(vac, b) \in Vacancy /\ [vac EXCEPT !.row = "inactive"] \in Vacancy
<1>1. OrKeep(b.status, vac.status) \in VacancyStatus
  BY DEF OrKeep, VacancyPatchBody, Vacancy
<1>2. OrKeep(b.process, vac.process) \in Processes \cup {NULL}
  BY DEF OrKeep, VacancyPatchBody, Vacancy
<1>3. OrKeep(b.openings, vac.openings) \in 1..MaxOpenings
  BY DEF OrKeep, VacancyPatchBody, Vacancy
<1>4. FlagOrKeep(b.active, vac.row) \in RowState
  BY DEF FlagOrKeep, Vacancy, RowState
<1>5. PatchedVacancy(vac, b) \in Vacancy
  BY <1>1, <1>2, <1>3, <1>4 DEF PatchedVacancy, Vacancy
<1>. QED BY <1>5 DEF Vacancy, RowState

LEMMA NoRows ==
    /\ NoApplication \in Application
    /\ NoVacancy \in Vacancy
    /\ NoStage \in ProcessStage
<1>1. NoApplication \in Application
  BY DEF NoApplication, Application, RowState, ApplicationStatus, Reason
<1>2. NoVacancy \in Vacancy
  BY BoardAssumption DEF NoVacancy, Vacancy, RowState, VacancyStatus
<1>. QED BY <1>1, <1>2 DEF NoStage, ProcessStage, RowState

LEMMA RequestTypes ==
    ASSUME NEW q \in Requests
    PROVE  /\ q.op \in {"patch", "apply", "withdraw", "end", "deleteVacancy", "deleteStage"}
           /\ q.op \in {"patch", "apply", "withdraw"} =>
                 q.vacancy \in Vacancies /\ q.candidate \in Candidates
           /\ q.op = "patch" => q.body \in PatchBody
           /\ q.op \in {"end", "deleteVacancy"} => q.vacancy \in Vacancies
           /\ q.op = "end" => q.body \in VacancyPatchBody
           /\ q.op = "deleteStage" => q.stage \in Stages
           /\ q.op = "apply" => q.status \in PlaceStatus
<1>1. q \in Request
  BY RaceAssumption
<1>2. CASE q \in [op : {"patch"}, vacancy : Vacancies, candidate : Candidates, body : PatchBody]
  BY <1>2
<1>3. CASE \/ q \in [op : {"apply"}, vacancy : Vacancies, candidate : Candidates,
                    portal : BOOLEAN, status : PlaceStatus]
           \/ q \in [op : {"withdraw"}, vacancy : Vacancies, candidate : Candidates]
  BY <1>3
<1>4. CASE q \in [op : {"end"}, vacancy : Vacancies, body : VacancyPatchBody]
  BY <1>4
<1>5. CASE q \in [op : {"deleteVacancy"}, vacancy : Vacancies]
  BY <1>5
<1>6. CASE q \in [op : {"deleteStage"}, stage : Stages]
  BY <1>6
<1>. QED BY <1>1, <1>2, <1>3, <1>4, <1>5, <1>6 DEF Request

\* Callers of the portal are given the active status.
LEMMA PortalTypes ==
    ASSUME NEW q \in Requests, q.op = "apply"
    PROVE  q.portal \in BOOLEAN /\ (q.portal => q.status = "active")
<1>1. q \in [op : {"apply"}, vacancy : Vacancies, candidate : Candidates,
             portal : BOOLEAN, status : PlaceStatus]
  BY RaceAssumption DEF Request
<1>2. q.portal \in BOOLEAN
  BY <1>1
<1>3. q.portal => q.status = "active"
  BY RaceAssumption, Zenon
<1>. QED BY <1>2, <1>3, Zenon

-----------------------------------------------------------------------------
(* Type correctness                                                        *)

\* What TypeOK leaves open about a session: who has a request, who lists, and
\* who enqueues which notice.
SessionsShaped ==
    \A r \in Slots :
        /\ ~At(r, "idle") => session[r].request \in Requests /\ session[r].number > 0
        /\ session[r].pc \in {"listing", "rejecting"} => Op(r) \in {"end", "deleteVacancy"}
        /\ \A t \in session[r].tasks : t.name = "notify_stage_change" => Op(r) = "patch"

\* A stage notice names the stage.
JobsShaped == \A j \in queue : j.task.name = "notify_stage_change" => j.stage \in Stages

RaceTyped == TypeOK /\ SessionsShaped /\ JobsShaped

\* What a step does to the requests alone.
SessionTypes == session \in [Slots -> Session] /\ SessionsShaped

LEMMA OneSession ==
    ASSUME SessionTypes, NEW r \in Slots, NEW s \in Session, Go(r, s),
           s.pc # "idle" => s.request \in Requests /\ s.number > 0,
           s.pc \in {"listing", "rejecting"} => s.request.op \in {"end", "deleteVacancy"},
           \A t \in s.tasks : t.name = "notify_stage_change" => s.request.op = "patch"
    PROVE  SessionTypes'
<1>1. session' \in [Slots -> Session] /\ session'[r] = s
  BY DEF SessionTypes, Go
<1>2. \A k \in Slots : k # r => session'[k] = session[k]
  BY DEF SessionTypes, Go
<1>3. ASSUME NEW k \in Slots
      PROVE  /\ session'[k].pc # "idle" =>
                   session'[k].request \in Requests /\ session'[k].number > 0
             /\ session'[k].pc \in {"listing", "rejecting"} =>
                   session'[k].request.op \in {"end", "deleteVacancy"}
             /\ \A t \in session'[k].tasks :
                   t.name = "notify_stage_change" => session'[k].request.op = "patch"
  <2>1. CASE k = r
    BY <1>1, <2>1
  <2>2. CASE k # r
    BY <1>2, <2>2 DEF SessionTypes, SessionsShaped, At, Op
  <2>. QED BY <2>1, <2>2
<1>. QED BY <1>1, <1>3 DEF SessionTypes, SessionsShaped, At, Op

LEMMA IdleType == Idle \in Session /\ Idle.pc = "idle" /\ Idle.tasks = {}
<1>1. [c \in Candidates |-> NoApplication] \in [Candidates -> Application]
  BY NoRows
<1>. QED BY <1>1, NoRows, RaceAssumption DEF Idle, Session, NoRequest

\* The first query.
LEMMA BeginTyped ==
    ASSUME RaceTyped, NEW r \in Slots, NEW q \in Requests, NEW vac \in Vacancy,
           NEW app \in Application, Begin(r, q, vac, app)
    PROVE  RaceTyped'
<1>. DEFINE s == [Idle EXCEPT !.pc = "read", !.request = q, !.number = sent + 1,
                              !.vacancy = vac, !.application = app]
<1>1. sent \in 0..MaxRequests /\ sent < MaxRequests /\ sent' = sent + 1 /\ MaxRequests \in Nat
  BY RaceAssumption DEF RaceTyped, TypeOK, Begin
<1>2. sent + 1 \in 0..MaxRequests /\ sent + 1 > 0
  BY <1>1
<1>3. s \in Session
  BY <1>2, IdleType DEF Session
<1>4. s.pc = "read" /\ s.request = q /\ s.number = sent + 1 /\ s.tasks = {}
  BY DEF Idle
<1>5. Go(r, s) /\ UNCHANGED <<rows, drafts, queue, mails, tasks, failures>>
  BY DEF Begin
<1>. HIDE DEF s
<1>6. SessionTypes'
  BY <1>2, <1>3, <1>4, <1>5, OneSession DEF RaceTyped, TypeOK, SessionTypes
<1>. QED
  BY <1>1, <1>5, <1>6 DEF RaceTyped, TypeOK, SessionTypes, JobsShaped, rows, drafts

LEMMA ArriveTyped ==
    ASSUME RaceTyped, NEW r \in Slots, Arrive(r)
    PROVE  RaceTyped'
<1>1. PICK q \in Requests :
         \/ ReadApplication(r, q) \/ ReadOpenVacancy(r, q) \/ ReadVacancy(r, q) \/ ReadStage(r, q)
  BY DEF Arrive
<1>2. CASE ReadApplication(r, q)
  BY <1>2, BeginTyped, NoRows, RequestTypes DEF ReadApplication, RaceTyped, TypeOK
<1>3. CASE ReadOpenVacancy(r, q)
  BY <1>3, BeginTyped, NoRows, RequestTypes DEF ReadOpenVacancy, RaceTyped, TypeOK
<1>4. CASE ReadVacancy(r, q)
  BY <1>4, BeginTyped, NoRows, RequestTypes DEF ReadVacancy, RaceTyped, TypeOK
<1>5. CASE ReadStage(r, q)
  BY <1>5, BeginTyped, NoRows DEF ReadStage
<1>. QED BY <1>1, <1>2, <1>3, <1>4, <1>5

\* A guard: the session goes on with what it has, or starts over.
LEMMA GuardTyped ==
    ASSUME RaceTyped, NEW r \in Slots, ~At(r, "idle"), NEW accepted \in BOOLEAN, NEW s,
           ElseRefuse(r, accepted, s),
           accepted => /\ s \in Session /\ s.pc = "checked"
                       /\ s.request = session[r].request /\ s.number = session[r].number
                       /\ s.tasks = session[r].tasks
    PROVE  RaceTyped'
<1>1. SessionTypes'
  <2>1. CASE accepted
    BY <2>1, OneSession DEF ElseRefuse, RaceTyped, TypeOK, SessionTypes, SessionsShaped, At, Op
  <2>2. CASE ~accepted
    <3>1. Go(r, Idle)
      BY <2>2 DEF ElseRefuse
    <3>. QED
      BY <3>1, OneSession, IdleType DEF RaceTyped, TypeOK, SessionTypes
  <2>. QED BY <2>1, <2>2
<1>2. UNCHANGED <<rows, drafts, queue, mails, tasks, sent, failures>>
  BY DEF ElseRefuse, UnchangedRest
<1>. QED
  BY <1>1, <1>2 DEF RaceTyped, TypeOK, SessionTypes, JobsShaped, rows, drafts

LEMMA ChecksTyped ==
    ASSUME RaceTyped, NEW r \in Slots,
           \/ CheckPatch(r) \/ CheckApply(r) \/ CheckWithdraw(r) \/ RefuseInsert(r)
           \/ CheckVacancy(r) \/ CheckStage(r)
    PROVE  RaceTyped'
<1>. DEFINE s == session[r]
            q == s.request
<1>1. s \in Session /\ (s.pc # "idle" => q \in Requests)
  BY DEF RaceTyped, TypeOK, SessionsShaped, At
<1>2. s.application \in Application /\ s.vacancy \in Vacancy
  BY <1>1 DEF Session
<1>. HIDE DEF s
<1>3. CASE CheckPatch(r)
  <2>. DEFINE accepted == /\ IsActive(applications[q.vacancy][q.candidate])
                          /\ PatchAccepted(q.vacancy, s.application, q.body)
              w == IF accepted THEN TransitionRow(s.application, q.body) ELSE s.application
  <2>1. s.pc = "read" /\ q.op = "patch"
    BY <1>3 DEF CheckPatch, At, Op, s
  <2>2. q.body \in PatchBody
    BY <1>1, <2>1, RequestTypes
  <2>3. w \in Application
    BY <1>2, <2>2, TransitionType DEF PatchAccepted
  <2>4. ElseRefuse(r, accepted, [s EXCEPT !.pc = "checked", !.wanted = w])
    BY <1>3 DEF CheckPatch, s
  <2>5. accepted \in BOOLEAN
    BY DEF IsActive, PatchAccepted
  <2>. HIDE DEF accepted, w
  <2>6. [s EXCEPT !.pc = "checked", !.wanted = w] \in Session
    BY <1>1, <2>3 DEF Session
  <2>. QED
    BY <1>1, <2>1, <2>4, <2>5, <2>6, GuardTyped DEF At, Session, s
<1>4. CASE CheckApply(r)
  <2>. DEFINE existing == applications[q.vacancy][q.candidate]
              first == FirstStage(stages, s.vacancy.process)
              w == IF existing.row = "absent" THEN InsertedRow(q.status, first, FALSE)
                   ELSE ResurrectedRow(existing, q.status, first)
              accepted == ~IsActive(existing)
  <2>1. s.pc = "read" /\ q.op = "apply"
    BY <1>4 DEF CheckApply, At, Op, s
  <2>2. existing \in Application
    BY <1>1, <2>1, RequestTypes DEF RaceTyped, TypeOK
  <2>3. first \in Stages \cup {NULL}
    BY FirstStageFact DEF ActiveStagesOf
  <2>a. q.status \in PlaceStatus
    BY <1>1, <2>1, RequestTypes
  <2>4. w \in Application
    BY <2>2, <2>3, <2>a, ApplyTypes
  <2>5. ElseRefuse(r, accepted, [s EXCEPT !.pc = "checked", !.application = existing, !.wanted = w])
    BY <1>4 DEF CheckApply, s
  <2>6. accepted \in BOOLEAN
    BY DEF IsActive
  <2>. HIDE DEF accepted, w, existing
  <2>7. [s EXCEPT !.pc = "checked", !.application = existing, !.wanted = w] \in Session
    BY <1>1, <2>2, <2>4 DEF Session
  <2>. QED
    BY <1>1, <2>1, <2>5, <2>6, <2>7, GuardTyped DEF At, Session, s
<1>5. CASE CheckWithdraw(r)
  <2>. DEFINE w == [s.application EXCEPT !.row = "inactive"]
  <2>1. s.pc = "read" /\ ElseRefuse(r, TRUE, [s EXCEPT !.pc = "checked", !.wanted = w])
    BY <1>5 DEF CheckWithdraw, At, s
  <2>2. w \in Application
    BY <1>2 DEF Application, RowState
  <2>. HIDE DEF w
  <2>3. [s EXCEPT !.pc = "checked", !.wanted = w] \in Session
    BY <1>1, <2>2 DEF Session
  <2>. QED
    BY <1>1, <2>1, <2>3, GuardTyped DEF At, Session, s
<1>6. CASE RefuseInsert(r)
  BY <1>6, GuardTyped DEF RefuseInsert, At
<1>7. CASE CheckVacancy(r)
  <2>. DEFINE accepted ==
          IF q.op = "end" THEN GuardClose(stages, s.vacancy, applications[q.vacancy], q.body)
                          ELSE ~HasHire(applications[q.vacancy])
  <2>1. s.pc = "read" /\ ElseRefuse(r, accepted, [s EXCEPT !.pc = "checked"])
    BY <1>7 DEF CheckVacancy, At, s
  <2>2. accepted \in BOOLEAN
    BY DEF GuardClose, HasHire
  <2>. HIDE DEF accepted
  <2>3. [s EXCEPT !.pc = "checked"] \in Session
    BY <1>1 DEF Session
  <2>. QED
    BY <1>1, <2>1, <2>2, <2>3, GuardTyped DEF At, Session, s
<1>8. CASE CheckStage(r)
  <2>. DEFINE accepted == \A v \in Vacancies, c \in Candidates :
                 ~(IsActive(applications[v][c]) /\ applications[v][c].stage = q.stage)
  <2>1. s.pc = "read" /\ ElseRefuse(r, accepted, [s EXCEPT !.pc = "checked"])
    BY <1>8 DEF CheckStage, At, s
  <2>2. accepted \in BOOLEAN
    OBVIOUS
  <2>. HIDE DEF accepted
  <2>3. [s EXCEPT !.pc = "checked"] \in Session
    BY <1>1 DEF Session
  <2>. QED
    BY <1>1, <2>1, <2>2, <2>3, GuardTyped DEF At, Session, s
<1>. QED BY <1>3, <1>4, <1>5, <1>6, <1>7, <1>8

\* The tasks of a handler, and the jobs they become.
LEMMA TasksOfHandlers ==
    ASSUME NEW q \in Requests, q.op \in {"patch", "apply", "withdraw"},
           NEW loaded \in Application, NEW row \in Application
    PROVE  /\ HandlerTasks(q, loaded, row) \subseteq Board!Task
           /\ \A t \in HandlerTasks(q, loaded, row) :
                 t.name = "notify_stage_change" => q.op = "patch" /\ row.stage \in Stages
<1>1. q.vacancy \in Vacancies /\ q.candidate \in Candidates
  BY RequestTypes
<1>2. \A name \in {"analyze_application", "notify_stage_change", "notify_rejection"} :
         /\ Board!ApplicationTask(name, q.vacancy, q.candidate) \in Board!Task
         /\ Board!ApplicationTask(name, q.vacancy, q.candidate).name = name
  BY <1>1 DEF Board!Task, Board!ApplicationTask
<1>3. row.stage \in Stages \cup {NULL}
  BY DEF Application
<1>. QED BY <1>2, <1>3 DEF HandlerTasks, Board!PatchTasks

LEMMA EnqueueTyped ==
    ASSUME queue \subseteq Job, JobsShaped, NEW ts \in SUBSET Board!Task,
           NEW stage \in Stages \cup {NULL}, NEW number \in 0..MaxRequests, number > 0,
           \A t \in ts : t.name = "notify_stage_change" => stage \in Stages,
           Enqueue(ts, stage, number)
    PROVE  queue' \subseteq Job /\ JobsShaped'
<1>1. \A t \in ts : [task |-> t, stage |-> stage, by |-> number] \in Job
  BY RaceAssumption DEF Job
<1>2. \A j \in queue' : j \in queue \/ \E t \in ts : j = [task |-> t, stage |-> stage, by |-> number]
  BY DEF Enqueue
<1>. QED BY <1>1, <1>2 DEF JobsShaped

LEMMA FlushApplicationTyped ==
    ASSUME RaceTyped, NEW r \in Slots, FlushApplication(r)
    PROVE  RaceTyped'
<1>. DEFINE s == session[r]
            q == s.request
            row == Merge(s.application, s.wanted, applications[q.vacancy][q.candidate])
            ts == HandlerTasks(q, s.application, row)
            t == [s EXCEPT !.pc = "flushed", !.tasks = ts]
<1>1. s \in Session /\ s.pc = "checked" /\ q.op \in {"patch", "apply", "withdraw"}
  BY DEF RaceTyped, TypeOK, FlushApplication, At, Op
<1>2. q \in Requests /\ s.number > 0 /\ q.vacancy \in Vacancies /\ q.candidate \in Candidates
  BY <1>1, RequestTypes DEF RaceTyped, SessionsShaped, At
<1>3. row \in Application
  BY <1>1, <1>2, MergeType DEF Session, RaceTyped, TypeOK
<1>4. /\ newApplication' = [newApplication EXCEPT ![q.vacancy][q.candidate] = [by |-> r, row |-> row]]
      /\ Enqueue(ts, row.stage, s.number)
      /\ Go(r, t)
      /\ UNCHANGED <<rows, newVacancy, newStage, mails, tasks, sent, failures>>
  BY DEF FlushApplication, UnchangedRest
<1>. HIDE DEF row
<1>5. /\ ts \in SUBSET Board!Task
      /\ \A x \in ts : x.name = "notify_stage_change" => q.op = "patch" /\ row.stage \in Stages
  BY <1>1, <1>2, <1>3, TasksOfHandlers DEF Session
<1>. HIDE DEF ts, s
<1>6. t \in Session /\ t.pc = "flushed" /\ t.request = q /\ t.number = s.number /\ t.tasks = ts
  BY <1>1, <1>5 DEF Session
<1>. HIDE DEF t
<1>7. SessionTypes'
  BY <1>1, <1>2, <1>4, <1>5, <1>6, OneSession DEF RaceTyped, TypeOK, SessionTypes
<1>8. queue' \subseteq Job /\ JobsShaped'
  <2>1. row.stage \in Stages \cup {NULL} /\ s.number \in 0..MaxRequests
    BY <1>1, <1>3 DEF Application, Session
  <2>. QED
    BY <1>2, <1>4, <1>5, <2>1, EnqueueTyped DEF RaceTyped, TypeOK
<1>9. newApplication' \in [Vacancies -> [Candidates -> Draft(Application)]]
  BY <1>2, <1>3, <1>4 DEF RaceTyped, TypeOK, Draft
<1>. QED
  BY <1>4, <1>7, <1>8, <1>9 DEF RaceTyped, TypeOK, SessionTypes, rows

LEMMA FlushOthersTyped ==
    ASSUME RaceTyped, NEW r \in Slots, FlushVacancy(r) \/ FlushStage(r) \/ ListApplications(r)
    PROVE  RaceTyped'
<1>. DEFINE s == session[r]
            q == s.request
            v == q.vacancy
<1>1. s \in Session /\ s.pc # "idle" /\ q \in Requests /\ s.number > 0
  BY DEF RaceTyped, TypeOK, SessionsShaped, FlushVacancy, FlushStage, ListApplications, At
<1>2. \A x \in s.tasks : x.name = "notify_stage_change" => q.op = "patch"
  BY DEF RaceTyped, SessionsShaped, Op
<1>. HIDE DEF s
<1>3. CASE FlushVacancy(r)
  <2>. DEFINE t == [s EXCEPT !.pc = "listing"]
              row == Merge(s.vacancy, WantedVacancy(s), vacancies[v])
  <2>1. q.op \in {"end", "deleteVacancy"} /\ Go(r, t)
    BY <1>3 DEF FlushVacancy, Op, s
  <2>2. v \in Vacancies /\ (q.op = "end" => q.body \in VacancyPatchBody)
    BY <1>1, <2>1, RequestTypes
  <2>3. s.vacancy \in Vacancy /\ vacancies[v] \in Vacancy
    BY <1>1, <2>2 DEF Session, RaceTyped, TypeOK
  <2>4. WantedVacancy(s) \in Vacancy
    <3>1. CASE q.op = "end"
      <4>1. PatchedVacancy(s.vacancy, q.body) \in Vacancy
        BY <2>2, <2>3, <3>1, WantedVacancyType
      <4>. QED BY <3>1, <4>1 DEF WantedVacancy
    <3>2. CASE q.op # "end"
      <4>1. [s.vacancy EXCEPT !.row = "inactive"] \in Vacancy
        BY <2>3 DEF Vacancy, RowState
      <4>. QED BY <3>2, <4>1 DEF WantedVacancy
    <3>. QED BY <3>1, <3>2
  <2>5. row \in Vacancy
    BY <2>3, <2>4, MergedVacancy
  <2>6. \/ newVacancy' = newVacancy
        \/ newVacancy' = [newVacancy EXCEPT ![v] = [by |-> r, row |-> row]]
    BY <1>3 DEF FlushVacancy, s
  <2>. HIDE DEF row
  <2>7. newVacancy' \in [Vacancies -> Draft(Vacancy)]
    <3>1. [by |-> r, row |-> row] \in Draft(Vacancy)
      BY <2>5 DEF Draft
    <3>2. newVacancy \in [Vacancies -> Draft(Vacancy)]
      BY DEF RaceTyped, TypeOK
    <3>. QED BY <2>6, <3>1, <3>2
  <2>8. t \in Session /\ t.pc = "listing" /\ t.request = q /\ t.number = s.number /\ t.tasks = s.tasks
    BY <1>1 DEF Session
  <2>. HIDE DEF t
  <2>9. SessionTypes'
    BY <1>1, <1>2, <2>1, <2>8, OneSession DEF RaceTyped, TypeOK, SessionTypes
  <2>. QED
    BY <1>3, <2>7, <2>9 DEF FlushVacancy, UnchangedRest, RaceTyped, TypeOK, SessionTypes,
       JobsShaped, rows
<1>4. CASE FlushStage(r)
  <2>. DEFINE t == [s EXCEPT !.pc = "flushed"]
              row == [stages[q.stage] EXCEPT !.row = "inactive"]
  <2>1. q.op = "deleteStage" /\ Go(r, t)
    BY <1>4 DEF FlushStage, Op, s
  <2>2. q.stage \in Stages
    BY <1>1, <2>1, RequestTypes
  <2>3. row \in ProcessStage
    BY <2>2 DEF RaceTyped, TypeOK, ProcessStage, RowState
  <2>4. newStage' = [newStage EXCEPT ![q.stage] = [by |-> r, row |-> row]]
    BY <1>4 DEF FlushStage, s
  <2>. HIDE DEF row
  <2>5. newStage' \in [Stages -> Draft(ProcessStage)]
    BY <2>2, <2>3, <2>4 DEF RaceTyped, TypeOK, Draft
  <2>6. t \in Session /\ t.pc = "flushed" /\ t.request = q /\ t.number = s.number /\ t.tasks = s.tasks
    BY <1>1 DEF Session
  <2>. HIDE DEF t
  <2>7. SessionTypes'
    BY <1>1, <1>2, <2>1, <2>6, OneSession DEF RaceTyped, TypeOK, SessionTypes
  <2>. QED
    BY <1>4, <2>5, <2>7 DEF FlushStage, UnchangedRest, RaceTyped, TypeOK, SessionTypes,
       JobsShaped, rows
<1>5. CASE ListApplications(r)
  <2>. DEFINE t == [s EXCEPT !.pc = "rejecting", !.listed = applications[v],
                             !.left = {c \in Candidates : AutoRejectable(applications[v][c])}]
  <2>1. q.op \in {"end", "deleteVacancy"} /\ Go(r, t)
    BY <1>5 DEF ListApplications, RaceTyped, SessionsShaped, At, Op, s
  <2>2. applications[v] \in [Candidates -> Application]
    BY <1>1, <2>1, RequestTypes DEF RaceTyped, TypeOK
  <2>3. t \in Session /\ t.pc = "rejecting" /\ t.request = q /\ t.number = s.number /\ t.tasks = s.tasks
    BY <1>1, <2>2 DEF Session
  <2>. HIDE DEF t
  <2>4. SessionTypes'
    BY <1>1, <1>2, <2>1, <2>3, OneSession DEF RaceTyped, TypeOK, SessionTypes
  <2>. QED
    BY <1>5, <2>4 DEF ListApplications, UnchangedRest, RaceTyped, TypeOK, SessionTypes,
       JobsShaped, rows, drafts
<1>. QED BY <1>3, <1>4, <1>5

LEMMA RejectListedTyped ==
    ASSUME RaceTyped, NEW r \in Slots, NEW c \in Candidates, RejectListed(r, c)
    PROVE  RaceTyped'
<1>. DEFINE s == session[r]
            q == s.request
            v == q.vacancy
            notice == Board!ApplicationTask("notify_rejection", v, c)
            t == [s EXCEPT !.left = @ \ {c}, !.tasks = @ \cup {notice}]
            wanted == RejectedRow(s.listed[c], EndReason(q))
            row == Merge(s.listed[c], wanted, applications[v][c])
<1>1. /\ s \in Session /\ s.pc = "rejecting" /\ q \in Requests /\ s.number > 0
      /\ q.op \in {"end", "deleteVacancy"}
      /\ \A x \in s.tasks : x.name = "notify_stage_change" => q.op = "patch"
  BY DEF RaceTyped, TypeOK, SessionsShaped, RejectListed, At, Op
<1>2. v \in Vacancies
  BY <1>1, RequestTypes
<1>3. s.listed[c] \in Application /\ applications[v][c] \in Application
  BY <1>1, <1>2 DEF Session, RaceTyped, TypeOK
<1>4. wanted \in Application
  <2>1. EndReason(q) \in Reason
    BY DEF EndReason, AutoRejectReason, Reason
  <2>. QED BY <1>3, <2>1 DEF RejectedRow, Application, ApplicationStatus
<1>5. row \in Application
  BY <1>3, <1>4, MergeType
<1>6. /\ newApplication' = [newApplication EXCEPT ![v][c] = [by |-> r, row |-> row]]
      /\ Go(r, t)
      /\ UNCHANGED <<rows, newVacancy, newStage, queue, mails, tasks, sent, failures>>
  BY DEF RejectListed, UnchangedRest
<1>7. notice \in Board!Task /\ notice.name = "notify_rejection"
  BY <1>2 DEF Board!ApplicationTask, Board!Task
<1>. HIDE DEF s, notice, row
<1>8. newApplication' \in [Vacancies -> [Candidates -> Draft(Application)]]
  BY <1>2, <1>5, <1>6 DEF RaceTyped, TypeOK, Draft
<1>9. /\ t \in Session /\ t.pc = "rejecting" /\ t.request = q /\ t.number = s.number
      /\ t.tasks = s.tasks \cup {notice}
  BY <1>1, <1>7 DEF Session
<1>. HIDE DEF t
<1>10. SessionTypes'
  BY <1>1, <1>6, <1>7, <1>9, OneSession DEF RaceTyped, TypeOK, SessionTypes
<1>. QED
  BY <1>6, <1>8, <1>10 DEF RaceTyped, TypeOK, SessionTypes, JobsShaped, rows

LEMMA EnqueueNoticesTyped ==
    ASSUME RaceTyped, NEW r \in Slots, EnqueueNotices(r)
    PROVE  RaceTyped'
<1>. DEFINE s == session[r]
            t == [s EXCEPT !.pc = "flushed"]
<1>1. /\ s \in Session /\ s.pc = "rejecting" /\ s.request \in Requests /\ s.number > 0
      /\ s.request.op \in {"end", "deleteVacancy"}
      /\ \A x \in s.tasks : x.name = "notify_stage_change" => s.request.op = "patch"
  BY DEF RaceTyped, TypeOK, SessionsShaped, EnqueueNotices, At, Op
<1>2. /\ Enqueue(s.tasks, NULL, s.number) /\ Go(r, t)
      /\ UNCHANGED <<rows, drafts, mails, tasks, sent, failures>>
  BY DEF EnqueueNotices, UnchangedRest
<1>. HIDE DEF s
<1>3. queue' \subseteq Job /\ JobsShaped'
  <2>1. s.tasks \in SUBSET Board!Task /\ s.number \in 0..MaxRequests
    BY <1>1 DEF Session
  <2>. QED
    BY <1>1, <1>2, <2>1, EnqueueTyped DEF RaceTyped, TypeOK
<1>4. t \in Session /\ t.pc = "flushed" /\ t.request = s.request /\ t.number = s.number /\ t.tasks = s.tasks
  BY <1>1 DEF Session
<1>. HIDE DEF t
<1>5. SessionTypes'
  BY <1>1, <1>2, <1>4, OneSession DEF RaceTyped, TypeOK, SessionTypes
<1>. QED
  BY <1>2, <1>3, <1>5 DEF RaceTyped, TypeOK, SessionTypes, rows, drafts

\* The end of a transaction, row by row.
LEMMA SettledRows ==
    ASSUME TypeOK, NEW r \in Slots, NEW keep \in BOOLEAN, Settle(r, keep)
    PROVE  /\ vacancies' \in [Vacancies -> Vacancy]
           /\ applications' \in [Vacancies -> [Candidates -> Application]]
           /\ stages' \in [Stages -> ProcessStage]
           /\ newVacancy' \in [Vacancies -> Draft(Vacancy)]
           /\ newApplication' \in [Vacancies -> [Candidates -> Draft(Application)]]
           /\ newStage' \in [Stages -> Draft(ProcessStage)]
           /\ \A v \in Vacancies :
                 /\ vacancies'[v] = IF keep /\ newVacancy[v].by = r THEN newVacancy[v].row
                                                                   ELSE vacancies[v]
                 /\ newVacancy'[v] = IF newVacancy[v].by = r THEN NoDraft(NoVacancy)
                                                            ELSE newVacancy[v]
           /\ \A v \in Vacancies, c \in Candidates :
                 /\ applications'[v][c] =
                       IF keep /\ newApplication[v][c].by = r THEN newApplication[v][c].row
                                                              ELSE applications[v][c]
                 /\ newApplication'[v][c] =
                       IF newApplication[v][c].by = r THEN NoDraft(NoApplication)
                                                      ELSE newApplication[v][c]
           /\ \A s \in Stages :
                 /\ stages'[s] = IF keep /\ newStage[s].by = r THEN newStage[s].row ELSE stages[s]
                 /\ newStage'[s] = IF newStage[s].by = r THEN NoDraft(NoStage) ELSE newStage[s]
<1>1. /\ NoDraft(NoVacancy) \in Draft(Vacancy)
      /\ NoDraft(NoApplication) \in Draft(Application)
      /\ NoDraft(NoStage) \in Draft(ProcessStage)
  BY NoRows DEF NoDraft, Draft
<1>2. /\ \A v \in Vacancies : newVacancy[v] \in Draft(Vacancy) /\ newVacancy[v].row \in Vacancy
      /\ \A v \in Vacancies, c \in Candidates :
            newApplication[v][c] \in Draft(Application) /\ newApplication[v][c].row \in Application
      /\ \A s \in Stages : newStage[s] \in Draft(ProcessStage) /\ newStage[s].row \in ProcessStage
  BY DEF TypeOK, Draft
<1>3. /\ vacancies' \in [Vacancies -> Vacancy]
      /\ newVacancy' \in [Vacancies -> Draft(Vacancy)]
  BY <1>1, <1>2 DEF Settle, Released, TypeOK
<1>4. /\ applications' \in [Vacancies -> [Candidates -> Application]]
      /\ newApplication' \in [Vacancies -> [Candidates -> Draft(Application)]]
  BY <1>1, <1>2 DEF Settle, Released, TypeOK
<1>5. /\ stages' \in [Stages -> ProcessStage]
      /\ newStage' \in [Stages -> Draft(ProcessStage)]
  BY <1>1, <1>2 DEF Settle, Released, TypeOK
<1>6. /\ \A v \in Vacancies :
            /\ vacancies'[v] = IF keep /\ newVacancy[v].by = r THEN newVacancy[v].row
                                                              ELSE vacancies[v]
            /\ newVacancy'[v] = IF newVacancy[v].by = r THEN NoDraft(NoVacancy)
                                                       ELSE newVacancy[v]
      /\ \A v \in Vacancies, c \in Candidates :
            /\ applications'[v][c] =
                  IF keep /\ newApplication[v][c].by = r THEN newApplication[v][c].row
                                                         ELSE applications[v][c]
            /\ newApplication'[v][c] =
                  IF newApplication[v][c].by = r THEN NoDraft(NoApplication)
                                                 ELSE newApplication[v][c]
      /\ \A s \in Stages :
            /\ stages'[s] = IF keep /\ newStage[s].by = r THEN newStage[s].row ELSE stages[s]
            /\ newStage'[s] = IF newStage[s].by = r THEN NoDraft(NoStage) ELSE newStage[s]
  BY DEF Settle, Released
<1>. QED BY <1>3, <1>4, <1>5, <1>6

LEMMA SettleTyped ==
    ASSUME RaceTyped, NEW r \in Slots, Commit(r) \/ Fail(r)
    PROVE  RaceTyped'
<1>1. PICK keep \in BOOLEAN : Settle(r, keep)
  BY DEF Commit, Fail
<1>2. Go(r, Idle)
  BY <1>1 DEF Settle
<1>3. SessionTypes'
  BY <1>2, OneSession, IdleType DEF RaceTyped, TypeOK, SessionTypes
<1>4. /\ UNCHANGED <<queue, mails, sent>>
      /\ tasks' \in {tasks, session[r].tasks}
      /\ failures' \in 0..MaxFailures
  <2>1. failures \in 0..MaxFailures /\ MaxFailures \in Nat
    BY RaceAssumption DEF RaceTyped, TypeOK
  <2>2. CASE Commit(r)
    BY <2>1, <2>2 DEF Commit
  <2>3. CASE Fail(r)
    BY <2>1, <2>3 DEF Fail
  <2>. QED BY <2>2, <2>3
<1>5. tasks' \subseteq Board!Task
  BY <1>4 DEF RaceTyped, TypeOK, Session
<1>. QED
  BY <1>1, <1>3, <1>4, <1>5, SettledRows DEF RaceTyped, TypeOK, SessionTypes, JobsShaped

LEMMA RunJobTyped ==
    ASSUME RaceTyped, NEW j \in queue, RunJob(j)
    PROVE  RaceTyped'
<1>. DEFINE v == j.task.vacancy
            c == j.task.candidate
<1>1. j \in Job /\ j.task \in Board!Task /\ j.by \in 1..MaxRequests
  BY DEF RaceTyped, TypeOK, Job
<1>2. v \in Vacancies /\ c \in Candidates
  BY <1>1 DEF Board!Task
<1>3. applications[v][c].reason \in Reason
  BY <1>2 DEF RaceTyped, TypeOK, Application
<1>4. Told(j) \subseteq Mail
  BY <1>1, <1>3 DEF Told, Mail, RaceTyped, JobsShaped
<1>5. mails' \in [Vacancies -> [Candidates -> SUBSET Mail]]
  <2>1. mails' = [mails EXCEPT ![v][c] = IF IsActive(applications[v][c]) THEN @ \cup Told(j) ELSE @]
    BY DEF RunJob
  <2>2. mails \in [Vacancies -> [Candidates -> SUBSET Mail]]
    BY DEF RaceTyped, TypeOK
  <2>. QED BY <1>2, <1>4, <2>1, <2>2
<1>. QED
  BY <1>5 DEF RunJob, RaceTyped, TypeOK, SessionsShaped, JobsShaped, At, Op, rows, drafts

LEMMA InitTyped == Init => RaceTyped
<1> SUFFICES ASSUME Init PROVE RaceTyped
  OBVIOUS
<1>1. vacancies \in [Vacancies -> Vacancy]
  <2>1. \A p \in Processes, n \in 1..MaxOpenings :
           [row |-> "active", status |-> "active", process |-> p, openings |-> n] \in Vacancy
    BY DEF Vacancy, RowState, VacancyStatus
  <2>. QED BY <2>1 DEF Init
<1>2. stages \in [Stages -> ProcessStage]
  <2>1. \A s \in Stages : (StageRole[s] = "final") \in BOOLEAN
    OBVIOUS
  <2>. QED BY <2>1 DEF Init, ProcessStage, RowState
<1>3. applications \in [Vacancies -> [Candidates -> Application]]
  <2>1. PICK early \in SUBSET Candidates :
           applications = [v \in Vacancies |-> [c \in Candidates |->
               IF c \in early
               THEN InsertedRow("active", FirstStage(stages, vacancies[v].process), FALSE)
               ELSE NoApplication]]
    BY DEF Init
  <2>2. \A v \in Vacancies : FirstStage(stages, vacancies[v].process) \in Stages \cup {NULL}
    BY FirstStageFact DEF ActiveStagesOf
  <2>3. \A v \in Vacancies :
           InsertedRow("active", FirstStage(stages, vacancies[v].process), FALSE) \in Application
    BY <2>2, NoRows, ApplyTypes DEF PlaceStatus
  <2>. QED BY <2>1, <2>3, NoRows
<1>4. /\ newVacancy \in [Vacancies -> Draft(Vacancy)]
      /\ newApplication \in [Vacancies -> [Candidates -> Draft(Application)]]
      /\ newStage \in [Stages -> Draft(ProcessStage)]
  BY NoRows DEF Init, NoDraft, Draft
<1>5. session \in [Slots -> Session] /\ SessionsShaped
  BY IdleType DEF Init, SessionsShaped, At
<1>6. /\ queue \subseteq Job /\ JobsShaped
      /\ mails \in [Vacancies -> [Candidates -> SUBSET Mail]]
      /\ tasks \subseteq Board!Task /\ sent \in 0..MaxRequests /\ failures \in 0..MaxFailures
  BY RaceAssumption DEF Init, JobsShaped
<1>. QED BY <1>1, <1>2, <1>3, <1>4, <1>5, <1>6 DEF RaceTyped, TypeOK

LEMMA NextTyped == RaceTyped /\ [Next]_vars => RaceTyped'
<1> SUFFICES ASSUME RaceTyped, [Next]_vars PROVE RaceTyped'
  OBVIOUS
<1>1. CASE UNCHANGED vars
  BY <1>1 DEF RaceTyped, TypeOK, SessionsShaped, JobsShaped, At, Op, vars, rows, drafts
<1>2. CASE \E r \in Slots : Arrive(r)
  BY <1>2, ArriveTyped
<1>3. CASE \E r \in Slots : Proceed(r)
  BY <1>3, ChecksTyped, FlushApplicationTyped, FlushOthersTyped, RejectListedTyped,
     EnqueueNoticesTyped, SettleTyped DEF Proceed
<1>4. CASE \E r \in Slots : Fail(r)
  BY <1>4, SettleTyped
<1>5. CASE \E j \in queue : RunJob(j)
  BY <1>5, RunJobTyped
<1>. QED BY <1>1, <1>2, <1>3, <1>4, <1>5 DEF Next

\* Rows, drafts, sessions, jobs and mails are what they are declared to be,
\* however many sessions interleave (applications_service.py,
\* vacancies_service.py).
THEOREM RacesTypeCorrect == Spec => []TypeOK
<1>1. Spec => []RaceTyped
  BY InitTyped, NextTyped, PTL DEF Spec
<1>2. RaceTyped => TypeOK
  BY DEF RaceTyped
<1>. QED BY <1>1, <1>2, PTL

-----------------------------------------------------------------------------
(* Locks: what the uncommitted version of a card may hold                  *)

\* The columns that only a move, a rejection, a withdrawal or a return writes.
Outcome == {"row", "stage", "rejectedAt", "status"}

\* A PATCH that names neither a column nor a status.
SmallPatch(q) == q.op = "patch" /\ q.body.stage = Unset /\ q.body.status = Unset

\* What a request that passed its guards is about to write.
WantedOK(s) ==
    /\ s.request.op = "patch" => s.wanted.row = s.application.row
    /\ s.request.op = "withdraw" => s.wanted.row = "inactive"
    /\ SmallPatch(s.request) => \A f \in Outcome : s.wanted[f] = s.application[f]

WantedFair == \A r \in Slots : At(r, "checked") => WantedOK(session[r])

Writes(s) ==
    \/ s.pc = "flushed" /\ s.request.op \in {"patch", "apply", "withdraw"}
    \/ s.pc \in {"rejecting", "flushed"} /\ s.request.op \in {"end", "deleteVacancy"}

\* An uncommitted version belongs to a session between its flush and its end,
\* and is still to be compared with the committed row it was made from.
DraftOK(s, draft, current) ==
    /\ Writes(s)
    /\ s.request.op # "apply" => draft.row \in {current.row, "inactive"}
    /\ SmallPatch(s.request) => \A f \in Outcome : draft[f] = current[f]

DraftsOwned ==
    \A v \in Vacancies, c \in Candidates :
        newApplication[v][c].by # NULL =>
            DraftOK(session[newApplication[v][c].by], newApplication[v][c].row,
                    applications[v][c])

LockInv == RaceTyped /\ WantedFair /\ DraftsOwned

\* A session that has flushed no card moves on, or one that has goes on writing.
LEMMA SessionMoves ==
    ASSUME LockInv, NEW r \in Slots, NEW s, Go(r, s), UNCHANGED <<applications, newApplication>>,
           s.pc = "checked" => WantedOK(s),
           Writes(session[r]) => Writes(s) /\ s.request = session[r].request
    PROVE  WantedFair' /\ DraftsOwned'
<1>1. session'[r] = s /\ \A k \in Slots : k # r => session'[k] = session[k]
  BY DEF LockInv, RaceTyped, TypeOK, Go
<1>2. WantedFair'
  <2>1. ASSUME NEW k \in Slots, session'[k].pc = "checked"
        PROVE  WantedOK(session'[k])
    BY <1>1, <2>1 DEF LockInv, WantedFair, At
  <2>. QED BY <2>1 DEF WantedFair, At, WantedOK, SmallPatch
<1>3. DraftsOwned'
  <2>1. ASSUME NEW v \in Vacancies, NEW c \in Candidates, newApplication[v][c].by # NULL
        PROVE  DraftOK(session'[newApplication[v][c].by], newApplication[v][c].row,
                       applications[v][c])
    <3>1. newApplication[v][c].by \in Slots
      BY <2>1 DEF LockInv, RaceTyped, TypeOK, Draft
    <3>2. DraftOK(session[newApplication[v][c].by], newApplication[v][c].row, applications[v][c])
      BY <2>1 DEF LockInv, DraftsOwned
    <3>. QED BY <1>1, <3>1, <3>2 DEF DraftOK
  <2>. QED BY <2>1 DEF DraftsOwned, DraftOK, Writes, SmallPatch
<1>. QED BY <1>2, <1>3

LEMMA ArriveLocks ==
    ASSUME LockInv, NEW r \in Slots, Arrive(r)
    PROVE  WantedFair' /\ DraftsOwned'
<1>0. PICK q \in Requests : \E vac, app : Begin(r, q, vac, app)
  BY DEF Arrive, ReadApplication, ReadOpenVacancy, ReadVacancy, ReadStage
<1>1. PICK vac, app : Begin(r, q, vac, app)
  BY <1>0
<1>. DEFINE s == [Idle EXCEPT !.pc = "read", !.request = q, !.number = sent + 1,
                              !.vacancy = vac, !.application = app]
<1>2. s.pc = "read"
  BY DEF Idle
<1>3. ~Writes(session[r])
  BY <1>1 DEF Begin, At, Writes
<1>4. Go(r, s) /\ UNCHANGED <<applications, newApplication>>
  BY <1>1 DEF Begin, rows, drafts
<1>. HIDE DEF s
<1>. QED BY <1>2, <1>3, <1>4, SessionMoves

LEMMA GuardLocks ==
    ASSUME LockInv, NEW r \in Slots, session[r].pc \in {"read", "checked"},
           NEW accepted, NEW s, ElseRefuse(r, accepted, s),
           accepted => (s.pc = "checked" => WantedOK(s))
    PROVE  WantedFair' /\ DraftsOwned'
<1>1. ~Writes(session[r])
  BY DEF Writes
<1>2. UNCHANGED <<applications, newApplication>>
  BY DEF ElseRefuse, rows, drafts
<1>3. CASE accepted
  BY <1>1, <1>2, <1>3, SessionMoves DEF ElseRefuse
<1>4. CASE ~accepted
  <2>1. Go(r, Idle) /\ Idle.pc # "checked"
    BY <1>4, IdleType DEF ElseRefuse
  <2>. QED BY <1>1, <1>2, <2>1, SessionMoves
<1>. QED BY <1>3, <1>4

LEMMA ChecksLocks ==
    ASSUME LockInv, NEW r \in Slots,
           \/ CheckPatch(r) \/ CheckApply(r) \/ CheckWithdraw(r) \/ RefuseInsert(r)
           \/ CheckVacancy(r) \/ CheckStage(r)
    PROVE  WantedFair' /\ DraftsOwned'
<1>. DEFINE s == session[r]
            q == s.request
<1>1. s \in Session /\ (s.pc # "idle" => q \in Requests)
  BY DEF LockInv, RaceTyped, TypeOK, SessionsShaped, At
<1>2. s.application \in Application
  BY <1>1 DEF Session
<1>. HIDE DEF s
<1>3. CASE CheckPatch(r)
  <2>. DEFINE accepted == /\ IsActive(applications[q.vacancy][q.candidate])
                          /\ PatchAccepted(q.vacancy, s.application, q.body)
              w == IF accepted THEN TransitionRow(s.application, q.body) ELSE s.application
              t == [s EXCEPT !.pc = "checked", !.wanted = w]
  <2>1. s.pc = "read" /\ q.op = "patch"
    BY <1>3 DEF CheckPatch, At, Op, s
  <2>2. q.body \in PatchBody
    BY <1>1, <2>1, RequestTypes
  <2>3. ElseRefuse(r, accepted, t)
    BY <1>3 DEF CheckPatch, s
  <2>4. accepted => WantedOK(t)
    <3> SUFFICES ASSUME accepted PROVE WantedOK(t)
      OBVIOUS
    <3>1. w.row = s.application.row
      BY <1>2, <2>2, BoardAssumption
         DEF TransitionRow, PatchBody, PatchedRow, RejectedRow, RejectedAgainRow, HiredRow,
             MovedRow, Application
    <3>2. ASSUME q.body.stage = Unset, q.body.status = Unset
          PROVE  \A f \in Outcome : w[f] = s.application[f]
      <4>1. w = PatchedRow(s.application, q.body)
        BY <3>2, BoardAssumption DEF TransitionRow
      <4>. HIDE DEF w
      <4>. QED
        BY <1>2, <3>2, <4>1 DEF PatchedRow, OrKeep, Outcome, Application
    <3>. HIDE DEF w
    <3>3. t.request = q /\ t.wanted = w /\ t.application = s.application
      BY <1>1 DEF Session
    <3>. QED BY <2>1, <3>1, <3>2, <3>3 DEF WantedOK, SmallPatch
  <2>. HIDE DEF accepted, t
  <2>. QED BY <2>1, <2>3, <2>4, GuardLocks DEF s
<1>4. CASE CheckWithdraw(r)
  <2>. DEFINE w == [s.application EXCEPT !.row = "inactive"]
              t == [s EXCEPT !.pc = "checked", !.wanted = w]
  <2>1. s.pc = "read" /\ q.op = "withdraw" /\ ElseRefuse(r, TRUE, t)
    BY <1>4 DEF CheckWithdraw, At, Op, s
  <2>2. w.row = "inactive"
    BY <1>2 DEF Application
  <2>. HIDE DEF w
  <2>3. t.request = q /\ t.wanted = w
    BY <1>1 DEF Session
  <2>4. WantedOK(t)
    BY <2>1, <2>2, <2>3 DEF WantedOK, SmallPatch
  <2>. HIDE DEF t
  <2>. QED BY <2>1, <2>4, GuardLocks DEF s
<1>5. CASE CheckApply(r) \/ CheckVacancy(r) \/ CheckStage(r) \/ RefuseInsert(r)
  <2>1. PICK accepted, t :
           /\ ElseRefuse(r, accepted, t)
           /\ accepted => t.request = q
    <3>1. CASE CheckApply(r)
      <4>. DEFINE existing == applications[q.vacancy][q.candidate]
                  w == IF existing.row = "absent"
                       THEN InsertedRow(q.status, FirstStage(stages, s.vacancy.process), FALSE)
                       ELSE ResurrectedRow(existing, q.status,
                                           FirstStage(stages, s.vacancy.process))
                  t == [s EXCEPT !.pc = "checked", !.application = existing, !.wanted = w]
      <4>1. ElseRefuse(r, ~IsActive(existing), t)
        BY <3>1 DEF CheckApply, s
      <4>2. t.request = q
        BY <1>1 DEF Session
      <4>. HIDE DEF t
      <4>. QED BY <4>1, <4>2
    <3>2. CASE CheckVacancy(r) \/ CheckStage(r)
      <4>. DEFINE t == [s EXCEPT !.pc = "checked"]
      <4>1. \E accepted : ElseRefuse(r, accepted, t)
        BY <3>2 DEF CheckVacancy, CheckStage, s
      <4>2. t.request = q
        BY <1>1 DEF Session
      <4>. HIDE DEF t
      <4>. QED BY <4>1, <4>2
    <3>3. CASE RefuseInsert(r)
      BY <3>3 DEF RefuseInsert
    <3>. QED BY <1>5, <3>1, <3>2, <3>3
  <2>2. q.op \notin {"patch", "withdraw"} /\ session[r].pc \in {"read", "checked"}
    BY <1>5 DEF CheckApply, CheckVacancy, CheckStage, RefuseInsert, At, Op, s
  <2>3. accepted => WantedOK(t)
    BY <2>1, <2>2 DEF WantedOK, SmallPatch
  <2>. QED BY <2>1, <2>2, <2>3, GuardLocks
<1>. QED BY <1>3, <1>4, <1>5

LEMMA FlushOthersLocks ==
    ASSUME LockInv, NEW r \in Slots,
           FlushVacancy(r) \/ FlushStage(r) \/ ListApplications(r) \/ EnqueueNotices(r)
    PROVE  WantedFair' /\ DraftsOwned'
<1>1. session[r] \in Session
  BY DEF LockInv, RaceTyped, TypeOK
<1>2. UNCHANGED <<applications, newApplication>>
  BY DEF FlushVacancy, FlushStage, ListApplications, EnqueueNotices, rows, drafts
<1>3. CASE FlushVacancy(r)
  <2>. DEFINE t == [session[r] EXCEPT !.pc = "listing"]
  <2>1. Go(r, t) /\ t.pc # "checked" /\ ~Writes(session[r])
    BY <1>1, <1>3 DEF FlushVacancy, At, Writes, Session
  <2>. HIDE DEF t
  <2>. QED BY <1>2, <2>1, SessionMoves
<1>4. CASE FlushStage(r)
  <2>. DEFINE t == [session[r] EXCEPT !.pc = "flushed"]
  <2>1. Go(r, t) /\ t.pc # "checked" /\ ~Writes(session[r])
    BY <1>1, <1>4 DEF FlushStage, At, Writes, Session
  <2>. HIDE DEF t
  <2>. QED BY <1>2, <2>1, SessionMoves
<1>5. CASE ListApplications(r)
  <2>1. PICK t : Go(r, t) /\ t.pc = "rejecting" /\ ~Writes(session[r])
    BY <1>1, <1>5 DEF ListApplications, At, Writes, Session
  <2>. QED BY <1>2, <2>1, SessionMoves
<1>6. CASE EnqueueNotices(r)
  <2>. DEFINE t == [session[r] EXCEPT !.pc = "flushed"]
  <2>1. /\ Go(r, t) /\ t.pc = "flushed" /\ t.request = session[r].request
        /\ session[r].request.op \in {"end", "deleteVacancy"}
    BY <1>1, <1>6 DEF EnqueueNotices, At, Op, Session, LockInv, RaceTyped, SessionsShaped
  <2>2. Writes(t)
    BY <2>1 DEF Writes
  <2>. HIDE DEF t
  <2>. QED BY <1>2, <2>1, <2>2, SessionMoves
<1>. QED BY <1>3, <1>4, <1>5, <1>6

\* A session writes the version of one card whose lock it has or gets.
LEMMA CardFlushed ==
    ASSUME LockInv, NEW r \in Slots, NEW v \in Vacancies, NEW c \in Candidates,
           NEW s, NEW row, Go(r, s), Free(newApplication[v][c], r),
           newApplication' = [newApplication EXCEPT ![v][c] = [by |-> r, row |-> row]],
           UNCHANGED applications, s.pc # "checked",
           Writes(session[r]) => Writes(s) /\ s.request = session[r].request,
           DraftOK(s, row, applications[v][c])
    PROVE  WantedFair' /\ DraftsOwned'
<1>1. session'[r] = s /\ \A k \in Slots : k # r => session'[k] = session[k]
  BY DEF LockInv, RaceTyped, TypeOK, Go
<1>2. WantedFair'
  <2>1. ASSUME NEW k \in Slots, session'[k].pc = "checked"
        PROVE  WantedOK(session'[k])
    BY <1>1, <2>1 DEF LockInv, WantedFair, At
  <2>. QED BY <2>1 DEF WantedFair, At, WantedOK, SmallPatch
<1>3. DraftsOwned'
  <2>1. ASSUME NEW w \in Vacancies, NEW d \in Candidates, newApplication'[w][d].by # NULL
        PROVE  DraftOK(session'[newApplication'[w][d].by], newApplication'[w][d].row,
                       applications'[w][d])
    <3>1. CASE w = v /\ d = c
      <4>1. newApplication'[w][d] = [by |-> r, row |-> row]
        BY <3>1 DEF LockInv, RaceTyped, TypeOK
      <4>. QED BY <1>1, <3>1, <4>1
    <3>2. CASE ~(w = v /\ d = c)
      <4>1. newApplication'[w][d] = newApplication[w][d]
        BY <3>2 DEF LockInv, RaceTyped, TypeOK
      <4>2. newApplication[w][d].by \in Slots
        BY <2>1, <4>1 DEF LockInv, RaceTyped, TypeOK, Draft
      <4>3. DraftOK(session[newApplication[w][d].by], newApplication[w][d].row,
                    applications[w][d])
        BY <2>1, <4>1 DEF LockInv, DraftsOwned
      <4>. QED BY <1>1, <4>1, <4>2, <4>3 DEF DraftOK
    <3>. QED BY <3>1, <3>2
  <2>. QED BY <2>1 DEF DraftsOwned, DraftOK, Writes, SmallPatch
<1>. QED BY <1>2, <1>3

LEMMA FlushApplicationLocks ==
    ASSUME LockInv, NEW r \in Slots, FlushApplication(r)
    PROVE  WantedFair' /\ DraftsOwned'
<1>. DEFINE s == session[r]
            q == s.request
            card == applications[q.vacancy][q.candidate]
            row == Merge(s.application, s.wanted, card)
            t == [s EXCEPT !.pc = "flushed", !.tasks = HandlerTasks(q, s.application, row)]
<1>1. /\ s \in Session /\ s.pc = "checked" /\ q.op \in {"patch", "apply", "withdraw"}
      /\ q \in Requests
  BY DEF LockInv, RaceTyped, TypeOK, SessionsShaped, FlushApplication, At, Op
<1>2. q.vacancy \in Vacancies /\ q.candidate \in Candidates
  BY <1>1, RequestTypes
<1>3. s.application \in Application /\ s.wanted \in Application /\ card \in Application
  BY <1>1, <1>2 DEF Session, LockInv, RaceTyped, TypeOK
<1>4. /\ newApplication' = [newApplication EXCEPT ![q.vacancy][q.candidate] = [by |-> r, row |-> row]]
      /\ Free(newApplication[q.vacancy][q.candidate], r)
      /\ Go(r, t) /\ UNCHANGED applications
  BY DEF FlushApplication, rows
<1>5. \A f \in Columns : row[f] = IF s.wanted[f] # s.application[f] THEN s.wanted[f] ELSE card[f]
  BY <1>3, MergedColumn
<1>6. WantedOK(s)
  BY <1>1 DEF LockInv, WantedFair, At
<1>. HIDE DEF row
<1>7. t.pc = "flushed" /\ t.request = q
  BY <1>1 DEF Session
<1>. HIDE DEF t
<1>8. DraftOK(t, row, card)
  <2>1. q.op # "apply" => row.row \in {card.row, "inactive"}
    BY <1>1, <1>5, <1>6 DEF WantedOK, Columns
  <2>2. SmallPatch(q) => \A f \in Outcome : row[f] = card[f]
    BY <1>5, <1>6 DEF WantedOK, Columns, Outcome
  <2>. QED BY <1>1, <1>7, <2>1, <2>2 DEF DraftOK, Writes
<1>9. ~Writes(s)
  BY <1>1 DEF Writes
<1>. QED BY <1>2, <1>4, <1>7, <1>8, <1>9, CardFlushed

LEMMA RejectListedLocks ==
    ASSUME LockInv, NEW r \in Slots, NEW c \in Candidates, RejectListed(r, c)
    PROVE  WantedFair' /\ DraftsOwned'
<1>. DEFINE s == session[r]
            q == s.request
            v == q.vacancy
            wanted == RejectedRow(s.listed[c], EndReason(q))
            row == Merge(s.listed[c], wanted, applications[v][c])
            t == [s EXCEPT !.left = @ \ {c},
                           !.tasks = @ \cup {Board!ApplicationTask("notify_rejection", v, c)}]
<1>1. /\ s \in Session /\ s.pc = "rejecting" /\ q.op \in {"end", "deleteVacancy"}
      /\ q \in Requests
  BY DEF LockInv, RaceTyped, TypeOK, SessionsShaped, RejectListed, At, Op
<1>2. v \in Vacancies
  BY <1>1, RequestTypes
<1>3. s.listed[c] \in Application /\ applications[v][c] \in Application
  BY <1>1, <1>2 DEF Session, LockInv, RaceTyped, TypeOK
<1>4. wanted \in Application /\ wanted.row = s.listed[c].row
  <2>1. EndReason(q) \in Reason
    BY DEF EndReason, AutoRejectReason, Reason
  <2>. QED BY <1>3, <2>1 DEF RejectedRow, Application, ApplicationStatus
<1>5. row.row = applications[v][c].row
  BY <1>3, <1>4, MergedColumn DEF Columns
<1>6. /\ newApplication' = [newApplication EXCEPT ![v][c] = [by |-> r, row |-> row]]
      /\ Free(newApplication[v][c], r)
      /\ Go(r, t) /\ UNCHANGED applications
  BY DEF RejectListed, rows
<1>. HIDE DEF row
<1>7. t.pc = "rejecting" /\ t.request = q
  BY <1>1 DEF Session
<1>. HIDE DEF t
<1>8. DraftOK(t, row, applications[v][c]) /\ Writes(t)
  BY <1>1, <1>5, <1>7 DEF DraftOK, Writes, SmallPatch
<1>. QED BY <1>2, <1>6, <1>7, <1>8, CardFlushed

LEMMA SettleLocks ==
    ASSUME LockInv, NEW r \in Slots, Commit(r) \/ Fail(r)
    PROVE  WantedFair' /\ DraftsOwned'
<1>1. PICK keep \in BOOLEAN : Settle(r, keep)
  BY DEF Commit, Fail
<1>2. session'[r] = Idle /\ \A k \in Slots : k # r => session'[k] = session[k]
  BY <1>1 DEF LockInv, RaceTyped, TypeOK, Settle, Go
<1>3. WantedFair'
  <2>1. ASSUME NEW k \in Slots, session'[k].pc = "checked"
        PROVE  WantedOK(session'[k])
    BY <1>2, <2>1, IdleType DEF LockInv, WantedFair, At
  <2>. QED BY <2>1 DEF WantedFair, At, WantedOK, SmallPatch
<1>4. DraftsOwned'
  <2>1. ASSUME NEW v \in Vacancies, NEW c \in Candidates, newApplication'[v][c].by # NULL
        PROVE  DraftOK(session'[newApplication'[v][c].by], newApplication'[v][c].row,
                       applications'[v][c])
    <3>1. /\ newApplication[v][c].by # r
          /\ newApplication'[v][c] = newApplication[v][c]
          /\ applications'[v][c] = applications[v][c]
      BY <1>1, <2>1, SettledRows DEF LockInv, RaceTyped, NoDraft
    <3>2. newApplication[v][c].by \in Slots
      BY <2>1, <3>1 DEF LockInv, RaceTyped, TypeOK, Draft
    <3>3. DraftOK(session[newApplication[v][c].by], newApplication[v][c].row, applications[v][c])
      BY <2>1, <3>1 DEF LockInv, DraftsOwned
    <3>. QED BY <1>2, <3>1, <3>2, <3>3
  <2>. QED BY <2>1 DEF DraftsOwned, DraftOK, Writes, SmallPatch
<1>. QED BY <1>3, <1>4

LEMMA InitLocks == Init => LockInv
<1> SUFFICES ASSUME Init PROVE LockInv
  OBVIOUS
<1>1. WantedFair
  BY IdleType DEF Init, WantedFair, At
<1>2. DraftsOwned
  BY DEF Init, DraftsOwned, NoDraft
<1>. QED BY <1>1, <1>2, InitTyped DEF LockInv

LEMMA NextLocks == LockInv /\ [Next]_vars => LockInv'
<1> SUFFICES ASSUME LockInv, [Next]_vars PROVE WantedFair' /\ DraftsOwned'
  BY NextTyped DEF LockInv
<1>1. CASE UNCHANGED <<session, applications, newApplication>>
  BY <1>1 DEF LockInv, WantedFair, DraftsOwned, DraftOK, Writes, WantedOK, SmallPatch, At
<1>2. CASE \E r \in Slots : Arrive(r)
  BY <1>2, ArriveLocks
<1>3. CASE \E r \in Slots : Proceed(r)
  BY <1>3, ChecksLocks, FlushApplicationLocks, FlushOthersLocks, RejectListedLocks,
     SettleLocks DEF Proceed
<1>4. CASE \E r \in Slots : Fail(r)
  BY <1>4, SettleLocks
<1>5. CASE \E j \in queue : RunJob(j)
  BY <1>1, <1>5 DEF RunJob, rows, drafts
<1>. QED
  BY <1>1, <1>2, <1>3, <1>4, <1>5 DEF Next, vars, rows, drafts

LEMMA LockInvariant == Spec => []LockInv
  BY InitLocks, NextLocks, PTL DEF Spec

\* Committed cards change only when a session commits the version it wrote.
LEMMA CardsChangeByCommit ==
    ASSUME TypeOK, [Next]_vars, NEW v \in Vacancies, NEW c \in Candidates,
           applications'[v][c] # applications[v][c]
    PROVE  \E r \in Slots :
              /\ Commit(r)
              /\ newApplication[v][c].by = r
              /\ applications'[v][c] = newApplication[v][c].row
<1>1. CASE \E r \in Slots : Arrive(r) \/ (Proceed(r) /\ ~Commit(r))
  <2>1. PICK r \in Slots : Arrive(r) \/ (Proceed(r) /\ ~Commit(r))
    BY <1>1
  <2>2. CASE Arrive(r)
    BY <2>2 DEF Arrive, ReadApplication, ReadOpenVacancy, ReadVacancy, ReadStage, Begin, rows
  <2>3. CASE CheckPatch(r) \/ CheckApply(r) \/ CheckWithdraw(r) \/ RefuseInsert(r)
                \/ CheckVacancy(r) \/ CheckStage(r)
    BY <2>3 DEF CheckPatch, CheckApply, CheckWithdraw, RefuseInsert, CheckVacancy, CheckStage,
                ElseRefuse, rows
  <2>4. CASE FlushApplication(r) \/ FlushVacancy(r) \/ FlushStage(r)
    BY <2>4 DEF FlushApplication, FlushVacancy, FlushStage, rows
  <2>5. CASE ListApplications(r) \/ EnqueueNotices(r) \/ \E d \in Candidates : RejectListed(r, d)
    BY <2>5 DEF ListApplications, EnqueueNotices, RejectListed, rows
  <2>. QED BY <2>1, <2>2, <2>3, <2>4, <2>5 DEF Proceed
<1>2. CASE \E r \in Slots : Commit(r)
  <2>1. PICK r \in Slots : Commit(r) /\ Settle(r, TRUE)
    BY <1>2 DEF Commit
  <2>2. applications'[v][c] = IF newApplication[v][c].by = r
                              THEN newApplication[v][c].row ELSE applications[v][c]
    BY <2>1 DEF Settle
  <2>. QED BY <2>1, <2>2
<1>3. CASE \E r \in Slots : Fail(r)
  <2>1. PICK r \in Slots : Settle(r, FALSE)
    BY <1>3 DEF Fail
  <2>2. applications'[v][c] = applications[v][c]
    BY <2>1 DEF Settle
  <2>. QED BY <2>2
<1>4. CASE UNCHANGED vars \/ \E j \in queue : RunJob(j)
  BY <1>4 DEF RunJob, vars, rows
<1>. QED BY <1>1, <1>2, <1>3, <1>4 DEF Next

LEMMA CommitIsCommitting ==
    ASSUME TypeOK, NEW r \in Slots, Commit(r)
    PROVE  Committing(r)
  BY IdleType DEF Commit, Settle, Go, Committing, At, TypeOK

\* Whoever withdrew stays withdrawn until they apply again, whatever was loaded
\* before the withdrawal (applications_service.py, update; auto_reject_for_vacancy).
THEOREM WithdrawalsStand == Spec => WithdrawnComesBackByApplying
<1>1. LockInv /\ [Next]_vars =>
         [\A v \in Vacancies, c \in Candidates :
             Card(v, c).row = "inactive" /\ IsActive(CardNext(v, c)) =>
                 \E r \in Slots : Committing(r) /\ Op(r) = "apply"]_vars
  <2> SUFFICES ASSUME LockInv, [Next]_vars, NEW v \in Vacancies, NEW c \in Candidates,
                      applications[v][c].row = "inactive", applications'[v][c].row = "active"
               PROVE  \E r \in Slots : Committing(r) /\ Op(r) = "apply"
    BY DEF Card, CardNext, IsActive
  <2>1. PICK r \in Slots : /\ Commit(r) /\ newApplication[v][c].by = r
                           /\ applications'[v][c] = newApplication[v][c].row
    BY CardsChangeByCommit DEF LockInv, RaceTyped
  <2>2. DraftOK(session[r], newApplication[v][c].row, applications[v][c])
    BY <2>1, RaceAssumption DEF LockInv, DraftsOwned
  <2>3. Op(r) = "apply"
    BY <2>1, <2>2 DEF DraftOK, Op
  <2>. QED BY <2>1, <2>3, CommitIsCommitting DEF LockInv, RaceTyped
<1>. QED BY <1>1, LockInvariant, PTL DEF Spec, WithdrawnComesBackByApplying

\* A PATCH of the sub-status or the reason leaves column and outcome as they are
\* when it commits, not as they were when it loaded the card
\* (shared/repository.py, update).
THEOREM SmallPatchesUndoNothing == Spec => UntouchedColumnsSurvive
<1>1. LockInv /\ [Next]_vars =>
         [\A r \in Slots :
             LET q == session[r].request
             IN  /\ Committing(r) /\ q.op = "patch"
                 /\ q.body.stage = Unset /\ q.body.status = Unset
                 => \A f \in {"row", "stage", "rejectedAt", "status"} :
                       CardNext(q.vacancy, q.candidate)[f] = Card(q.vacancy, q.candidate)[f]]_vars
  <2> SUFFICES ASSUME LockInv, [Next]_vars, NEW r \in Slots, Committing(r),
                      SmallPatch(session[r].request), NEW f \in Outcome
               PROVE  LET q == session[r].request
                      IN  applications'[q.vacancy][q.candidate][f] =
                             applications[q.vacancy][q.candidate][f]
    BY DEF Card, CardNext, SmallPatch, Outcome
  <2>. DEFINE v == session[r].request.vacancy
              c == session[r].request.candidate
  <2>1. v \in Vacancies /\ c \in Candidates
    BY RequestTypes DEF SmallPatch, Committing, At, LockInv, RaceTyped, SessionsShaped
  <2>. HIDE DEF v, c
  <2>2. CASE applications'[v][c] # applications[v][c]
    <3>1. PICK k \in Slots : /\ Commit(k) /\ newApplication[v][c].by = k
                             /\ applications'[v][c] = newApplication[v][c].row
      BY <2>1, <2>2, CardsChangeByCommit DEF LockInv, RaceTyped
    <3>2. k = r
      <4>1. \A i \in Slots : i # k => session'[i] = session[i]
        BY <3>1 DEF Commit, Settle, Go, LockInv, RaceTyped, TypeOK
      <4>. QED BY <4>1 DEF Committing, At
    <3>3. DraftOK(session[r], newApplication[v][c].row, applications[v][c])
      BY <2>1, <3>1, <3>2, RaceAssumption DEF LockInv, DraftsOwned
    <3>. QED BY <3>1, <3>3 DEF DraftOK, v, c
  <2>. QED BY <2>2 DEF v, c
<1>. QED BY <1>1, LockInvariant, PTL DEF Spec, UntouchedColumnsSurvive

-----------------------------------------------------------------------------
(* A published vacancy has a first column                                  *)

\* What a session that goes on takes with it: it neither changes its request
\* nor loads another vacancy, and it passes its guards once.
LEMMA SessionGoesOn ==
    ASSUME RaceTyped, NEW r \in Slots, Proceed(r) \/ Fail(r)
    PROVE  /\ \A k \in Slots : k # r => session'[k] = session[k]
           /\ \/ session'[r] = Idle
              \/ /\ session[r].pc # "idle"
                 /\ session'[r].request = session[r].request
                 /\ session'[r].vacancy = session[r].vacancy
                 /\ session'[r].pc \notin {"idle", "read"}
                 /\ session'[r].pc = "checked" => session[r].pc = "read"
<1>1. session \in [Slots -> Session] /\ session[r] \in Session
  BY DEF RaceTyped, TypeOK
<1>. DEFINE Onward(t) == /\ session[r].pc # "idle"
                         /\ t.request = session[r].request
                         /\ t.vacancy = session[r].vacancy
                         /\ t.pc \notin {"idle", "read"}
                         /\ t.pc = "checked" => session[r].pc = "read"
<1>2. SUFFICES \E t : Go(r, t) /\ (t = Idle \/ Onward(t))
  BY <1>1 DEF Go
<1>. DEFINE s == session[r]
            q == s.request
<1>3. CASE CheckPatch(r)
  <2>. DEFINE accepted == /\ IsActive(applications[q.vacancy][q.candidate])
                          /\ PatchAccepted(q.vacancy, s.application, q.body)
              w == IF accepted THEN TransitionRow(s.application, q.body) ELSE s.application
              t == [s EXCEPT !.pc = "checked", !.wanted = w]
  <2>1. s.pc = "read" /\ Go(r, IF accepted THEN t ELSE Idle)
    BY <1>3 DEF CheckPatch, ElseRefuse, At
  <2>. HIDE DEF accepted, w
  <2>2. Onward(t)
    BY <1>1, <2>1 DEF Session
  <2>. HIDE DEF t
  <2>. QED BY <2>1, <2>2
<1>4. CASE CheckApply(r)
  <2>. DEFINE existing == applications[q.vacancy][q.candidate]
              first == FirstStage(stages, s.vacancy.process)
              w == IF existing.row = "absent" THEN InsertedRow(q.status, first, FALSE)
                   ELSE ResurrectedRow(existing, q.status, first)
              t == [s EXCEPT !.pc = "checked", !.application = existing, !.wanted = w]
  <2>1. s.pc = "read" /\ Go(r, IF ~IsActive(existing) THEN t ELSE Idle)
    BY <1>4 DEF CheckApply, ElseRefuse, At
  <2>. HIDE DEF existing, w
  <2>2. Onward(t)
    BY <1>1, <2>1 DEF Session
  <2>. HIDE DEF t
  <2>. QED BY <2>1, <2>2
<1>5. CASE CheckWithdraw(r)
  <2>. DEFINE t == [s EXCEPT !.pc = "checked", !.wanted = [s.application EXCEPT !.row = "inactive"]]
  <2>1. s.pc = "read" /\ Go(r, t)
    BY <1>5 DEF CheckWithdraw, ElseRefuse, At
  <2>2. Onward(t)
    BY <1>1, <2>1 DEF Session
  <2>. HIDE DEF t
  <2>. QED BY <2>1, <2>2
<1>6. CASE CheckVacancy(r) \/ CheckStage(r)
  <2>. DEFINE t == [s EXCEPT !.pc = "checked"]
  <2>1. s.pc = "read" /\ (Go(r, t) \/ Go(r, Idle))
    BY <1>6 DEF CheckVacancy, CheckStage, ElseRefuse, At
  <2>2. Onward(t)
    BY <1>1, <2>1 DEF Session
  <2>. HIDE DEF t
  <2>. QED BY <2>1, <2>2
<1>7. CASE RefuseInsert(r) \/ Commit(r) \/ Fail(r)
  BY <1>7 DEF RefuseInsert, ElseRefuse, Commit, Fail, Settle
<1>8. CASE FlushApplication(r)
  <2>. DEFINE ts == HandlerTasks(q, s.application,
                       Merge(s.application, s.wanted, applications[q.vacancy][q.candidate]))
              t == [s EXCEPT !.pc = "flushed", !.tasks = ts]
  <2>1. s.pc = "checked" /\ Go(r, t)
    BY <1>8 DEF FlushApplication, At
  <2>. HIDE DEF ts
  <2>2. Onward(t)
    BY <1>1, <2>1 DEF Session
  <2>. HIDE DEF t
  <2>. QED BY <2>1, <2>2
<1>9. CASE FlushVacancy(r)
  <2>. DEFINE t == [s EXCEPT !.pc = "listing"]
  <2>1. s.pc = "checked" /\ Go(r, t)
    BY <1>9 DEF FlushVacancy, At
  <2>2. Onward(t)
    BY <1>1, <2>1 DEF Session
  <2>. HIDE DEF t
  <2>. QED BY <2>1, <2>2
<1>10. CASE ListApplications(r)
  <2>. DEFINE t == [s EXCEPT !.pc = "rejecting", !.listed = applications[q.vacancy],
                  !.left = {c \in Candidates : AutoRejectable(applications[q.vacancy][c])}]
  <2>1. s.pc = "listing" /\ Go(r, t)
    BY <1>10 DEF ListApplications, At
  <2>2. Onward(t)
    BY <1>1, <2>1 DEF Session
  <2>. HIDE DEF t
  <2>. QED BY <2>1, <2>2
<1>11. CASE \E c \in Candidates : RejectListed(r, c)
  <2>1. PICK c \in Candidates : RejectListed(r, c)
    BY <1>11
  <2>. DEFINE t == [s EXCEPT !.left = @ \ {c},
          !.tasks = @ \cup {Board!ApplicationTask("notify_rejection", q.vacancy, c)}]
  <2>2. s.pc = "rejecting" /\ Go(r, t)
    BY <2>1 DEF RejectListed, At
  <2>3. Onward(t)
    BY <1>1, <2>2 DEF Session
  <2>. HIDE DEF t
  <2>. QED BY <2>2, <2>3
<1>12. CASE EnqueueNotices(r) \/ FlushStage(r)
  <2>. DEFINE t == [s EXCEPT !.pc = "flushed"]
  <2>1. s.pc \in {"rejecting", "checked"} /\ Go(r, t)
    BY <1>12 DEF EnqueueNotices, FlushStage, At
  <2>2. Onward(t)
    BY <1>1, <2>1 DEF Session
  <2>. HIDE DEF t
  <2>. QED BY <2>1, <2>2
<1>. QED
  BY <1>3, <1>4, <1>5, <1>6, <1>7, <1>8, <1>9, <1>10, <1>11, <1>12 DEF Proceed

OpenOK(vac) == vac.process \in Processes

\* What the requests that matter for it have established.
HomeSession(s) ==
    /\ s.pc # "idle" /\ s.request.op = "deleteStage" => StageRole[s.request.stage] # "initial"
    /\ s.pc = "read" /\ s.request.op = "apply" => s.vacancy.process \in Processes
    /\ s.pc \in {"read", "checked"} /\ s.request.op = "end" =>
          /\ s.request.body.status \in {"closed", "cancelled"}
          /\ StatusChanges(s.vacancy, s.request.body)

HomeSessions == \A r \in Slots : HomeSession(session[r])

\* Whoever publishes a vacancy gives it a process, and ending it keeps one.
OpenVacancies ==
    \A v \in Vacancies :
        /\ OpenOK(vacancies[v])
        /\ newVacancy[v].by # NULL => OpenOK(newVacancy[v].row)

\* Postulantes is protected.
InitialStages ==
    \A s \in Stages :
        StageRole[s] = "initial" => stages[s].row = "active" /\ newStage[s].by = NULL

HomeInv == RaceTyped /\ HomeSessions /\ OpenVacancies /\ InitialStages

LEMMA FirstColumn ==
    ASSUME InitialStages, NEW p \in Processes
    PROVE  FirstStage(stages, p) \in Stages
<1>1. PICK s \in Stages : StageProcess[s] = p /\ StageRole[s] = "initial"
  BY BoardAssumption
<1>2. s \in ActiveStagesOf(stages, p)
  BY <1>1 DEF InitialStages, ActiveStagesOf
<1>. QED BY <1>2, FirstStageFact

LEMMA SessionsGoHome ==
    ASSUME HomeInv, NEW r \in Slots, Proceed(r) \/ Fail(r)
    PROVE  HomeSessions'
<1>1. ASSUME NEW k \in Slots
      PROVE  HomeSession(session'[k])
  <2>1. CASE k # r
    BY <2>1, SessionGoesOn DEF HomeInv, HomeSessions
  <2>2. CASE session'[r] = Idle /\ k = r
    BY <2>2, IdleType DEF HomeSession
  <2>3. CASE session'[r] # Idle /\ k = r
    <3>1. /\ session[r].pc # "idle"
          /\ session'[r].request = session[r].request
          /\ session'[r].vacancy = session[r].vacancy
          /\ session'[r].pc \notin {"idle", "read"}
          /\ session'[r].pc = "checked" => session[r].pc = "read"
      BY <2>3, SessionGoesOn DEF HomeInv
    <3>2. HomeSession(session[r])
      BY DEF HomeInv, HomeSessions
    <3>. QED BY <2>3, <3>1, <3>2 DEF HomeSession
  <2>. QED BY <2>1, <2>2, <2>3
<1>. QED BY <1>1 DEF HomeSessions, HomeSession, StatusChanges

LEMMA ArriveHome ==
    ASSUME HomeInv, NEW r \in Slots, Arrive(r)
    PROVE  HomeSessions' /\ OpenVacancies' /\ InitialStages'
<1>1. PICK q \in Requests :
         \/ ReadApplication(r, q) \/ ReadOpenVacancy(r, q) \/ ReadVacancy(r, q) \/ ReadStage(r, q)
  BY DEF Arrive
<1>2. PICK vac, app :
         /\ Begin(r, q, vac, app)
         /\ q.op \in {"apply", "end"} => vac = vacancies[q.vacancy]
  BY <1>1 DEF ReadApplication, ReadOpenVacancy, ReadVacancy, ReadStage
<1>. DEFINE s == [Idle EXCEPT !.pc = "read", !.request = q, !.number = sent + 1,
                              !.vacancy = vac, !.application = app]
<1>3. UNCHANGED <<vacancies, stages, newVacancy, newStage>> /\ Go(r, s)
  BY <1>2 DEF Begin, rows, drafts
<1>4. s.pc = "read" /\ s.request = q /\ s.vacancy = vac
  BY DEF Idle
<1>. HIDE DEF s
<1>5. HomeSession(s)
  <2>1. CASE q.op = "deleteStage"
    <3>1. ~Protected(stages, q.stage)
      BY <1>1, <2>1 DEF ReadApplication, ReadOpenVacancy, ReadVacancy, ReadStage
    <3>. QED BY <1>4, <2>1, <3>1 DEF HomeSession, Protected
  <2>2. CASE q.op = "apply"
    <3>1. vac.process \in Processes
      BY <1>2, <2>2, RequestTypes DEF HomeInv, OpenVacancies, OpenOK
    <3>. QED BY <1>4, <2>2, <3>1 DEF HomeSession
  <2>3. CASE q.op = "end"
    <3>1. /\ StatusChanges(vacancies[q.vacancy], q.body)
          /\ q.body.status \in {"closed", "cancelled"}
      BY <1>1, <2>3 DEF ReadApplication, ReadOpenVacancy, ReadVacancy, ReadStage
    <3>. QED BY <1>2, <1>4, <2>3, <3>1 DEF HomeSession
  <2>4. CASE q.op \notin {"deleteStage", "apply", "end"}
    BY <1>4, <2>4 DEF HomeSession
  <2>. QED BY <2>1, <2>2, <2>3, <2>4
<1>6. HomeSessions'
  <2>1. ASSUME NEW k \in Slots PROVE HomeSession(session'[k])
    BY <1>3, <1>5 DEF Go, HomeInv, HomeSessions, RaceTyped, TypeOK
  <2>. QED BY <2>1 DEF HomeSessions, HomeSession, StatusChanges
<1>. QED
  BY <1>3, <1>6 DEF HomeInv, OpenVacancies, InitialStages

LEMMA FlushVacancyHome ==
    ASSUME HomeInv, NEW r \in Slots, FlushVacancy(r)
    PROVE  OpenVacancies' /\ InitialStages'
<1>. DEFINE s == session[r]
            q == s.request
            v == q.vacancy
            wanted == WantedVacancy(s)
            row == Merge(s.vacancy, wanted, vacancies[v])
<1>1. /\ s \in Session /\ s.pc = "checked" /\ q \in Requests
      /\ q.op \in {"end", "deleteVacancy"}
  BY DEF HomeInv, RaceTyped, TypeOK, SessionsShaped, FlushVacancy, At, Op
<1>2. v \in Vacancies /\ (q.op = "end" => q.body \in VacancyPatchBody)
  BY <1>1, RequestTypes
<1>3. s.vacancy \in Vacancy /\ vacancies[v] \in Vacancy
  BY <1>1, <1>2 DEF Session, HomeInv, RaceTyped, TypeOK
<1>4. /\ newVacancy' \in {newVacancy, [newVacancy EXCEPT ![v] = [by |-> r, row |-> row]]}
      /\ UNCHANGED <<vacancies, stages, newStage>>
  BY DEF FlushVacancy, rows
<1>5. OpenOK(row)
  <2>1. CASE q.op = "end"
    <3>1. wanted = PatchedVacancy(s.vacancy, q.body)
      BY <2>1 DEF WantedVacancy
    <3>2. wanted \in Vacancy
      BY <1>2, <1>3, <2>1, <3>1, WantedVacancyType
    <3>3. q.body.process \in Processes \cup {Unset}
      BY <1>1, <1>2, <2>1, RaceAssumption DEF VacancyPatchBody
    <3>4. wanted.process \in Processes \cup {s.vacancy.process}
      BY <1>3, <3>1, <3>3 DEF PatchedVacancy, OrKeep, Vacancy
    <3>. HIDE DEF wanted
    <3>5. row.process \in Processes \cup {vacancies[v].process}
      BY <1>3, <3>2, <3>4, MergedVacancy DEF VacancyColumns
    <3>. QED BY <1>2, <3>5 DEF OpenOK, HomeInv, OpenVacancies
  <2>2. CASE q.op # "end"
    <3>1. wanted = [s.vacancy EXCEPT !.row = "inactive"]
      BY <2>2 DEF WantedVacancy
    <3>2. /\ wanted \in Vacancy /\ wanted.status = s.vacancy.status
          /\ wanted.process = s.vacancy.process
      BY <1>3, <3>1 DEF Vacancy, RowState
    <3>. HIDE DEF wanted
    <3>3. row.process = vacancies[v].process
      BY <1>3, <3>2, MergedVacancy DEF VacancyColumns
    <3>. QED BY <1>2, <3>3 DEF OpenOK, HomeInv, OpenVacancies
  <2>. QED BY <2>1, <2>2
<1>. HIDE DEF row
<1>6. OpenVacancies'
  <2>1. ASSUME NEW w \in Vacancies, newVacancy'[w].by # NULL
        PROVE  OpenOK(newVacancy'[w].row)
    <3>1. CASE newVacancy'[w] = newVacancy[w]
      BY <2>1, <3>1 DEF HomeInv, OpenVacancies
    <3>2. CASE newVacancy'[w] # newVacancy[w]
      <4>1. newVacancy' = [newVacancy EXCEPT ![v] = [by |-> r, row |-> row]]
        BY <1>4, <3>2
      <4>2. newVacancy'[w] = [by |-> r, row |-> row]
        BY <3>2, <4>1 DEF HomeInv, RaceTyped, TypeOK
      <4>. QED BY <1>5, <4>2
    <3>. QED BY <3>1, <3>2
  <2>. QED BY <1>4, <2>1 DEF HomeInv, OpenVacancies, OpenOK
<1>. QED BY <1>4, <1>6 DEF HomeInv, InitialStages

LEMMA OthersHome ==
    ASSUME HomeInv, NEW r \in Slots, Proceed(r) \/ Fail(r), ~FlushVacancy(r)
    PROVE  OpenVacancies' /\ InitialStages'
<1>1. CASE CheckPatch(r) \/ CheckApply(r) \/ CheckWithdraw(r) \/ RefuseInsert(r)
              \/ CheckVacancy(r) \/ CheckStage(r)
  <2>1. UNCHANGED <<vacancies, stages, newVacancy, newStage>>
    BY <1>1 DEF CheckPatch, CheckApply, CheckWithdraw, RefuseInsert, CheckVacancy, CheckStage,
                ElseRefuse, rows, drafts
  <2>. QED BY <2>1 DEF HomeInv, OpenVacancies, InitialStages
<1>2. CASE FlushApplication(r) \/ ListApplications(r) \/ EnqueueNotices(r)
              \/ \E c \in Candidates : RejectListed(r, c)
  <2>1. UNCHANGED <<vacancies, stages, newVacancy, newStage>>
    BY <1>2 DEF FlushApplication, ListApplications, EnqueueNotices, RejectListed, rows, drafts
  <2>. QED BY <2>1 DEF HomeInv, OpenVacancies, InitialStages
<1>3. CASE FlushStage(r)
  <2>. DEFINE s == session[r].request.stage
  <2>1. s \in Stages /\ StageRole[s] # "initial"
    BY <1>3, RequestTypes
       DEF FlushStage, At, Op, HomeInv, HomeSessions, HomeSession, RaceTyped, SessionsShaped
  <2>2. /\ UNCHANGED <<vacancies, stages, newVacancy>>
        /\ newStage' = [newStage EXCEPT ![s] = [by |-> r, row |-> [stages[s] EXCEPT !.row = "inactive"]]]
    BY <1>3 DEF FlushStage, rows
  <2>3. \A t \in Stages : t # s => newStage'[t] = newStage[t]
    BY <2>2 DEF HomeInv, RaceTyped, TypeOK
  <2>. QED BY <2>1, <2>2, <2>3 DEF HomeInv, OpenVacancies, InitialStages, OpenOK
<1>4. CASE Commit(r) \/ Fail(r)
  <2>1. PICK keep \in BOOLEAN : Settle(r, keep)
    BY <1>4 DEF Commit, Fail
  <2>2. OpenVacancies'
    <3>1. ASSUME NEW v \in Vacancies
          PROVE  /\ OpenOK(vacancies'[v])
                 /\ newVacancy'[v].by # NULL => OpenOK(newVacancy'[v].row)
      <4>1. /\ vacancies'[v] \in {vacancies[v], newVacancy[v].row}
            /\ vacancies'[v] # vacancies[v] => newVacancy[v].by = r
            /\ newVacancy'[v] \in {newVacancy[v], NoDraft(NoVacancy)}
        BY <2>1, SettledRows DEF HomeInv, RaceTyped
      <4>. QED BY <4>1, RaceAssumption DEF HomeInv, OpenVacancies, NoDraft
    <3>. QED BY <3>1 DEF OpenVacancies, OpenOK
  <2>3. InitialStages'
    BY <2>1, SettledRows, RaceAssumption DEF HomeInv, RaceTyped, InitialStages, NoDraft
  <2>. QED BY <2>2, <2>3
<1>. QED BY <1>1, <1>2, <1>3, <1>4 DEF Proceed

LEMMA InitHome == Init => HomeInv
<1> SUFFICES ASSUME Init PROVE HomeInv
  OBVIOUS
<1>1. HomeSessions
  BY IdleType DEF Init, HomeSessions, HomeSession
<1>2. OpenVacancies
  BY DEF Init, OpenVacancies, OpenOK, NoDraft
<1>3. InitialStages
  BY DEF Init, InitialStages, NoDraft
<1>. QED BY <1>1, <1>2, <1>3, InitTyped DEF HomeInv

LEMMA NextHome == HomeInv /\ [Next]_vars => HomeInv'
<1> SUFFICES ASSUME HomeInv, [Next]_vars
             PROVE  HomeSessions' /\ OpenVacancies' /\ InitialStages'
  BY NextTyped DEF HomeInv
<1>1. CASE UNCHANGED vars \/ \E j \in queue : RunJob(j)
  <2>1. UNCHANGED <<session, vacancies, stages, newVacancy, newStage>>
    BY <1>1 DEF RunJob, vars, rows, drafts
  <2>. QED
    BY <2>1 DEF HomeInv, HomeSessions, HomeSession, StatusChanges, OpenVacancies, OpenOK,
       InitialStages
<1>2. CASE \E r \in Slots : Arrive(r)
  BY <1>2, ArriveHome
<1>3. CASE \E r \in Slots : Proceed(r) \/ Fail(r)
  BY <1>3, SessionsGoHome, FlushVacancyHome, OthersHome
<1>. QED BY <1>1, <1>2, <1>3 DEF Next

LEMMA HomeInvariant == Spec => []HomeInv
  BY InitHome, NextHome, PTL DEF Spec

-----------------------------------------------------------------------------
(* A rejection has a reason                                                *)
(*                                                                         *)
(* The invariant is about every copy of a card: the committed row, the     *)
(* uncommitted one, and what each session has loaded, wants to write or    *)
(* has listed.  A row that says "rejected" in any column has a reason, and *)
(* a reason once given is never taken back, so a copy that has one was     *)
(* made from a row that still has one when the UPDATE merges them.         *)

\* The board's clients erase no reason, and write an outcome by the column.
ReasonsAreKept ==
    \A q \in Requests : q.op = "patch" => q.body.status # "rejected" /\ q.body.reason # "none"

\* A row that exists, with its reason.
Given(a) ==
    /\ a.row # "absent"
    /\ a.stage = NULL \/ a.status = "rejected" \/ a.rejectedAt # NULL => a.reason # "none"

CardOK(a) == a = NoApplication \/ Given(a)

\* b may follow a: rows stay, and so do reasons.
Later(a, b) == /\ a.row # "absent" => b.row # "absent"
               /\ a.reason # "none" => b.reason # "none"

\* What the session of an application has loaded, with the row as it is now.
LoadedOK(s, card) ==
    /\ CardOK(s.application) /\ Later(s.application, card)
    /\ s.request.op # "apply" => s.application.row # "absent"

\* What it wants to write.
WantedGiven(s) ==
    Given(s.wanted) /\ (s.wanted.reason = "none" => s.application.reason = "none")

\* What an auto-reject has still to write.
ListedOK(s, cards) ==
    \A c \in s.left : /\ Given(s.listed[c])
                      /\ Later(s.listed[c], cards[c])

SessionReasons(s, apps) ==
    /\ s.pc \in {"read", "checked"} /\ s.request.op \in {"patch", "apply", "withdraw"} =>
          LoadedOK(s, apps[s.request.vacancy][s.request.candidate])
    /\ s.pc = "checked" /\ s.request.op \in {"patch", "apply", "withdraw"} => WantedGiven(s)
    /\ s.pc = "rejecting" => ListedOK(s, apps[s.request.vacancy])

SessionsHaveReasons == \A r \in Slots : SessionReasons(session[r], applications)

CardsHaveReasons ==
    \A v \in Vacancies, c \in Candidates :
        /\ CardOK(applications[v][c])
        /\ newApplication[v][c].by # NULL =>
              /\ Given(newApplication[v][c].row)
              /\ Later(applications[v][c], newApplication[v][c].row)

ReasonInv == HomeInv /\ SessionsHaveReasons /\ CardsHaveReasons

\* The UPDATE of the changed columns, of whichever row is there by then.
LEMMA MergeGiven ==
    ASSUME NEW loaded \in Application, NEW wanted \in Application, NEW current \in Application,
           Given(wanted), Given(current), Later(loaded, current),
           wanted.reason = "none" => loaded.reason = "none"
    PROVE  /\ Given(Merge(loaded, wanted, current))
           /\ Later(current, Merge(loaded, wanted, current))
<1>. DEFINE m == Merge(loaded, wanted, current)
<1>1. /\ m.row = IF wanted.row # loaded.row THEN wanted.row ELSE current.row
      /\ m.stage = IF wanted.stage # loaded.stage THEN wanted.stage ELSE current.stage
      /\ m.rejectedAt = IF wanted.rejectedAt # loaded.rejectedAt THEN wanted.rejectedAt
                                                               ELSE current.rejectedAt
      /\ m.status = IF wanted.status # loaded.status THEN wanted.status ELSE current.status
      /\ m.reason = IF wanted.reason # loaded.reason THEN wanted.reason ELSE current.reason
  BY MergedColumn DEF Columns
<1>. HIDE DEF m
<1>2. m.row # "absent"
  BY <1>1 DEF Given
<1>3. current.reason # "none" => m.reason # "none"
  BY <1>1
<1>4. wanted.reason # "none" => m.reason # "none"
  BY <1>1 DEF Later
<1>5. Given(m) /\ Later(current, m)
  BY <1>1, <1>2, <1>3, <1>4 DEF Given, Later
<1>. QED BY <1>5 DEF m

\* What a PATCH computes from a card that has its reason.
LEMMA TransitionGiven ==
    ASSUME ReasonsAreKept, NEW q \in Requests, q.op = "patch", NEW a \in Application, Given(a),
           q.body.stage = NULL /\ a.status # "rejected" => q.body.reason = "manual"
    PROVE  /\ Given(TransitionRow(a, q.body))
           /\ TransitionRow(a, q.body).reason = "none" => a.reason = "none"
<1>. DEFINE b == q.body
            p == PatchedRow(a, b)
            w == TransitionRow(a, b)
<1>1. b \in PatchBody /\ b.status # "rejected" /\ b.reason # "none"
  BY RequestTypes DEF ReasonsAreKept
<1>2. /\ p.row = a.row /\ p.rejectedAt = a.rejectedAt
      /\ p.stage = IF b.stage = Unset THEN a.stage ELSE b.stage
      /\ p.status = IF b.status = Unset THEN a.status ELSE b.status
      /\ p.reason = IF b.reason = Unset THEN a.reason ELSE b.reason
  BY DEF PatchedRow, OrKeep, Application
<1>3. PatchedRow(a, b) \in Application
  BY <1>1, PatchedType
<1>4. CASE b.stage = Unset
  <2>1. w = p
    BY <1>4, BoardAssumption DEF TransitionRow
  <2>. QED BY <1>1, <1>2, <1>4, <2>1 DEF Given
<1>5. CASE b.stage = NULL /\ a.status # "rejected"
  <2>1. w = RejectedRow(a, b.reason)
    BY <1>5, BoardAssumption DEF TransitionRow
  <2>2. w.row = a.row /\ w.reason = "manual"
    BY <1>5, <2>1 DEF RejectedRow, Application
  <2>. HIDE DEF w
  <2>. QED BY <2>2 DEF Given, w
<1>6. CASE b.stage = NULL /\ a.status = "rejected"
  <2>1. w = RejectedAgainRow(a, b)
    BY <1>6, BoardAssumption DEF TransitionRow
  <2>2. w.row = p.row /\ w.reason = p.reason
    BY <1>3, <2>1 DEF RejectedAgainRow, Application
  <2>. HIDE DEF w
  <2>. QED BY <1>1, <1>2, <1>6, <2>2 DEF Given, w
<1>7. CASE b.stage \in Stages
  <2>1. w \in {HiredRow(a, b), MovedRow(a, b)}
    BY <1>7, BoardAssumption DEF TransitionRow
  <2>2. /\ w.row = p.row /\ w.reason = p.reason /\ w.stage = p.stage
        /\ w.rejectedAt = p.rejectedAt /\ w.status \in {p.status, "hired", "active"}
    BY <1>3, <2>1 DEF HiredRow, MovedRow, Application
  <2>. HIDE DEF w
  <2>. QED BY <1>1, <1>2, <1>7, <2>2, BoardAssumption DEF Given, w
<1>. QED BY <1>1, <1>4, <1>5, <1>6, <1>7 DEF PatchBody

LEMMA OneSessionReasons ==
    ASSUME ReasonInv, NEW r \in Slots, NEW s, Go(r, s), UNCHANGED applications,
           SessionReasons(s, applications)
    PROVE  SessionsHaveReasons'
<1>1. ASSUME NEW k \in Slots PROVE SessionReasons(session'[k], applications)
  BY DEF Go, ReasonInv, HomeInv, RaceTyped, TypeOK, SessionsHaveReasons
<1>. QED BY <1>1 DEF SessionsHaveReasons, SessionReasons, LoadedOK, ListedOK, WantedGiven

LEMMA ArriveReasons ==
    ASSUME ReasonInv, NEW r \in Slots, Arrive(r)
    PROVE  SessionsHaveReasons' /\ CardsHaveReasons'
<1>1. PICK q \in Requests :
         \/ ReadApplication(r, q) \/ ReadOpenVacancy(r, q) \/ ReadVacancy(r, q) \/ ReadStage(r, q)
  BY DEF Arrive
<1>2. PICK vac, app :
         /\ Begin(r, q, vac, app)
         /\ q.op = "apply" => app = NoApplication
         /\ q.op \in {"patch", "withdraw"} =>
               app = applications[q.vacancy][q.candidate] /\ IsActive(app)
  BY <1>1 DEF ReadApplication, ReadOpenVacancy, ReadVacancy, ReadStage
<1>. DEFINE s == [Idle EXCEPT !.pc = "read", !.request = q, !.number = sent + 1,
                              !.vacancy = vac, !.application = app]
<1>3. UNCHANGED <<applications, newApplication>> /\ Go(r, s)
  BY <1>2 DEF Begin, rows, drafts
<1>4. s.pc = "read" /\ s.request = q /\ s.application = app
  BY DEF Idle
<1>. HIDE DEF s
<1>5. q.op \in {"patch", "apply", "withdraw"} =>
         LoadedOK(s, applications[q.vacancy][q.candidate])
  <2>1. CASE q.op = "apply"
    BY <1>2, <1>4, <2>1 DEF LoadedOK, CardOK, Later, NoApplication
  <2>2. CASE q.op \in {"patch", "withdraw"}
    <3>1. CardOK(applications[q.vacancy][q.candidate])
      BY <2>2, RequestTypes DEF ReasonInv, CardsHaveReasons
    <3>. QED BY <1>2, <1>4, <2>2, <3>1 DEF LoadedOK, Later, IsActive
  <2>. QED BY <2>1, <2>2
<1>6. SessionReasons(s, applications)
  BY <1>4, <1>5 DEF SessionReasons
<1>. QED
  BY <1>3, <1>6, OneSessionReasons DEF ReasonInv, CardsHaveReasons

LEMMA GuardReasons ==
    ASSUME ReasonInv, NEW r \in Slots, NEW accepted, NEW s, ElseRefuse(r, accepted, s),
           accepted => SessionReasons(s, applications)
    PROVE  SessionsHaveReasons' /\ CardsHaveReasons'
<1>1. UNCHANGED <<applications, newApplication>>
  BY DEF ElseRefuse, rows, drafts
<1>2. SessionReasons(Idle, applications)
  BY IdleType DEF SessionReasons
<1>3. SessionsHaveReasons'
  <2>1. CASE accepted
    BY <1>1, <2>1, OneSessionReasons DEF ElseRefuse
  <2>2. CASE ~accepted
    <3>1. Go(r, Idle)
      BY <2>2 DEF ElseRefuse
    <3>. QED BY <1>1, <1>2, <3>1, OneSessionReasons
  <2>. QED BY <2>1, <2>2
<1>. QED BY <1>1, <1>3 DEF ReasonInv, CardsHaveReasons

LEMMA ChecksReasons ==
    ASSUME ReasonsAreKept, ReasonInv, NEW r \in Slots,
           \/ CheckPatch(r) \/ CheckApply(r) \/ CheckWithdraw(r) \/ RefuseInsert(r)
           \/ CheckVacancy(r) \/ CheckStage(r)
    PROVE  SessionsHaveReasons' /\ CardsHaveReasons'
<1>. DEFINE s == session[r]
            q == s.request
            card == applications[q.vacancy][q.candidate]
<1>1. s \in Session /\ (s.pc # "idle" => q \in Requests)
  BY DEF ReasonInv, HomeInv, RaceTyped, TypeOK, SessionsShaped, At
<1>2. s.application \in Application
  BY <1>1 DEF Session
<1>3. SessionReasons(s, applications) /\ HomeSession(s)
  BY DEF ReasonInv, SessionsHaveReasons, HomeInv, HomeSessions
<1>. HIDE DEF s
<1>4. CASE CheckPatch(r)
  <2>. DEFINE accepted == /\ IsActive(applications[q.vacancy][q.candidate])
                          /\ PatchAccepted(q.vacancy, s.application, q.body)
              w == IF accepted THEN TransitionRow(s.application, q.body) ELSE s.application
              t == [s EXCEPT !.pc = "checked", !.wanted = w]
  <2>1. s.pc = "read" /\ q.op = "patch" /\ ElseRefuse(r, accepted, t)
    BY <1>4 DEF CheckPatch, At, Op, s
  <2>2. LoadedOK(s, card)
    BY <1>3, <2>1 DEF SessionReasons
  <2>3. Given(s.application)
    BY <2>1, <2>2 DEF LoadedOK, CardOK, NoApplication
  <2>4. accepted => Given(w) /\ (w.reason = "none" => s.application.reason = "none")
    <3>1. q \in Requests
      BY <1>1, <2>1
    <3>. QED BY <1>2, <2>1, <2>3, <3>1, TransitionGiven DEF PatchAccepted
  <2>. HIDE DEF accepted, w
  <2>5. t.pc = "checked" /\ t.request = q /\ t.application = s.application /\ t.wanted = w
    BY <1>1 DEF Session
  <2>. HIDE DEF t
  <2>6. accepted => SessionReasons(t, applications)
    BY <2>2, <2>4, <2>5 DEF SessionReasons, LoadedOK, WantedGiven
  <2>. QED BY <2>1, <2>6, GuardReasons
<1>5. CASE CheckApply(r)
  <2>. DEFINE first == FirstStage(stages, s.vacancy.process)
              w == IF card.row = "absent" THEN InsertedRow(q.status, first, FALSE)
                   ELSE ResurrectedRow(card, q.status, first)
              t == [s EXCEPT !.pc = "checked", !.application = card, !.wanted = w]
  <2>1. s.pc = "read" /\ q.op = "apply" /\ ElseRefuse(r, ~IsActive(card), t)
    BY <1>5 DEF CheckApply, At, Op, s
  <2>2. card \in Application /\ CardOK(card)
    BY <1>1, <2>1, RequestTypes DEF ReasonInv, CardsHaveReasons, HomeInv, RaceTyped, TypeOK
  <2>a. q.status # "rejected"
    BY <1>1, <2>1, RequestTypes DEF PlaceStatus
  <2>3. first \in Stages
    <3>1. s.vacancy.process \in Processes
      BY <1>3, <2>1 DEF HomeSession
    <3>. QED BY <3>1, FirstColumn DEF ReasonInv, HomeInv
  <2>. HIDE DEF first
  <2>4. Given(w) /\ (w.reason = "none" => card.reason = "none")
    <3>1. CASE card.row = "absent"
      <4>1. card = NoApplication
        BY <2>2, <3>1 DEF CardOK, Given
      <4>2. w = InsertedRow(q.status, first, FALSE)
        BY <3>1
      <4>. HIDE DEF w
      <4>. QED
        BY <2>3, <2>a, <4>1, <4>2, BoardAssumption DEF InsertedRow, NoApplication, Given
    <3>2. CASE card.row # "absent"
      <4>1. w = ResurrectedRow(card, q.status, first)
        BY <3>2
      <4>. HIDE DEF w
      <4>2. /\ w.row = "active" /\ w.status # "rejected" /\ w.stage = first
            /\ w.rejectedAt = NULL /\ w.reason = card.reason
        BY <2>2, <2>a, <4>1 DEF ResurrectedRow, Application
      <4>. QED BY <2>3, <4>2, BoardAssumption DEF Given
    <3>. QED BY <3>1, <3>2
  <2>. HIDE DEF w, card
  <2>5. t.pc = "checked" /\ t.request = q /\ t.application = card /\ t.wanted = w
    BY <1>1 DEF Session
  <2>. HIDE DEF t
  <2>6. SessionReasons(t, applications)
    BY <2>1, <2>2, <2>4, <2>5 DEF SessionReasons, LoadedOK, WantedGiven, Later, card
  <2>. QED BY <2>1, <2>6, GuardReasons
<1>6. CASE CheckWithdraw(r)
  <2>. DEFINE w == [s.application EXCEPT !.row = "inactive"]
              t == [s EXCEPT !.pc = "checked", !.wanted = w]
  <2>1. s.pc = "read" /\ q.op = "withdraw" /\ ElseRefuse(r, TRUE, t)
    BY <1>6 DEF CheckWithdraw, At, Op, s
  <2>2. LoadedOK(s, card)
    BY <1>3, <2>1 DEF SessionReasons
  <2>3. Given(s.application)
    BY <2>1, <2>2 DEF LoadedOK, CardOK, NoApplication
  <2>4. /\ w.row = "inactive" /\ w.status = s.application.status /\ w.stage = s.application.stage
        /\ w.rejectedAt = s.application.rejectedAt /\ w.reason = s.application.reason
    BY <1>2 DEF Application
  <2>. HIDE DEF w
  <2>5. t.pc = "checked" /\ t.request = q /\ t.application = s.application /\ t.wanted = w
    BY <1>1 DEF Session
  <2>. HIDE DEF t
  <2>6. SessionReasons(t, applications)
    BY <2>2, <2>3, <2>4, <2>5 DEF SessionReasons, LoadedOK, WantedGiven, Given
  <2>. QED BY <2>1, <2>6, GuardReasons
<1>7. CASE RefuseInsert(r)
  BY <1>7, GuardReasons DEF RefuseInsert
<1>8. CASE CheckVacancy(r) \/ CheckStage(r)
  <2>. DEFINE t == [s EXCEPT !.pc = "checked"]
  <2>1. /\ \E accepted : ElseRefuse(r, accepted, t)
        /\ q.op \in {"end", "deleteVacancy", "deleteStage"}
    BY <1>8 DEF CheckVacancy, CheckStage, At, Op, s
  <2>2. t.pc = "checked" /\ t.request = q
    BY <1>1 DEF Session
  <2>. HIDE DEF t
  <2>3. SessionReasons(t, applications)
    BY <2>1, <2>2 DEF SessionReasons
  <2>. QED BY <2>1, <2>3, GuardReasons
<1>. QED BY <1>4, <1>5, <1>6, <1>7, <1>8

\* A session writes the version of a card.
LEMMA CardWritten ==
    ASSUME ReasonInv, NEW r \in Slots, NEW v \in Vacancies, NEW c \in Candidates,
           NEW s, NEW row, Go(r, s), UNCHANGED applications, SessionReasons(s, applications),
           newApplication' = [newApplication EXCEPT ![v][c] = [by |-> r, row |-> row]],
           Given(row), Later(applications[v][c], row)
    PROVE  SessionsHaveReasons' /\ CardsHaveReasons'
<1>1. SessionsHaveReasons'
  BY OneSessionReasons
<1>2. ASSUME NEW w \in Vacancies, NEW d \in Candidates, newApplication'[w][d].by # NULL
      PROVE  Given(newApplication'[w][d].row) /\ Later(applications[w][d], newApplication'[w][d].row)
  <2>1. CASE w = v /\ d = c
    <3>1. newApplication'[w][d] = [by |-> r, row |-> row]
      BY <2>1 DEF ReasonInv, HomeInv, RaceTyped, TypeOK
    <3>. QED BY <2>1, <3>1
  <2>2. CASE ~(w = v /\ d = c)
    <3>1. newApplication'[w][d] = newApplication[w][d]
      BY <2>2 DEF ReasonInv, HomeInv, RaceTyped, TypeOK
    <3>. QED BY <1>2, <3>1 DEF ReasonInv, CardsHaveReasons
  <2>. QED BY <2>1, <2>2
<1>3. CardsHaveReasons'
  BY <1>2 DEF ReasonInv, CardsHaveReasons, CardOK, Given, Later
<1>. QED BY <1>1, <1>3

LEMMA FlushApplicationReasons ==
    ASSUME ReasonInv, NEW r \in Slots, FlushApplication(r)
    PROVE  SessionsHaveReasons' /\ CardsHaveReasons'
<1>. DEFINE s == session[r]
            q == s.request
            card == applications[q.vacancy][q.candidate]
            row == Merge(s.application, s.wanted, card)
            t == [s EXCEPT !.pc = "flushed", !.tasks = HandlerTasks(q, s.application, row)]
<1>1. /\ s \in Session /\ s.pc = "checked" /\ q.op \in {"patch", "apply", "withdraw"}
      /\ q \in Requests
  BY DEF ReasonInv, HomeInv, RaceTyped, TypeOK, SessionsShaped, FlushApplication, At, Op
<1>2. q.vacancy \in Vacancies /\ q.candidate \in Candidates
  BY <1>1, RequestTypes
<1>3. s.application \in Application /\ s.wanted \in Application /\ card \in Application
  BY <1>1, <1>2 DEF Session, ReasonInv, HomeInv, RaceTyped, TypeOK
<1>4. /\ newApplication' = [newApplication EXCEPT ![q.vacancy][q.candidate] = [by |-> r, row |-> row]]
      /\ ~(s.application.row = "absent" /\ card.row # "absent")
      /\ Go(r, t) /\ UNCHANGED applications
  BY DEF FlushApplication, Conflict, rows
<1>5. LoadedOK(s, card) /\ WantedGiven(s) /\ CardOK(card)
  BY <1>1, <1>2 DEF ReasonInv, SessionsHaveReasons, SessionReasons, CardsHaveReasons
<1>6. Given(row) /\ Later(card, row)
  <2>1. CASE s.application.row = "absent"
    <3>1. s.application = NoApplication /\ card = NoApplication
      BY <1>4, <1>5, <2>1 DEF LoadedOK, CardOK, Given
    <3>2. row = s.wanted
      BY <1>3, <3>1, MergeAlone
    <3>. QED BY <1>5, <3>1, <3>2 DEF WantedGiven, Later, NoApplication
  <2>2. CASE s.application.row # "absent"
    <3>1. Given(card)
      BY <1>5, <2>2 DEF LoadedOK, CardOK, Later, NoApplication
    <3>. QED BY <1>3, <1>5, <3>1, MergeGiven DEF LoadedOK, WantedGiven
  <2>. QED BY <2>1, <2>2
<1>. HIDE DEF row
<1>7. t.pc = "flushed"
  BY <1>1 DEF Session
<1>. HIDE DEF t
<1>8. SessionReasons(t, applications)
  BY <1>7 DEF SessionReasons
<1>. QED BY <1>2, <1>4, <1>6, <1>8, CardWritten

LEMMA RejectListedReasons ==
    ASSUME ReasonInv, NEW r \in Slots, NEW c \in Candidates, RejectListed(r, c)
    PROVE  SessionsHaveReasons' /\ CardsHaveReasons'
<1>. DEFINE s == session[r]
            q == s.request
            v == q.vacancy
            wanted == RejectedRow(s.listed[c], EndReason(q))
            row == Merge(s.listed[c], wanted, applications[v][c])
            t == [s EXCEPT !.left = @ \ {c},
                           !.tasks = @ \cup {Board!ApplicationTask("notify_rejection", v, c)}]
<1>1. /\ s \in Session /\ s.pc = "rejecting" /\ q.op \in {"end", "deleteVacancy"}
      /\ q \in Requests /\ c \in s.left
  BY DEF ReasonInv, HomeInv, RaceTyped, TypeOK, SessionsShaped, RejectListed, At, Op
<1>2. v \in Vacancies
  BY <1>1, RequestTypes
<1>3. s.listed[c] \in Application /\ applications[v][c] \in Application
  BY <1>1, <1>2 DEF Session, ReasonInv, HomeInv, RaceTyped, TypeOK
<1>4. ListedOK(s, applications[v]) /\ CardOK(applications[v][c])
  <2>1. SessionReasons(s, applications)
    BY DEF ReasonInv, SessionsHaveReasons
  <2>2. ListedOK(s, applications[v])
    BY <1>1, <2>1 DEF SessionReasons
  <2>3. CardOK(applications[v][c])
    BY <1>2 DEF ReasonInv, CardsHaveReasons
  <2>. QED BY <2>2, <2>3
<1>5. Given(s.listed[c]) /\ Later(s.listed[c], applications[v][c]) /\ Given(applications[v][c])
  <2>1. Given(s.listed[c]) /\ Later(s.listed[c], applications[v][c])
    <3>. HIDE DEF v
    <3>. QED BY <1>1, <1>4 DEF ListedOK
  <2>2. applications[v][c].row # "absent"
    BY <2>1 DEF Given, Later
  <2>3. applications[v][c] # NoApplication
    BY <2>2 DEF NoApplication
  <2>. QED BY <1>4, <2>1, <2>3 DEF CardOK
<1>6. wanted \in Application /\ wanted.row = s.listed[c].row /\ wanted.reason # "none"
  <2>1. EndReason(q) \in Reason \ {"none"}
    BY DEF EndReason, AutoRejectReason, Reason
  <2>. QED BY <1>3, <2>1 DEF RejectedRow, Application, ApplicationStatus
<1>7. Given(row) /\ Later(applications[v][c], row)
  <2>1. Given(wanted)
    BY <1>5, <1>6 DEF Given
  <2>. QED BY <1>3, <1>5, <1>6, <2>1, MergeGiven
<1>8. /\ newApplication' = [newApplication EXCEPT ![v][c] = [by |-> r, row |-> row]]
      /\ Go(r, t) /\ UNCHANGED applications
  BY DEF RejectListed, rows
<1>. HIDE DEF row
<1>9. /\ t.pc = "rejecting" /\ t.request = q /\ t.listed = s.listed /\ t.left = s.left \ {c}
  BY <1>1 DEF Session
<1>. HIDE DEF t
<1>10. SessionReasons(t, applications)
  BY <1>4, <1>9 DEF SessionReasons, ListedOK
<1>. QED BY <1>2, <1>7, <1>8, <1>10, CardWritten

LEMMA FlushOthersReasons ==
    ASSUME ReasonInv, NEW r \in Slots,
           FlushVacancy(r) \/ FlushStage(r) \/ ListApplications(r) \/ EnqueueNotices(r)
    PROVE  SessionsHaveReasons' /\ CardsHaveReasons'
<1>. DEFINE s == session[r]
            v == s.request.vacancy
<1>1. s \in Session
  BY DEF ReasonInv, HomeInv, RaceTyped, TypeOK
<1>2. UNCHANGED <<applications, newApplication>>
  BY DEF FlushVacancy, FlushStage, ListApplications, EnqueueNotices, rows, drafts
<1>3. CardsHaveReasons'
  BY <1>2 DEF ReasonInv, CardsHaveReasons
<1>4. CASE FlushVacancy(r) \/ FlushStage(r) \/ EnqueueNotices(r)
  <2>1. PICK pc \in {"listing", "flushed"} : Go(r, [s EXCEPT !.pc = pc])
    BY <1>4 DEF FlushVacancy, FlushStage, EnqueueNotices
  <2>2. SessionReasons([s EXCEPT !.pc = pc], applications)
    <3>. DEFINE t == [s EXCEPT !.pc = pc]
    <3>1. t.pc \in {"listing", "flushed"}
      BY <1>1, <2>1 DEF Session
    <3>. HIDE DEF t
    <3>2. SessionReasons(t, applications)
      BY <3>1 DEF SessionReasons
    <3>. QED BY <3>2 DEF t
  <2>. QED BY <1>2, <1>3, <2>1, <2>2, OneSessionReasons
<1>5. CASE ListApplications(r)
  <2>. DEFINE t == [s EXCEPT !.pc = "rejecting", !.listed = applications[v],
                             !.left = {c \in Candidates : AutoRejectable(applications[v][c])}]
  <2>1. Go(r, t)
    BY <1>5 DEF ListApplications
  <2>2. /\ t.pc = "rejecting" /\ t.request = s.request /\ t.listed = applications[v]
        /\ t.left = {c \in Candidates : AutoRejectable(applications[v][c])}
    BY <1>1 DEF Session
  <2>. HIDE DEF t
  <2>3. v \in Vacancies
    BY <1>5, RequestTypes
       DEF ListApplications, At, Op, ReasonInv, HomeInv, RaceTyped, SessionsShaped
  <2>4. \A c \in t.left : Given(applications[v][c])
    BY <2>2, <2>3
       DEF ReasonInv, CardsHaveReasons, CardOK, AutoRejectable, IsActive, NoApplication
  <2>5. SessionReasons(t, applications)
    BY <2>2, <2>4 DEF SessionReasons, ListedOK, Later
  <2>. QED BY <1>2, <1>3, <2>1, <2>5, OneSessionReasons
<1>. QED BY <1>4, <1>5

LEMMA SettleReasons ==
    ASSUME ReasonInv, NEW r \in Slots, Commit(r) \/ Fail(r)
    PROVE  SessionsHaveReasons' /\ CardsHaveReasons'
<1>1. PICK keep \in BOOLEAN : Settle(r, keep)
  BY DEF Commit, Fail
<1>2. session'[r] = Idle /\ \A k \in Slots : k # r => session'[k] = session[k]
  BY <1>1 DEF ReasonInv, HomeInv, RaceTyped, TypeOK, Settle, Go
<1>3. ASSUME NEW v \in Vacancies, NEW c \in Candidates
      PROVE  /\ CardOK(applications'[v][c])
             /\ Later(applications[v][c], applications'[v][c])
             /\ newApplication'[v][c].by # NULL =>
                   /\ newApplication'[v][c] = newApplication[v][c]
                   /\ applications'[v][c] = applications[v][c]
  <2>1. /\ applications'[v][c] = IF keep /\ newApplication[v][c].by = r
                                 THEN newApplication[v][c].row ELSE applications[v][c]
        /\ newApplication'[v][c] = IF newApplication[v][c].by = r
                                   THEN NoDraft(NoApplication) ELSE newApplication[v][c]
    BY <1>1, SettledRows DEF ReasonInv, HomeInv, RaceTyped
  <2>2. CardOK(applications[v][c])
    BY DEF ReasonInv, CardsHaveReasons
  <2>3. newApplication[v][c].by = r => /\ Given(newApplication[v][c].row)
                                       /\ Later(applications[v][c], newApplication[v][c].row)
    BY RaceAssumption DEF ReasonInv, CardsHaveReasons
  <2>. QED BY <2>1, <2>2, <2>3 DEF CardOK, Later, NoDraft
<1>4. CardsHaveReasons'
  <2>1. ASSUME NEW v \in Vacancies, NEW c \in Candidates
        PROVE  /\ CardOK(applications'[v][c])
               /\ newApplication'[v][c].by # NULL =>
                     /\ Given(newApplication'[v][c].row)
                     /\ Later(applications'[v][c], newApplication'[v][c].row)
    BY <1>3 DEF ReasonInv, CardsHaveReasons
  <2>. QED BY <2>1 DEF CardsHaveReasons, CardOK, Given, Later
<1>5. ASSUME NEW k \in Slots PROVE SessionReasons(session'[k], applications')
  <2>1. CASE k = r
    BY <1>2, <2>1, IdleType DEF SessionReasons
  <2>2. CASE k # r
    <3>. DEFINE s == session[k]
                q == s.request
    <3>1. session'[k] = s /\ SessionReasons(s, applications)
      BY <1>2, <2>2 DEF ReasonInv, SessionsHaveReasons
    <3>2. s \in Session /\ (s.pc # "idle" => q \in Requests)
          /\ (s.pc = "rejecting" => q.op \in {"end", "deleteVacancy"})
      BY DEF ReasonInv, HomeInv, RaceTyped, TypeOK, SessionsShaped, At, Op
    <3>. HIDE DEF s
    <3>3. ASSUME s.pc \in {"read", "checked"}, q.op \in {"patch", "apply", "withdraw"}
          PROVE  LoadedOK(s, applications'[q.vacancy][q.candidate])
      <4>1. LoadedOK(s, applications[q.vacancy][q.candidate])
        BY <3>1, <3>3 DEF SessionReasons
      <4>2. Later(applications[q.vacancy][q.candidate], applications'[q.vacancy][q.candidate])
        BY <1>3, <3>2, <3>3, RequestTypes
      <4>. QED BY <4>1, <4>2 DEF LoadedOK, Later
    <3>4. ASSUME s.pc = "rejecting"
          PROVE  ListedOK(s, applications'[q.vacancy])
      <4>1. q.vacancy \in Vacancies /\ s.left \subseteq Candidates
        BY <3>2, <3>4, RequestTypes DEF Session
      <4>2. ListedOK(s, applications[q.vacancy])
        BY <3>1, <3>4 DEF SessionReasons
      <4>. QED BY <1>3, <4>1, <4>2 DEF ListedOK, Later
    <3>5. SessionReasons(s, applications')
      BY <3>1, <3>3, <3>4 DEF SessionReasons
    <3>. QED BY <3>1, <3>5
  <2>. QED BY <2>1, <2>2
<1>6. SessionsHaveReasons'
  BY <1>5 DEF SessionsHaveReasons, SessionReasons, LoadedOK, ListedOK, WantedGiven
<1>. QED BY <1>4, <1>6

LEMMA InitReasons == Init => ReasonInv
<1> SUFFICES ASSUME Init PROVE ReasonInv
  OBVIOUS
<1>1. HomeInv
  BY InitHome
<1>2. SessionsHaveReasons
  BY IdleType DEF Init, SessionsHaveReasons, SessionReasons
<1>3. \A v \in Vacancies : FirstStage(stages, vacancies[v].process) \in Stages
  <2>1. \A v \in Vacancies : vacancies[v].process \in Processes
    BY DEF Init
  <2>. QED BY <1>1, <2>1, FirstColumn DEF HomeInv
<1>4. \A v \in Vacancies, c \in Candidates :
         \/ applications[v][c] = NoApplication
         \/ applications[v][c] =
               InsertedRow("active", FirstStage(stages, vacancies[v].process), FALSE)
  <2>1. PICK early \in SUBSET Candidates :
           applications = [v \in Vacancies |-> [c \in Candidates |->
               IF c \in early
               THEN InsertedRow("active", FirstStage(stages, vacancies[v].process), FALSE)
               ELSE NoApplication]]
    BY DEF Init
  <2>2. ASSUME NEW v \in Vacancies, NEW c \in Candidates
        PROVE  applications[v][c] =
                  IF c \in early
                  THEN InsertedRow("active", FirstStage(stages, vacancies[v].process), FALSE)
                  ELSE NoApplication
    BY <2>1
  <2>. QED BY <2>2
<1>5. CardsHaveReasons
  <2>1. ASSUME NEW first \in Stages PROVE Given(InsertedRow("active", first, FALSE))
    BY BoardAssumption DEF InsertedRow, NoApplication, Given
  <2>2. \A v \in Vacancies, c \in Candidates : newApplication[v][c].by = NULL
    BY DEF Init, NoDraft
  <2>. QED BY <1>3, <1>4, <2>1, <2>2 DEF CardsHaveReasons, CardOK
<1>. QED BY <1>1, <1>2, <1>5 DEF ReasonInv

LEMMA NextReasons == ReasonsAreKept /\ ReasonInv /\ [Next]_vars => ReasonInv'
<1> SUFFICES ASSUME ReasonsAreKept, ReasonInv, [Next]_vars
             PROVE  SessionsHaveReasons' /\ CardsHaveReasons'
  BY NextHome DEF ReasonInv
<1>1. CASE UNCHANGED vars \/ \E j \in queue : RunJob(j)
  <2>1. UNCHANGED <<session, applications, newApplication>>
    BY <1>1 DEF RunJob, vars, rows, drafts
  <2>. QED
    BY <2>1 DEF ReasonInv, SessionsHaveReasons, CardsHaveReasons, SessionReasons, LoadedOK,
                ListedOK, WantedGiven
<1>2. CASE \E r \in Slots : Arrive(r)
  BY <1>2, ArriveReasons
<1>3. CASE \E r \in Slots : Proceed(r)
  BY <1>3, ChecksReasons, FlushApplicationReasons, RejectListedReasons, FlushOthersReasons,
     SettleReasons DEF Proceed
<1>4. CASE \E r \in Slots : Fail(r)
  BY <1>4, SettleReasons
<1>. QED BY <1>1, <1>2, <1>3, <1>4 DEF Next

\* However many moves, rejections, withdrawals, returns and ends interleave, and
\* whatever each of them overwrites, a card that says "rejected" in any column
\* says why (applications_service.py, update and auto_reject_for_vacancy).
THEOREM RejectionsHaveReasons == ReasonsAreKept /\ Spec => []RejectionHasReason
<1>1. ReasonsAreKept /\ Spec => []ReasonInv
  <2>1. ReasonsAreKept => ReasonsAreKept'
    BY DEF ReasonsAreKept
  <2>. QED BY <2>1, InitReasons, NextReasons, PTL DEF Spec
<1>2. ReasonInv => RejectionHasReason
  <2> SUFFICES ASSUME ReasonInv, NEW v \in Vacancies, NEW c \in Candidates,
                      applications[v][c].row # "absent",
                      \/ applications[v][c].stage = NULL
                      \/ applications[v][c].status = "rejected"
                      \/ applications[v][c].rejectedAt # NULL
               PROVE  applications[v][c].reason \in Reason \ {"none"}
    BY DEF RejectionHasReason, Card
  <2>1. applications[v][c].reason \in Reason
    BY DEF ReasonInv, HomeInv, RaceTyped, TypeOK, Application
  <2>2. CardOK(applications[v][c])
    BY DEF ReasonInv, CardsHaveReasons
  <2>. QED BY <2>1, <2>2 DEF CardOK, Given, NoApplication
<1>. QED BY <1>1, <1>2, PTL

-----------------------------------------------------------------------------
(* One request at a time is the board of Recruitment                       *)
(*                                                                         *)
(* With one session nobody commits between its first query and its commit: *)
(* what it loaded are the committed rows, so its guards are the guards of  *)
(* the request, and its uncommitted rows are what the request writes.      *)

OneAtATime == \A r, k \in Slots : r = k

OfCard(q) == q.op \in {"patch", "apply", "withdraw"}
Ending(q) == q.op \in {"end", "deleteVacancy"}

\* The first query found what the request needs.
Loaded(s, vacs, apps, stgs) ==
    LET q == s.request
    IN  /\ q.op \in {"patch", "withdraw"} =>
              s.application = apps[q.vacancy][q.candidate] /\ IsActive(s.application)
        /\ q.op = "apply" =>
              /\ s.vacancy = vacs[q.vacancy]
              /\ IsActive(s.vacancy)
              /\ q.portal => s.vacancy.status = "active"
        /\ Ending(q) => s.vacancy = vacs[q.vacancy] /\ s.vacancy.row # "absent"
        /\ q.op = "end" =>
              StatusChanges(s.vacancy, q.body) /\ q.body.status \in {"closed", "cancelled"}
        /\ q.op = "deleteStage" => stgs[q.stage].row = "active" /\ ~Protected(stgs, q.stage)

\* The guards of a PATCH, and what it writes.
Accepts(vacs, stgs, v, a, b) ==
    /\ b.stage \in Stages => /\ IsActive(vacs[v])
                             /\ b.stage \in ActiveStagesOf(stgs, vacs[v].process)
    /\ b.stage = NULL /\ a.status # "rejected" => b.reason = "manual"

Transits(stgs, a, b, row) ==
    /\ b.stage = Unset => row = PatchedRow(a, b)
    /\ b.stage = NULL /\ a.status # "rejected" => row = RejectedRow(a, b.reason)
    /\ b.stage = NULL /\ a.status = "rejected" => row = RejectedAgainRow(a, b)
    /\ b.stage \in Stages => row = IF stgs[b.stage].final THEN HiredRow(a, b) ELSE MovedRow(a, b)

\* The guards were passed.
Decided(s, vacs, apps, stgs) ==
    LET q == s.request
        first == FirstStage(stgs, s.vacancy.process)
    IN  /\ q.op = "patch" =>
              /\ Accepts(vacs, stgs, q.vacancy, s.application, q.body)
              /\ Transits(stgs, s.application, q.body, s.wanted)
        /\ q.op = "withdraw" => s.wanted = [s.application EXCEPT !.row = "inactive"]
        /\ q.op = "apply" =>
              /\ s.application = apps[q.vacancy][q.candidate]
              /\ \/ /\ s.application.row = "absent"
                    /\ s.wanted = InsertedRow(q.status, first, FALSE)
                 \/ /\ s.application.row = "inactive"
                    /\ s.wanted = ResurrectedRow(s.application, q.status, first)
        /\ q.op = "end" => GuardClose(stgs, s.vacancy, apps[q.vacancy], q.body)
        /\ q.op = "deleteVacancy" => ~HasHire(apps[q.vacancy])
        /\ q.op = "deleteStage" =>
              \A v \in Vacancies, c \in Candidates :
                 ~(IsActive(apps[v][c]) /\ apps[v][c].stage = q.stage)

Rejectable(cards) == {c \in Candidates : AutoRejectable(cards[c])}
Notices(v, cs) == {Board!ApplicationTask("notify_rejection", v, c) : c \in cs}

\* The auto-reject is under way, or done.
Rejects(s) == s.pc \in {"rejecting", "flushed"} /\ Ending(s.request)

\* Whom it has still to reject, and the tasks of the request.
Announces(s, apps) ==
    LET q == s.request
        cards == apps[q.vacancy]
    IN  /\ Rejects(s) =>
              /\ s.left \subseteq Rejectable(cards)
              /\ s.tasks = Notices(q.vacancy, Rejectable(cards) \ s.left)
              /\ s.pc = "rejecting" => s.listed = cards
              /\ s.pc = "flushed" => s.left = {}
        /\ s.pc = "flushed" /\ OfCard(q) => s.tasks = HandlerTasks(q, s.application, s.wanted)
        /\ ~Rejects(s) /\ ~(s.pc = "flushed" /\ OfCard(q)) => s.tasks = {}

\* The rows the session has locked, and what it leaves in them.
HoldsVacancy(s, v) ==
    /\ s.pc \in {"listing", "rejecting", "flushed"} /\ Ending(s.request)
    /\ v = s.request.vacancy
    /\ WantedVacancy(s) # s.vacancy

HoldsCard(s, apps, v, c) ==
    /\ v = s.request.vacancy
    /\ \/ s.pc = "flushed" /\ OfCard(s.request) /\ c = s.request.candidate
       \/ Rejects(s) /\ c \in Rejectable(apps[v]) \ s.left

HoldsStage(s, x) ==
    s.pc = "flushed" /\ s.request.op = "deleteStage" /\ x = s.request.stage

CardFor(s, card) ==
    IF Ending(s.request) THEN RejectedRow(card, EndReason(s.request)) ELSE s.wanted

Held(s, apps, stgs, nv, na, ns) ==
    /\ \A v \in Vacancies :
          /\ nv[v].by # NULL <=> HoldsVacancy(s, v)
          /\ nv[v].by # NULL => nv[v].row = WantedVacancy(s)
    /\ \A v \in Vacancies, c \in Candidates :
          /\ na[v][c].by # NULL <=> HoldsCard(s, apps, v, c)
          /\ na[v][c].by # NULL => na[v][c].row = CardFor(s, apps[v][c])
    /\ \A x \in Stages :
          /\ ns[x].by # NULL <=> HoldsStage(s, x)
          /\ ns[x].by # NULL => ns[x].row = [stgs[x] EXCEPT !.row = "inactive"]

Serial(s, vacs, apps, stgs, nv, na, ns) ==
    /\ s.pc # "idle" => Loaded(s, vacs, apps, stgs)
    /\ s.pc \notin {"idle", "read"} => Decided(s, vacs, apps, stgs)
    /\ Announces(s, apps)
    /\ Held(s, apps, stgs, nv, na, ns)

SerialInv ==
    /\ RaceTyped
    /\ \A r \in Slots : Serial(session[r], vacancies, applications, stages,
                               newVacancy, newApplication, newStage)

LEMMA SerialStep ==
    ASSUME OneAtATime, NEW r \in Slots, RaceTyped',
           Serial(session'[r], vacancies', applications', stages',
                  newVacancy', newApplication', newStage')
    PROVE  SerialInv'
<1>1. \A k \in Slots : k = r
  BY DEF OneAtATime
<1>. QED BY <1>1 DEF SerialInv

\* Up to its guards a session holds nothing.
LEMMA SerialEarly ==
    ASSUME NEW s, NEW t, NEW vacs, NEW apps, NEW stgs, NEW nv, NEW na, NEW ns,
           Serial(s, vacs, apps, stgs, nv, na, ns),
           s.pc \in {"idle", "read", "checked"}, t.pc \in {"idle", "read", "checked"},
           t.tasks = {},
           t.pc # "idle" => Loaded(t, vacs, apps, stgs),
           t.pc = "checked" => Decided(t, vacs, apps, stgs)
    PROVE  Serial(t, vacs, apps, stgs, nv, na, ns)
<1>1. Announces(t, apps)
  BY DEF Announces, Rejects
<1>2. /\ \A v : ~HoldsVacancy(s, v) /\ ~HoldsVacancy(t, v)
      /\ \A v, c : ~HoldsCard(s, apps, v, c) /\ ~HoldsCard(t, apps, v, c)
      /\ \A x : ~HoldsStage(s, x) /\ ~HoldsStage(t, x)
  BY DEF HoldsVacancy, HoldsCard, HoldsStage, Rejects
<1>3. Held(t, apps, stgs, nv, na, ns)
  BY <1>2 DEF Serial, Held
<1>. QED BY <1>1, <1>3 DEF Serial

\* A session with nothing locked.
LEMMA SerialIdle ==
    ASSUME NEW t, NEW vacs, NEW apps, NEW stgs, NEW nv, NEW na, NEW ns,
           t.pc = "idle", t.tasks = {},
           \A v \in Vacancies : nv[v].by = NULL,
           \A v \in Vacancies, c \in Candidates : na[v][c].by = NULL,
           \A x \in Stages : ns[x].by = NULL
    PROVE  Serial(t, vacs, apps, stgs, nv, na, ns)
<1>1. Announces(t, apps)
  BY DEF Announces, Rejects
<1>2. /\ \A v : ~HoldsVacancy(t, v)
      /\ \A v, c : ~HoldsCard(t, apps, v, c)
      /\ \A x : ~HoldsStage(t, x)
  BY DEF HoldsVacancy, HoldsCard, HoldsStage, Rejects
<1>3. Held(t, apps, stgs, nv, na, ns)
  BY <1>2 DEF Held
<1>. QED BY <1>1, <1>3 DEF Serial

LEMMA InitSerial == Init => SerialInv
<1> SUFFICES ASSUME Init, NEW r \in Slots
             PROVE  Serial(session[r], vacancies, applications, stages,
                           newVacancy, newApplication, newStage)
  BY InitTyped DEF SerialInv
<1>1. session[r] = Idle
  BY DEF Init
<1>2. /\ \A v \in Vacancies : newVacancy[v].by = NULL
      /\ \A v \in Vacancies, c \in Candidates : newApplication[v][c].by = NULL
      /\ \A x \in Stages : newStage[x].by = NULL
  BY DEF Init, NoDraft
<1>. QED BY <1>1, <1>2, IdleType, SerialIdle

LEMMA ArriveSerial ==
    ASSUME OneAtATime, SerialInv, NEW r \in Slots, Arrive(r)
    PROVE  SerialInv' /\ UNCHANGED <<rows, tasks>>
<1>1. PICK q \in Requests :
         \/ ReadApplication(r, q) \/ ReadOpenVacancy(r, q) \/ ReadVacancy(r, q) \/ ReadStage(r, q)
  BY DEF Arrive
<1>2. PICK vac, app :
         /\ Begin(r, q, vac, app)
         /\ q.op \in {"patch", "withdraw"} => app = applications[q.vacancy][q.candidate]
         /\ q.op \in {"apply", "end", "deleteVacancy"} => vac = vacancies[q.vacancy]
  BY <1>1 DEF ReadApplication, ReadOpenVacancy, ReadVacancy, ReadStage
<1>. DEFINE t == [Idle EXCEPT !.pc = "read", !.request = q, !.number = sent + 1,
                              !.vacancy = vac, !.application = app]
<1>3. Go(r, t) /\ session[r].pc = "idle" /\ UNCHANGED <<rows, drafts, tasks>>
  BY <1>2 DEF Begin, At
<1>4. t.pc = "read" /\ t.request = q /\ t.vacancy = vac /\ t.application = app /\ t.tasks = {}
  BY DEF Idle
<1>. HIDE DEF t
<1>5. session'[r] = t
  BY <1>3 DEF Go, SerialInv, RaceTyped, TypeOK
<1>6. Loaded(t, vacancies, applications, stages)
  <2>1. CASE q.op \in {"patch", "withdraw"}
    <3>1. IsActive(applications[q.vacancy][q.candidate])
      BY <1>1, <2>1 DEF ReadApplication, ReadOpenVacancy, ReadVacancy, ReadStage
    <3>. QED BY <1>2, <1>4, <2>1, <3>1 DEF Loaded, Ending
  <2>2. CASE q.op = "apply"
    <3>1. /\ IsActive(vacancies[q.vacancy])
          /\ q.portal => vacancies[q.vacancy].status = "active"
      BY <1>1, <2>2 DEF ReadApplication, ReadOpenVacancy, ReadVacancy, ReadStage
    <3>. QED BY <1>2, <1>4, <2>2, <3>1 DEF Loaded, Ending
  <2>3. CASE q.op \in {"end", "deleteVacancy"}
    <3>1. /\ vacancies[q.vacancy].row # "absent"
          /\ q.op = "end" => /\ StatusChanges(vacancies[q.vacancy], q.body)
                             /\ q.body.status \in {"closed", "cancelled"}
      BY <1>1, <2>3 DEF ReadApplication, ReadOpenVacancy, ReadVacancy, ReadStage
    <3>. QED BY <1>2, <1>4, <2>3, <3>1 DEF Loaded, Ending
  <2>4. CASE q.op = "deleteStage"
    <3>1. stages[q.stage].row = "active" /\ ~Protected(stages, q.stage)
      BY <1>1, <2>4 DEF ReadApplication, ReadOpenVacancy, ReadVacancy, ReadStage
    <3>. QED BY <1>4, <2>4, <3>1 DEF Loaded, Ending
  <2>. QED BY <2>1, <2>2, <2>3, <2>4, RequestTypes
<1>7. Serial(t, vacancies, applications, stages, newVacancy, newApplication, newStage)
  BY <1>3, <1>4, <1>6, SerialEarly DEF SerialInv
<1>8. RaceTyped'
  BY ArriveTyped DEF SerialInv
<1>. QED BY <1>3, <1>5, <1>7, <1>8, SerialStep DEF rows, drafts

\* A guard that holds, or the session starts over.
LEMMA GuardSerial ==
    ASSUME OneAtATime, SerialInv, RaceTyped', NEW r \in Slots,
           session[r].pc \in {"read", "checked"}, NEW accepted \in BOOLEAN, NEW t,
           ElseRefuse(r, accepted, t),
           accepted => /\ t.pc = "checked" /\ t.tasks = session[r].tasks
                       /\ Loaded(t, vacancies, applications, stages)
                       /\ Decided(t, vacancies, applications, stages)
    PROVE  SerialInv' /\ UNCHANGED <<rows, tasks>>
<1>1. /\ Serial(session[r], vacancies, applications, stages, newVacancy, newApplication, newStage)
      /\ session[r].tasks = {}
  BY DEF SerialInv, Serial, Announces, Rejects
<1>2. UNCHANGED <<rows, drafts, tasks>> /\ session'[r] = IF accepted THEN t ELSE Idle
  BY DEF ElseRefuse, UnchangedRest, Go, SerialInv, RaceTyped, TypeOK
<1>3. Serial(session'[r], vacancies, applications, stages, newVacancy, newApplication, newStage)
  <2>1. CASE accepted
    <3>1. Serial(t, vacancies, applications, stages, newVacancy, newApplication, newStage)
      BY <1>1, <2>1, SerialEarly
    <3>. QED BY <1>2, <2>1, <3>1
  <2>2. CASE ~accepted
    <3>1. Serial(Idle, vacancies, applications, stages, newVacancy, newApplication, newStage)
      BY <1>1, IdleType, SerialEarly
    <3>. QED BY <1>2, <2>2, <3>1
  <2>. QED BY <2>1, <2>2
<1>. QED BY <1>2, <1>3, SerialStep DEF rows, drafts

LEMMA ChecksSerial ==
    ASSUME OneAtATime, SerialInv, NEW r \in Slots,
           \/ CheckPatch(r) \/ CheckApply(r) \/ CheckWithdraw(r) \/ RefuseInsert(r)
           \/ CheckVacancy(r) \/ CheckStage(r)
    PROVE  SerialInv' /\ UNCHANGED <<rows, tasks>>
<1>. DEFINE s == session[r]
            q == s.request
<1>1. RaceTyped'
  BY ChecksTyped DEF SerialInv
<1>2. s \in Session /\ (s.pc # "idle" => q \in Requests)
  BY DEF SerialInv, RaceTyped, TypeOK, SessionsShaped, At
<1>3. s.pc = "read" => Loaded(s, vacancies, applications, stages)
  BY DEF SerialInv, Serial
<1>. HIDE DEF s
<1>4. CASE CheckPatch(r)
  <2>. DEFINE accepted == /\ IsActive(applications[q.vacancy][q.candidate])
                          /\ PatchAccepted(q.vacancy, s.application, q.body)
              w == IF accepted THEN TransitionRow(s.application, q.body) ELSE s.application
              t == [s EXCEPT !.pc = "checked", !.wanted = w]
  <2>1. s.pc = "read" /\ q.op = "patch" /\ ElseRefuse(r, accepted, t)
    BY <1>4 DEF CheckPatch, At, Op, s
  <2>2. accepted \in BOOLEAN
    BY DEF IsActive, PatchAccepted
  <2>3. q.body \in PatchBody
    BY <1>2, <2>1, RequestTypes
  <2>4. accepted => /\ Accepts(vacancies, stages, q.vacancy, s.application, q.body)
                    /\ Transits(stages, s.application, q.body, w)
    <3>1. accepted => Accepts(vacancies, stages, q.vacancy, s.application, q.body)
      BY DEF PatchAccepted, StageInProcess, Accepts
    <3>2. Transits(stages, s.application, q.body, TransitionRow(s.application, q.body))
      <4>1. CASE q.body.stage = Unset
        BY <4>1, BoardAssumption DEF TransitionRow, Transits
      <4>2. CASE q.body.stage = NULL
        BY <4>2, BoardAssumption DEF TransitionRow, Transits
      <4>3. CASE q.body.stage \in Stages
        BY <4>3, BoardAssumption DEF TransitionRow, Transits
      <4>. QED BY <2>3, <4>1, <4>2, <4>3 DEF PatchBody
    <3>. QED BY <3>1, <3>2
  <2>. HIDE DEF accepted, w
  <2>5. /\ t.pc = "checked" /\ t.wanted = w /\ t.request = q /\ t.tasks = s.tasks
        /\ t.application = s.application /\ t.vacancy = s.vacancy
    BY <1>2 DEF Session
  <2>. HIDE DEF t
  <2>6. Loaded(t, vacancies, applications, stages)
    BY <1>3, <2>1, <2>5 DEF Loaded
  <2>7. accepted => Decided(t, vacancies, applications, stages)
    BY <2>1, <2>4, <2>5 DEF Decided
  <2>. QED BY <1>1, <2>1, <2>2, <2>5, <2>6, <2>7, GuardSerial DEF s
<1>5. CASE CheckApply(r)
  <2>. DEFINE existing == applications[q.vacancy][q.candidate]
              first == FirstStage(stages, s.vacancy.process)
              w == IF existing.row = "absent" THEN InsertedRow(q.status, first, FALSE)
                   ELSE ResurrectedRow(existing, q.status, first)
              t == [s EXCEPT !.pc = "checked", !.application = existing, !.wanted = w]
              accepted == ~IsActive(existing)
  <2>1. s.pc = "read" /\ q.op = "apply" /\ ElseRefuse(r, accepted, t)
    BY <1>5 DEF CheckApply, At, Op, s
  <2>2. accepted \in BOOLEAN
    BY DEF IsActive
  <2>3. existing \in Application
    BY <1>2, <2>1, RequestTypes DEF SerialInv, RaceTyped, TypeOK
  <2>4. accepted => \/ existing.row = "absent" /\ w = InsertedRow(q.status, first, FALSE)
                    \/ existing.row = "inactive" /\ w = ResurrectedRow(existing, q.status, first)
    BY <2>3 DEF IsActive, Application, RowState
  <2>. HIDE DEF accepted, w
  <2>5. /\ t.pc = "checked" /\ t.wanted = w /\ t.request = q /\ t.tasks = s.tasks
        /\ t.application = existing /\ t.vacancy = s.vacancy
    BY <1>2 DEF Session
  <2>. HIDE DEF t
  <2>6. Loaded(t, vacancies, applications, stages)
    BY <1>3, <2>1, <2>5 DEF Loaded, Ending
  <2>7. accepted => Decided(t, vacancies, applications, stages)
    BY <2>1, <2>4, <2>5 DEF Decided
  <2>. QED BY <1>1, <2>1, <2>2, <2>5, <2>6, <2>7, GuardSerial DEF s
<1>6. CASE CheckWithdraw(r)
  <2>. DEFINE w == [s.application EXCEPT !.row = "inactive"]
              t == [s EXCEPT !.pc = "checked", !.wanted = w]
  <2>1. s.pc = "read" /\ q.op = "withdraw" /\ ElseRefuse(r, TRUE, t)
    BY <1>6 DEF CheckWithdraw, At, Op, s
  <2>2. /\ t.pc = "checked" /\ t.wanted = w /\ t.request = q /\ t.tasks = s.tasks
        /\ t.application = s.application /\ t.vacancy = s.vacancy
    BY <1>2 DEF Session
  <2>. HIDE DEF t
  <2>3. Loaded(t, vacancies, applications, stages) /\ Decided(t, vacancies, applications, stages)
    BY <1>3, <2>1, <2>2 DEF Loaded, Decided
  <2>. QED BY <1>1, <2>1, <2>2, <2>3, GuardSerial DEF s
<1>7. CASE RefuseInsert(r)
  <2>1. s.pc = "checked" /\ ElseRefuse(r, FALSE, Idle)
    BY <1>7 DEF RefuseInsert, At, s
  <2>. QED BY <1>1, <2>1, GuardSerial DEF s
<1>8. CASE CheckVacancy(r)
  <2>. DEFINE accepted ==
          IF q.op = "end" THEN GuardClose(stages, s.vacancy, applications[q.vacancy], q.body)
                          ELSE ~HasHire(applications[q.vacancy])
              t == [s EXCEPT !.pc = "checked"]
  <2>1. s.pc = "read" /\ Ending(q) /\ ElseRefuse(r, accepted, t)
    BY <1>8 DEF CheckVacancy, At, Op, Ending, s
  <2>2. accepted \in BOOLEAN
    BY DEF GuardClose, HasHire
  <2>3. accepted =>
           /\ q.op = "end" => GuardClose(stages, s.vacancy, applications[q.vacancy], q.body)
           /\ q.op = "deleteVacancy" => ~HasHire(applications[q.vacancy])
    OBVIOUS
  <2>. HIDE DEF accepted
  <2>4. /\ t.pc = "checked" /\ t.request = q /\ t.tasks = s.tasks
        /\ t.application = s.application /\ t.vacancy = s.vacancy
    BY <1>2 DEF Session
  <2>. HIDE DEF t
  <2>5. Loaded(t, vacancies, applications, stages)
    BY <1>3, <2>1, <2>4 DEF Loaded, Ending
  <2>6. accepted => Decided(t, vacancies, applications, stages)
    BY <2>1, <2>3, <2>4 DEF Decided, Ending
  <2>. QED BY <1>1, <2>1, <2>2, <2>4, <2>5, <2>6, GuardSerial DEF s
<1>9. CASE CheckStage(r)
  <2>. DEFINE accepted == \A v \in Vacancies, c \in Candidates :
                 ~(IsActive(applications[v][c]) /\ applications[v][c].stage = q.stage)
              t == [s EXCEPT !.pc = "checked"]
  <2>1. s.pc = "read" /\ q.op = "deleteStage" /\ ElseRefuse(r, accepted, t)
    BY <1>9 DEF CheckStage, At, Op, s
  <2>2. /\ t.pc = "checked" /\ t.request = q /\ t.tasks = s.tasks
        /\ t.application = s.application /\ t.vacancy = s.vacancy
    BY <1>2 DEF Session
  <2>. HIDE DEF t
  <2>3. Loaded(t, vacancies, applications, stages)
    BY <1>3, <2>1, <2>2 DEF Loaded, Ending
  <2>4. accepted => Decided(t, vacancies, applications, stages)
    BY <2>1, <2>2 DEF Decided
  <2>. QED BY <1>1, <2>1, <2>2, <2>3, <2>4, GuardSerial DEF s
<1>. QED BY <1>4, <1>5, <1>6, <1>7, <1>8, <1>9

\* What was decided stays so while the session goes on to write it.
LEMMA StillDecided ==
    ASSUME NEW s, NEW t, NEW vacs, NEW apps, NEW stgs,
           t.request = s.request, t.application = s.application,
           t.wanted = s.wanted, t.vacancy = s.vacancy,
           Loaded(s, vacs, apps, stgs), Decided(s, vacs, apps, stgs)
    PROVE  Loaded(t, vacs, apps, stgs) /\ Decided(t, vacs, apps, stgs)
<1>1. Loaded(t, vacs, apps, stgs)
  BY DEF Loaded
<1>2. Decided(t, vacs, apps, stgs)
  <2>. DEFINE q == s.request
              w == s.wanted
              a == s.application
              vac == s.vacancy
  <2>1. t.request = q /\ t.wanted = w /\ t.application = a /\ t.vacancy = vac
    OBVIOUS
  <2>2. /\ s.request = q /\ s.wanted = w /\ s.application = a /\ s.vacancy = vac
    OBVIOUS
  <2>. HIDE DEF q, w, a, vac
  <2>. QED BY <2>1, <2>2 DEF Decided
<1>. QED BY <1>1, <1>2

LEMMA FlushApplicationSerial ==
    ASSUME OneAtATime, SerialInv, NEW r \in Slots, FlushApplication(r)
    PROVE  SerialInv' /\ UNCHANGED <<rows, tasks>>
<1>. DEFINE s == session[r]
            q == s.request
            card == applications[q.vacancy][q.candidate]
            row == Merge(s.application, s.wanted, card)
            t == [s EXCEPT !.pc = "flushed", !.tasks = HandlerTasks(q, s.application, row)]
            draft == [by |-> r, row |-> s.wanted]
<1>1. RaceTyped'
  BY FlushApplicationTyped DEF SerialInv
<1>2. /\ s \in Session /\ s.pc = "checked" /\ q \in Requests /\ OfCard(q)
      /\ s.application \in Application /\ s.wanted \in Application
  BY DEF FlushApplication, At, Op, OfCard, Session, SerialInv, RaceTyped, TypeOK, SessionsShaped
<1>3. q.vacancy \in Vacancies /\ q.candidate \in Candidates
  BY <1>2, RequestTypes DEF OfCard
<1>4. /\ Loaded(s, vacancies, applications, stages) /\ Decided(s, vacancies, applications, stages)
      /\ Held(s, applications, stages, newVacancy, newApplication, newStage)
  BY <1>2 DEF SerialInv, Serial
<1>5. s.application = card
  BY <1>2, <1>4 DEF Loaded, Decided, OfCard
<1>6. row = s.wanted
  BY <1>2, <1>5, MergeAlone
<1>7. /\ newApplication' = [newApplication EXCEPT ![q.vacancy][q.candidate] = [by |-> r, row |-> row]]
      /\ Go(r, t) /\ UNCHANGED <<rows, newVacancy, newStage, tasks>>
  BY DEF FlushApplication, UnchangedRest
<1>. HIDE DEF s, row
<1>8. /\ t.pc = "flushed" /\ t.request = q /\ t.application = s.application
      /\ t.wanted = s.wanted /\ t.vacancy = s.vacancy
      /\ t.tasks = HandlerTasks(q, s.application, s.wanted)
  BY <1>2, <1>6 DEF Session
<1>9. session'[r] = t
  BY <1>7 DEF Go, SerialInv, RaceTyped, TypeOK
<1>. HIDE DEF t
<1>10. Loaded(t, vacancies, applications, stages) /\ Decided(t, vacancies, applications, stages)
  BY <1>4, <1>8, StillDecided
<1>11. Announces(t, applications)
  BY <1>2, <1>8 DEF Announces, Rejects, Ending, OfCard
<1>12. /\ \A v : ~HoldsVacancy(s, v) /\ ~HoldsVacancy(t, v)
       /\ \A v, c : /\ ~HoldsCard(s, applications, v, c)
                    /\ HoldsCard(t, applications, v, c) <=> v = q.vacancy /\ c = q.candidate
       /\ \A x : ~HoldsStage(s, x) /\ ~HoldsStage(t, x)
  BY <1>2, <1>8 DEF HoldsVacancy, HoldsCard, HoldsStage, Rejects, OfCard, Ending
<1>13. Held(t, applications, stages, newVacancy, newApplication', newStage)
  <2>1. \A c : CardFor(t, c) = s.wanted
    BY <1>2, <1>8 DEF CardFor, Ending, OfCard
  <2>2. \A v \in Vacancies, c \in Candidates :
           newApplication'[v][c] = IF v = q.vacancy /\ c = q.candidate THEN draft
                                                                      ELSE newApplication[v][c]
    BY <1>3, <1>6, <1>7 DEF SerialInv, RaceTyped, TypeOK
  <2>3. draft.by # NULL /\ draft.row = s.wanted
    BY RaceAssumption
  <2>. HIDE DEF draft
  <2>4. \A v \in Vacancies, c \in Candidates :
           /\ newApplication'[v][c].by # NULL <=> HoldsCard(t, applications, v, c)
           /\ newApplication'[v][c].by # NULL => newApplication'[v][c].row = CardFor(t, applications[v][c])
    BY <1>4, <1>12, <2>1, <2>2, <2>3 DEF Held
  <2>5. \A v \in Vacancies : newVacancy[v].by = NULL
    BY <1>4, <1>12 DEF Held
  <2>6. \A x \in Stages : newStage[x].by = NULL
    BY <1>4, <1>12 DEF Held
  <2>. QED BY <1>12, <2>4, <2>5, <2>6 DEF Held
<1>14. Serial(t, vacancies, applications, stages, newVacancy, newApplication', newStage)
  BY <1>10, <1>11, <1>13 DEF Serial
<1>. QED BY <1>1, <1>7, <1>9, <1>14, SerialStep DEF rows

LEMMA FlushStageSerial ==
    ASSUME OneAtATime, SerialInv, NEW r \in Slots, FlushStage(r)
    PROVE  SerialInv' /\ UNCHANGED <<rows, tasks>>
<1>. DEFINE s == session[r]
            q == s.request
            t == [s EXCEPT !.pc = "flushed"]
            draft == [by |-> r, row |-> [stages[q.stage] EXCEPT !.row = "inactive"]]
<1>1. RaceTyped'
  BY FlushOthersTyped DEF SerialInv
<1>2. s \in Session /\ s.pc = "checked" /\ q \in Requests /\ q.op = "deleteStage"
  BY DEF FlushStage, At, Op, SerialInv, RaceTyped, TypeOK, SessionsShaped
<1>3. q.stage \in Stages
  BY <1>2, RequestTypes
<1>4. /\ Loaded(s, vacancies, applications, stages) /\ Decided(s, vacancies, applications, stages)
      /\ Held(s, applications, stages, newVacancy, newApplication, newStage)
      /\ Announces(s, applications)
  BY <1>2 DEF SerialInv, Serial
<1>5. /\ newStage' = [newStage EXCEPT ![q.stage] = draft]
      /\ Go(r, t) /\ UNCHANGED <<rows, newVacancy, newApplication, tasks>>
  BY DEF FlushStage, UnchangedRest
<1>. HIDE DEF s
<1>6. /\ t.pc = "flushed" /\ t.request = q /\ t.application = s.application
      /\ t.wanted = s.wanted /\ t.vacancy = s.vacancy /\ t.tasks = s.tasks
  BY <1>2 DEF Session
<1>7. session'[r] = t
  BY <1>5 DEF Go, SerialInv, RaceTyped, TypeOK
<1>. HIDE DEF t
<1>8. Loaded(t, vacancies, applications, stages) /\ Decided(t, vacancies, applications, stages)
  BY <1>4, <1>6, StillDecided
<1>9. Announces(t, applications)
  BY <1>2, <1>4, <1>6 DEF Announces, Rejects, Ending, OfCard
<1>10. /\ \A v : ~HoldsVacancy(s, v) /\ ~HoldsVacancy(t, v)
       /\ \A v, c : ~HoldsCard(s, applications, v, c) /\ ~HoldsCard(t, applications, v, c)
       /\ \A x : ~HoldsStage(s, x) /\ (HoldsStage(t, x) <=> x = q.stage)
  BY <1>2, <1>6 DEF HoldsVacancy, HoldsCard, HoldsStage, Rejects, OfCard, Ending
<1>11. Held(t, applications, stages, newVacancy, newApplication, newStage')
  <2>1. draft.by # NULL /\ draft.row = [stages[q.stage] EXCEPT !.row = "inactive"]
    BY RaceAssumption
  <2>. HIDE DEF draft
  <2>2. \A x \in Stages : newStage'[x] = IF x = q.stage THEN draft ELSE newStage[x]
    BY <1>3, <1>5 DEF SerialInv, RaceTyped, TypeOK
  <2>3. \A x \in Stages :
           /\ newStage'[x].by # NULL <=> HoldsStage(t, x)
           /\ newStage'[x].by # NULL => newStage'[x].row = [stages[x] EXCEPT !.row = "inactive"]
    BY <1>4, <1>10, <2>1, <2>2 DEF Held
  <2>4. \A v \in Vacancies : newVacancy[v].by = NULL
    BY <1>4, <1>10 DEF Held
  <2>5. \A v \in Vacancies, c \in Candidates : newApplication[v][c].by = NULL
    BY <1>4, <1>10 DEF Held
  <2>. QED BY <1>10, <2>3, <2>4, <2>5 DEF Held
<1>12. Serial(t, vacancies, applications, stages, newVacancy, newApplication, newStage')
  BY <1>8, <1>9, <1>11 DEF Serial
<1>. QED BY <1>1, <1>5, <1>7, <1>12, SerialStep DEF rows

LEMMA FlushVacancySerial ==
    ASSUME OneAtATime, SerialInv, NEW r \in Slots, FlushVacancy(r)
    PROVE  SerialInv' /\ UNCHANGED <<rows, tasks>>
<1>. DEFINE s == session[r]
            q == s.request
            wanted == WantedVacancy(s)
            t == [s EXCEPT !.pc = "listing"]
            draft == [by |-> r, row |-> wanted]
<1>1. RaceTyped'
  BY FlushOthersTyped DEF SerialInv
<1>2. s \in Session /\ s.pc = "checked" /\ q \in Requests /\ Ending(q)
  BY DEF FlushVacancy, At, Op, Ending, SerialInv, RaceTyped, TypeOK, SessionsShaped
<1>3. q.vacancy \in Vacancies /\ (q.op = "end" => q.body \in VacancyPatchBody)
  BY <1>2, RequestTypes DEF Ending
<1>4. /\ Loaded(s, vacancies, applications, stages) /\ Decided(s, vacancies, applications, stages)
      /\ Held(s, applications, stages, newVacancy, newApplication, newStage)
      /\ Announces(s, applications)
  BY <1>2 DEF SerialInv, Serial
<1>5. s.vacancy \in Vacancy /\ s.vacancy = vacancies[q.vacancy]
  BY <1>2, <1>4 DEF Session, Loaded
<1>6. wanted \in Vacancy
  <2>1. CASE q.op = "end"
    <3>1. wanted = PatchedVacancy(s.vacancy, q.body)
      BY <2>1 DEF WantedVacancy
    <3>2. s.vacancy \in Vacancy /\ q.body \in VacancyPatchBody
      BY <1>3, <1>5, <2>1
    <3>. QED BY <3>1, <3>2, WantedVacancyType
  <2>2. CASE q.op # "end"
    <3>1. wanted = [s.vacancy EXCEPT !.row = "inactive"]
      BY <2>2 DEF WantedVacancy
    <3>. QED BY <1>5, <3>1 DEF Vacancy, RowState
  <2>. QED BY <2>1, <2>2
<1>7. Merge(s.vacancy, wanted, vacancies[q.vacancy]) = wanted
  BY <1>5, <1>6, MergedVacancyAlone
<1>8. /\ IF wanted = s.vacancy THEN UNCHANGED newVacancy
         ELSE newVacancy' = [newVacancy EXCEPT ![q.vacancy] = draft]
      /\ Go(r, t) /\ UNCHANGED <<rows, newApplication, newStage, tasks>>
  BY <1>7 DEF FlushVacancy, UnchangedRest
<1>. HIDE DEF s
<1>9. /\ t.pc = "listing" /\ t.request = q /\ t.application = s.application
      /\ t.wanted = s.wanted /\ t.vacancy = s.vacancy /\ t.tasks = s.tasks
  BY <1>2 DEF Session
<1>10. session'[r] = t
  BY <1>8 DEF Go, SerialInv, RaceTyped, TypeOK
<1>. HIDE DEF t
<1>11. Loaded(t, vacancies, applications, stages) /\ Decided(t, vacancies, applications, stages)
  BY <1>4, <1>9, StillDecided
<1>12. Announces(t, applications)
  BY <1>2, <1>4, <1>9 DEF Announces, Rejects
<1>13. WantedVacancy(t) = wanted
  BY <1>9 DEF WantedVacancy
<1>. HIDE DEF wanted
<1>14. /\ \A v : /\ ~HoldsVacancy(s, v)
                 /\ HoldsVacancy(t, v) <=> v = q.vacancy /\ wanted # s.vacancy
       /\ \A v, c : ~HoldsCard(s, applications, v, c) /\ ~HoldsCard(t, applications, v, c)
       /\ \A x : ~HoldsStage(s, x) /\ ~HoldsStage(t, x)
  BY <1>2, <1>9, <1>13 DEF HoldsVacancy, HoldsCard, HoldsStage, Rejects
<1>15. Held(t, applications, stages, newVacancy', newApplication, newStage)
  <2>1. draft.by # NULL /\ draft.row = wanted
    BY RaceAssumption
  <2>. HIDE DEF draft
  <2>2. \A v \in Vacancies :
           newVacancy'[v] = IF v = q.vacancy /\ wanted # s.vacancy THEN draft ELSE newVacancy[v]
    BY <1>3, <1>8 DEF SerialInv, RaceTyped, TypeOK
  <2>3. \A v \in Vacancies :
           /\ newVacancy'[v].by # NULL <=> HoldsVacancy(t, v)
           /\ newVacancy'[v].by # NULL => newVacancy'[v].row = WantedVacancy(t)
    BY <1>4, <1>13, <1>14, <2>1, <2>2 DEF Held
  <2>4. \A x \in Stages : newStage[x].by = NULL
    BY <1>4, <1>14 DEF Held
  <2>5. \A v \in Vacancies, c \in Candidates : newApplication[v][c].by = NULL
    BY <1>4, <1>14 DEF Held
  <2>. QED BY <1>14, <2>3, <2>4, <2>5 DEF Held
<1>16. Serial(t, vacancies, applications, stages, newVacancy', newApplication, newStage)
  BY <1>11, <1>12, <1>15 DEF Serial
<1>. QED BY <1>1, <1>8, <1>10, <1>16, SerialStep DEF rows

LEMMA ListApplicationsSerial ==
    ASSUME OneAtATime, SerialInv, NEW r \in Slots, ListApplications(r)
    PROVE  SerialInv' /\ UNCHANGED <<rows, tasks>>
<1>. DEFINE s == session[r]
            q == s.request
            cards == applications[q.vacancy]
            t == [s EXCEPT !.pc = "rejecting", !.listed = cards,
                           !.left = {c \in Candidates : AutoRejectable(cards[c])}]
<1>1. RaceTyped'
  BY FlushOthersTyped DEF SerialInv
<1>2. s \in Session /\ s.pc = "listing" /\ q \in Requests /\ Ending(q)
  BY DEF ListApplications, At, Op, Ending, SerialInv, RaceTyped, TypeOK, SessionsShaped
<1>3. /\ Loaded(s, vacancies, applications, stages) /\ Decided(s, vacancies, applications, stages)
      /\ Held(s, applications, stages, newVacancy, newApplication, newStage)
      /\ Announces(s, applications)
  BY <1>2 DEF SerialInv, Serial
<1>4. Go(r, t) /\ UNCHANGED <<rows, drafts, tasks>>
  BY DEF ListApplications, UnchangedRest
<1>. HIDE DEF s
<1>5. /\ t.pc = "rejecting" /\ t.request = q /\ t.application = s.application
      /\ t.wanted = s.wanted /\ t.vacancy = s.vacancy /\ t.tasks = s.tasks
      /\ t.listed = cards /\ t.left = Rejectable(cards)
  BY <1>2 DEF Session, Rejectable
<1>6. session'[r] = t
  BY <1>4 DEF Go, SerialInv, RaceTyped, TypeOK
<1>. HIDE DEF t
<1>7. Loaded(t, vacancies, applications, stages) /\ Decided(t, vacancies, applications, stages)
  BY <1>3, <1>5, StillDecided
<1>8. Announces(t, applications)
  <2>1. s.tasks = {}
    BY <1>2, <1>3 DEF Announces, Rejects
  <2>2. Notices(q.vacancy, Rejectable(cards) \ t.left) = {}
    BY <1>5 DEF Notices
  <2>. QED BY <1>5, <2>1, <2>2 DEF Announces
<1>9. WantedVacancy(t) = WantedVacancy(s)
  BY <1>5 DEF WantedVacancy
<1>10. /\ \A v : HoldsVacancy(s, v) <=> HoldsVacancy(t, v)
       /\ \A v, c : ~HoldsCard(s, applications, v, c) /\ ~HoldsCard(t, applications, v, c)
       /\ \A x : ~HoldsStage(s, x) /\ ~HoldsStage(t, x)
  BY <1>2, <1>5, <1>9 DEF HoldsVacancy, HoldsCard, HoldsStage, Rejects
<1>11. Held(t, applications, stages, newVacancy, newApplication, newStage)
  <2>1. \A x \in Stages : newStage[x].by = NULL
    BY <1>3, <1>10 DEF Held
  <2>2. \A v \in Vacancies, c \in Candidates : newApplication[v][c].by = NULL
    BY <1>3, <1>10 DEF Held
  <2>3. \A v \in Vacancies : /\ newVacancy[v].by # NULL <=> HoldsVacancy(t, v)
                             /\ newVacancy[v].by # NULL => newVacancy[v].row = WantedVacancy(t)
    BY <1>3, <1>9, <1>10 DEF Held
  <2>. QED BY <1>10, <2>1, <2>2, <2>3 DEF Held
<1>12. Serial(t, vacancies, applications, stages, newVacancy, newApplication, newStage)
  BY <1>7, <1>8, <1>11 DEF Serial
<1>. QED BY <1>1, <1>4, <1>6, <1>12, SerialStep DEF rows, drafts

LEMMA RejectListedSerial ==
    ASSUME OneAtATime, SerialInv, NEW r \in Slots, NEW c \in Candidates, RejectListed(r, c)
    PROVE  SerialInv' /\ UNCHANGED <<rows, tasks>>
<1>. DEFINE s == session[r]
            q == s.request
            v == q.vacancy
            cards == applications[v]
            notice == Board!ApplicationTask("notify_rejection", v, c)
            t == [s EXCEPT !.left = @ \ {c}, !.tasks = @ \cup {notice}]
            wanted == RejectedRow(s.listed[c], EndReason(q))
            draft == [by |-> r, row |-> wanted]
<1>1. RaceTyped'
  BY RejectListedTyped DEF SerialInv
<1>2. s \in Session /\ s.pc = "rejecting" /\ q \in Requests /\ Ending(q) /\ c \in s.left
  BY DEF RejectListed, At, Op, Ending, SerialInv, RaceTyped, TypeOK, SessionsShaped
<1>3. v \in Vacancies
  BY <1>2, RequestTypes DEF Ending
<1>4. /\ Loaded(s, vacancies, applications, stages) /\ Decided(s, vacancies, applications, stages)
      /\ Held(s, applications, stages, newVacancy, newApplication, newStage)
      /\ Announces(s, applications)
  BY <1>2 DEF SerialInv, Serial
<1>5. /\ s.listed = cards /\ s.left \subseteq Rejectable(cards)
      /\ s.tasks = Notices(v, Rejectable(cards) \ s.left)
  BY <1>2, <1>4 DEF Announces, Rejects
<1>6. cards[c] \in Application /\ wanted \in Application
  <2>1. cards[c] \in Application
    BY <1>3 DEF SerialInv, RaceTyped, TypeOK
  <2>2. EndReason(q) \in Reason
    BY DEF EndReason, AutoRejectReason, Reason
  <2>. QED BY <1>5, <2>1, <2>2 DEF RejectedRow, Application, ApplicationStatus
<1>7. Merge(s.listed[c], wanted, cards[c]) = wanted
  BY <1>5, <1>6, MergeAlone
<1>8. /\ newApplication' = [newApplication EXCEPT ![v][c] = draft]
      /\ Go(r, t) /\ UNCHANGED <<rows, newVacancy, newStage, tasks>>
  BY <1>7 DEF RejectListed, UnchangedRest
<1>9. wanted = RejectedRow(cards[c], EndReason(q))
  BY <1>5
<1>. HIDE DEF s, wanted
<1>10. /\ t.pc = "rejecting" /\ t.request = q /\ t.application = s.application
       /\ t.wanted = s.wanted /\ t.vacancy = s.vacancy /\ t.tasks = s.tasks \cup {notice}
       /\ t.listed = s.listed /\ t.left = s.left \ {c}
  BY <1>2 DEF Session
<1>11. session'[r] = t
  BY <1>8 DEF Go, SerialInv, RaceTyped, TypeOK
<1>. HIDE DEF t
<1>12. Loaded(t, vacancies, applications, stages) /\ Decided(t, vacancies, applications, stages)
  BY <1>4, <1>10, StillDecided
<1>13. Announces(t, applications)
  <2>1. t.left \subseteq Rejectable(cards) /\ t.listed = cards
    BY <1>5, <1>10
  <2>2. Rejectable(cards) \ t.left = (Rejectable(cards) \ s.left) \cup {c}
    BY <1>2, <1>5, <1>10
  <2>3. t.tasks = Notices(v, Rejectable(cards) \ t.left)
    BY <1>5, <1>10, <2>2 DEF Notices
  <2>4. t.pc = "rejecting" /\ t.request = q
    BY <1>10
  <2>. QED BY <1>2, <2>1, <2>3, <2>4 DEF Announces, Rejects
<1>14. WantedVacancy(t) = WantedVacancy(s)
  BY <1>10 DEF WantedVacancy
<1>15. /\ \A w : HoldsVacancy(s, w) <=> HoldsVacancy(t, w)
       /\ \A w, d : HoldsCard(t, applications, w, d) <=>
             HoldsCard(s, applications, w, d) \/ (w = v /\ d = c)
       /\ \A x : ~HoldsStage(s, x) /\ ~HoldsStage(t, x)
  <2>1. Rejectable(cards) \ t.left = (Rejectable(cards) \ s.left) \cup {c}
    BY <1>2, <1>5, <1>10
  <2>2. \A w : HoldsVacancy(s, w) <=> HoldsVacancy(t, w)
    BY <1>2, <1>10, <1>14 DEF HoldsVacancy
  <2>3. \A x : ~HoldsStage(s, x) /\ ~HoldsStage(t, x)
    BY <1>2, <1>10 DEF HoldsStage
  <2>4. ASSUME NEW w, NEW d
        PROVE  HoldsCard(t, applications, w, d) <=>
                  HoldsCard(s, applications, w, d) \/ (w = v /\ d = c)
    <3>1. CASE w = v
      <4>1. HoldsCard(s, applications, w, d) <=> d \in Rejectable(cards) \ s.left
        BY <1>2, <3>1 DEF HoldsCard, Rejects
      <4>2. HoldsCard(t, applications, w, d) <=> d \in Rejectable(cards) \ t.left
        BY <1>2, <1>10, <3>1 DEF HoldsCard, Rejects
      <4>. QED BY <2>1, <3>1, <4>1, <4>2
    <3>2. CASE w # v
      BY <1>10, <3>2 DEF HoldsCard
    <3>. QED BY <3>1, <3>2
  <2>. QED BY <2>2, <2>3, <2>4
<1>16. Held(t, applications, stages, newVacancy, newApplication', newStage)
  <2>1. draft.by # NULL /\ draft.row = wanted
    BY RaceAssumption
  <2>. HIDE DEF draft
  <2>2. \A w \in Vacancies, d \in Candidates :
           newApplication'[w][d] = IF w = v /\ d = c THEN draft ELSE newApplication[w][d]
    BY <1>3, <1>8 DEF SerialInv, RaceTyped, TypeOK
  <2>3. \A a : CardFor(t, a) = RejectedRow(a, EndReason(q)) /\ CardFor(s, a) = CardFor(t, a)
    BY <1>2, <1>10 DEF CardFor
  <2>4. \A w \in Vacancies, d \in Candidates :
           /\ newApplication'[w][d].by # NULL <=> HoldsCard(t, applications, w, d)
           /\ newApplication'[w][d].by # NULL => newApplication'[w][d].row = CardFor(t, applications[w][d])
    BY <1>4, <1>9, <1>15, <2>1, <2>2, <2>3 DEF Held
  <2>5. \A x \in Stages : newStage[x].by = NULL
    BY <1>4, <1>15 DEF Held
  <2>6. \A w \in Vacancies : /\ newVacancy[w].by # NULL <=> HoldsVacancy(t, w)
                             /\ newVacancy[w].by # NULL => newVacancy[w].row = WantedVacancy(t)
    BY <1>4, <1>14, <1>15 DEF Held
  <2>. QED BY <1>15, <2>4, <2>5, <2>6 DEF Held
<1>17. Serial(t, vacancies, applications, stages, newVacancy, newApplication', newStage)
  BY <1>12, <1>13, <1>16 DEF Serial
<1>. QED BY <1>1, <1>8, <1>11, <1>17, SerialStep DEF rows

LEMMA EnqueueNoticesSerial ==
    ASSUME OneAtATime, SerialInv, NEW r \in Slots, EnqueueNotices(r)
    PROVE  SerialInv' /\ UNCHANGED <<rows, tasks>>
<1>. DEFINE s == session[r]
            q == s.request
            t == [s EXCEPT !.pc = "flushed"]
<1>1. RaceTyped'
  BY EnqueueNoticesTyped DEF SerialInv
<1>2. s \in Session /\ s.pc = "rejecting" /\ q \in Requests /\ Ending(q) /\ s.left = {}
  BY DEF EnqueueNotices, At, Op, Ending, SerialInv, RaceTyped, TypeOK, SessionsShaped
<1>3. /\ Loaded(s, vacancies, applications, stages) /\ Decided(s, vacancies, applications, stages)
      /\ Held(s, applications, stages, newVacancy, newApplication, newStage)
      /\ Announces(s, applications)
  BY <1>2 DEF SerialInv, Serial
<1>4. Go(r, t) /\ UNCHANGED <<rows, drafts, tasks>>
  BY DEF EnqueueNotices, UnchangedRest
<1>. HIDE DEF s
<1>5. /\ t.pc = "flushed" /\ t.request = q /\ t.application = s.application
      /\ t.wanted = s.wanted /\ t.vacancy = s.vacancy /\ t.tasks = s.tasks /\ t.left = s.left
  BY <1>2 DEF Session
<1>6. session'[r] = t
  BY <1>4 DEF Go, SerialInv, RaceTyped, TypeOK
<1>. HIDE DEF t
<1>7. Loaded(t, vacancies, applications, stages) /\ Decided(t, vacancies, applications, stages)
  BY <1>3, <1>5, StillDecided
<1>8. Announces(t, applications)
  BY <1>2, <1>3, <1>5 DEF Announces, Rejects, Ending, OfCard
<1>9. WantedVacancy(t) = WantedVacancy(s)
  BY <1>5 DEF WantedVacancy
<1>10. /\ \A v : HoldsVacancy(s, v) <=> HoldsVacancy(t, v)
       /\ \A v, c : HoldsCard(s, applications, v, c) <=> HoldsCard(t, applications, v, c)
       /\ \A x : HoldsStage(s, x) <=> HoldsStage(t, x)
       /\ \A a : CardFor(s, a) = CardFor(t, a)
  BY <1>2, <1>5, <1>9 DEF HoldsVacancy, HoldsCard, HoldsStage, Rejects, Ending, OfCard, CardFor
<1>11. Held(t, applications, stages, newVacancy, newApplication, newStage)
  <2>1. \A v \in Vacancies : /\ newVacancy[v].by # NULL <=> HoldsVacancy(t, v)
                             /\ newVacancy[v].by # NULL => newVacancy[v].row = WantedVacancy(t)
    BY <1>3, <1>9, <1>10 DEF Held
  <2>2. \A v \in Vacancies, c \in Candidates :
           /\ newApplication[v][c].by # NULL <=> HoldsCard(t, applications, v, c)
           /\ newApplication[v][c].by # NULL => newApplication[v][c].row = CardFor(t, applications[v][c])
    BY <1>3, <1>10 DEF Held
  <2>3. \A x \in Stages :
           /\ newStage[x].by # NULL <=> HoldsStage(t, x)
           /\ newStage[x].by # NULL => newStage[x].row = [stages[x] EXCEPT !.row = "inactive"]
    BY <1>3, <1>10 DEF Held
  <2>. QED BY <2>1, <2>2, <2>3 DEF Held
<1>12. Serial(t, vacancies, applications, stages, newVacancy, newApplication, newStage)
  BY <1>7, <1>8, <1>11 DEF Serial
<1>. QED BY <1>1, <1>4, <1>6, <1>12, SerialStep DEF rows, drafts

\* Recruitment extends KanbanRules as BoardRaces does: its rules are the same.
LEMMA SameRows ==
    /\ \A a : Board!IsActive(a) <=> IsActive(a)
    /\ \A x, y : Board!OrKeep(x, y) = OrKeep(x, y)
    /\ \A a, b : /\ Board!PatchedRow(a, b) = PatchedRow(a, b)
                 /\ Board!RejectedAgainRow(a, b) = RejectedAgainRow(a, b)
                 /\ Board!HiredRow(a, b) = HiredRow(a, b)
                 /\ Board!MovedRow(a, b) = MovedRow(a, b)
                 /\ Board!RejectedRow(a, b) = RejectedRow(a, b)
    /\ \A x, y, z : /\ Board!InsertedRow(x, y, z) = InsertedRow(x, y, z)
                    /\ Board!ResurrectedRow(x, y, z) = ResurrectedRow(x, y, z)
<1>1. \A a : Board!IsActive(a) <=> IsActive(a)
  BY DEF Board!IsActive, IsActive
<1>2. \A x, y : Board!OrKeep(x, y) = OrKeep(x, y)
  BY DEF Board!OrKeep, OrKeep
<1>3. \A a, b : Board!PatchedRow(a, b) = PatchedRow(a, b)
  BY <1>2 DEF Board!PatchedRow, PatchedRow
<1>4. \A a, b : /\ Board!RejectedAgainRow(a, b) = RejectedAgainRow(a, b)
                /\ Board!HiredRow(a, b) = HiredRow(a, b)
                /\ Board!MovedRow(a, b) = MovedRow(a, b)
  BY <1>3 DEF Board!RejectedAgainRow, RejectedAgainRow, Board!HiredRow, HiredRow,
              Board!MovedRow, MovedRow
<1>5. \A a, b : Board!RejectedRow(a, b) = RejectedRow(a, b)
  BY DEF Board!RejectedRow, RejectedRow
<1>6. \A x, y, z : /\ Board!InsertedRow(x, y, z) = InsertedRow(x, y, z)
                   /\ Board!ResurrectedRow(x, y, z) = ResurrectedRow(x, y, z)
  BY DEF Board!InsertedRow, InsertedRow, Board!ResurrectedRow, ResurrectedRow,
         Board!NoApplication, NoApplication
<1>. QED BY <1>1, <1>2, <1>3, <1>4, <1>5, <1>6

LEMMA SameStages ==
    ASSUME NEW stgs, NEW x
    PROVE  /\ Board!ActiveStagesOf(stgs, x) = ActiveStagesOf(stgs, x)
           /\ Board!FirstStage(stgs, x) = FirstStage(stgs, x)
           /\ Board!Protected(stgs, x) <=> Protected(stgs, x)
<1>1. Board!ActiveStagesOf(stgs, x) = ActiveStagesOf(stgs, x)
  BY DEF Board!ActiveStagesOf, ActiveStagesOf
<1>2. Board!FirstStage(stgs, x) = FirstStage(stgs, x)
  BY DEF Board!FirstStage, FirstStage, Board!ActiveStagesOf, ActiveStagesOf
<1>3. Board!Protected(stgs, x) <=> Protected(stgs, x)
  BY DEF Board!Protected, Protected
<1>. QED BY <1>1, <1>2, <1>3

LEMMA SameEnds ==
    /\ \A a : Board!AutoRejectable(a) <=> AutoRejectable(a)
    /\ \A as, x : Board!AutoRejectAll(as, x) = AutoRejectAll(as, x)
    /\ \A x : Board!AutoRejectReason(x) = AutoRejectReason(x)
    /\ \A as : Board!HasHire(as) <=> HasHire(as)
    /\ \A vac, b : /\ Board!StatusChanges(vac, b) <=> StatusChanges(vac, b)
                   /\ Board!PatchedVacancy(vac, b) = PatchedVacancy(vac, b)
    /\ \A stgs, vac, as, b : Board!GuardClose(stgs, vac, as, b) <=> GuardClose(stgs, vac, as, b)
<1>1. \A a : Board!AutoRejectable(a) <=> AutoRejectable(a)
  BY SameRows DEF Board!AutoRejectable, AutoRejectable
<1>2. \A as, x : Board!AutoRejectAll(as, x) = AutoRejectAll(as, x)
  BY <1>1, SameRows DEF Board!AutoRejectAll, AutoRejectAll
<1>3. \A x : Board!AutoRejectReason(x) = AutoRejectReason(x)
  BY DEF Board!AutoRejectReason, AutoRejectReason
<1>4. \A as : Board!HasHire(as) <=> HasHire(as)
  BY SameRows DEF Board!HasHire, HasHire
<1>5. \A vac, b : Board!StatusChanges(vac, b) <=> StatusChanges(vac, b)
  BY DEF Board!StatusChanges, StatusChanges
<1>6. \A vac, b : Board!PatchedVacancy(vac, b) = PatchedVacancy(vac, b)
  BY SameRows DEF Board!PatchedVacancy, PatchedVacancy, Board!FlagOrKeep, FlagOrKeep
<1>7. \A stgs, vac, as : Board!HiredCards(stgs, vac, as) = HiredCards(stgs, vac, as)
  <2> SUFFICES ASSUME NEW stgs, NEW vac, NEW as
               PROVE  Board!HiredCards(stgs, vac, as) = HiredCards(stgs, vac, as)
    OBVIOUS
  <2>1. \A c : c \in Board!HiredCards(stgs, vac, as) <=> c \in HiredCards(stgs, vac, as)
    <3>1. /\ Board!ActiveStagesOf(stgs, vac.process) = ActiveStagesOf(stgs, vac.process)
          /\ \A a : Board!IsActive(a) <=> IsActive(a)
      BY SameStages, SameRows
    <3>. QED BY <3>1 DEF Board!HiredCards, HiredCards
  <2>2. /\ Board!HiredCards(stgs, vac, as) \subseteq Candidates
        /\ HiredCards(stgs, vac, as) \subseteq Candidates
    BY DEF Board!HiredCards, HiredCards
  <2>. QED BY <2>1, <2>2
<1>8. \A stgs, vac, as, b : Board!GuardClose(stgs, vac, as, b) <=> GuardClose(stgs, vac, as, b)
  BY <1>7, SameRows DEF Board!GuardClose, GuardClose, Board!Cardinality, Cardinality
<1>. QED BY <1>1, <1>2, <1>3, <1>4, <1>5, <1>6, <1>8

\* The end of the only transaction leaves nothing locked.
LEMMA SettleSerial ==
    ASSUME OneAtATime, SerialInv, NEW r \in Slots, Commit(r) \/ Fail(r)
    PROVE  SerialInv'
<1>1. RaceTyped'
  BY SettleTyped DEF SerialInv
<1>2. PICK keep \in BOOLEAN : Settle(r, keep)
  BY DEF Commit, Fail
<1>3. \A k \in Slots : k = r
  BY DEF OneAtATime
<1>4. /\ \A v \in Vacancies : newVacancy[v].by \in {NULL, r}
      /\ \A v \in Vacancies, c \in Candidates : newApplication[v][c].by \in {NULL, r}
      /\ \A x \in Stages : newStage[x].by \in {NULL, r}
  BY <1>3 DEF SerialInv, RaceTyped, TypeOK, Draft
<1>5. /\ \A v \in Vacancies : newVacancy'[v].by = NULL
      /\ \A v \in Vacancies, c \in Candidates : newApplication'[v][c].by = NULL
      /\ \A x \in Stages : newStage'[x].by = NULL
  <2>1. TypeOK
    BY DEF SerialInv, RaceTyped
  <2>2. /\ \A v \in Vacancies : newVacancy'[v] = IF newVacancy[v].by = r THEN NoDraft(NoVacancy)
                                                                         ELSE newVacancy[v]
        /\ \A v \in Vacancies, c \in Candidates :
              newApplication'[v][c] = IF newApplication[v][c].by = r THEN NoDraft(NoApplication)
                                                                     ELSE newApplication[v][c]
        /\ \A x \in Stages : newStage'[x] = IF newStage[x].by = r THEN NoDraft(NoStage) ELSE newStage[x]
    BY <1>2, <2>1, SettledRows
  <2>3. NoDraft(NoVacancy).by = NULL /\ NoDraft(NoApplication).by = NULL /\ NoDraft(NoStage).by = NULL
    BY DEF NoDraft
  <2>. QED BY <1>4, <2>2, <2>3
<1>6. session'[r] = Idle
  BY <1>2 DEF Settle, Go, SerialInv, RaceTyped, TypeOK
<1>7. Serial(Idle, vacancies', applications', stages', newVacancy', newApplication', newStage')
  BY <1>5, IdleType, SerialIdle
<1>. QED BY <1>1, <1>6, <1>7, SerialStep

\* What a commit writes is what the session holds.
LEMMA CommitWrites ==
    ASSUME OneAtATime, SerialInv, NEW r \in Slots, Commit(r)
    PROVE  LET s == session[r]
           IN  /\ s.pc = "flushed" /\ s.request \in Requests /\ tasks' = s.tasks
               /\ Loaded(s, vacancies, applications, stages)
               /\ Decided(s, vacancies, applications, stages)
               /\ Announces(s, applications)
               /\ vacancies' = [v \in Vacancies |->
                     IF HoldsVacancy(s, v) THEN WantedVacancy(s) ELSE vacancies[v]]
               /\ applications' = [v \in Vacancies |-> [c \in Candidates |->
                     IF HoldsCard(s, applications, v, c) THEN CardFor(s, applications[v][c])
                                                         ELSE applications[v][c]]]
               /\ stages' = [x \in Stages |->
                     IF HoldsStage(s, x) THEN [stages[x] EXCEPT !.row = "inactive"]
                                         ELSE stages[x]]
<1>. DEFINE s == session[r]
<1>1. /\ s.pc = "flushed" /\ s.request \in Requests /\ tasks' = s.tasks
      /\ Settle(r, TRUE)
  BY DEF Commit, At, SerialInv, RaceTyped, SessionsShaped
<1>2. /\ Loaded(s, vacancies, applications, stages) /\ Decided(s, vacancies, applications, stages)
      /\ Announces(s, applications)
      /\ Held(s, applications, stages, newVacancy, newApplication, newStage)
  BY <1>1 DEF SerialInv, Serial
<1>. HIDE DEF s
<1>3. \A k \in Slots : k = r /\ k # NULL
  BY RaceAssumption DEF OneAtATime
<1>4. /\ \A v \in Vacancies : newVacancy[v].by = r <=> HoldsVacancy(s, v)
      /\ \A v \in Vacancies, c \in Candidates :
            newApplication[v][c].by = r <=> HoldsCard(s, applications, v, c)
      /\ \A x \in Stages : newStage[x].by = r <=> HoldsStage(s, x)
  <2>1. /\ \A v \in Vacancies : newVacancy[v].by \in {NULL, r}
        /\ \A v \in Vacancies, c \in Candidates : newApplication[v][c].by \in {NULL, r}
        /\ \A x \in Stages : newStage[x].by \in {NULL, r}
    BY <1>3 DEF SerialInv, RaceTyped, TypeOK, Draft
  <2>. QED BY <1>2, <1>3, <2>1 DEF Held
<1>0. /\ \A v \in Vacancies :
            vacancies'[v] = IF newVacancy[v].by = r THEN newVacancy[v].row ELSE vacancies[v]
      /\ \A v \in Vacancies, c \in Candidates :
            applications'[v][c] = IF newApplication[v][c].by = r THEN newApplication[v][c].row
                                                                 ELSE applications[v][c]
      /\ \A x \in Stages : stages'[x] = IF newStage[x].by = r THEN newStage[x].row ELSE stages[x]
  <2>1. vacancies' = [v \in Vacancies |->
           IF newVacancy[v].by = r THEN newVacancy[v].row ELSE vacancies[v]]
    BY <1>1 DEF Settle
  <2>2. applications' = [v \in Vacancies |-> [c \in Candidates |->
           IF newApplication[v][c].by = r THEN newApplication[v][c].row ELSE applications[v][c]]]
    BY <1>1 DEF Settle
  <2>3. stages' = [x \in Stages |-> IF newStage[x].by = r THEN newStage[x].row ELSE stages[x]]
    BY <1>1 DEF Settle
  <2>. QED BY <2>1, <2>2, <2>3
<1>5. vacancies' = [v \in Vacancies |->
         IF HoldsVacancy(s, v) THEN WantedVacancy(s) ELSE vacancies[v]]
  <2>1. \A v \in Vacancies :
           vacancies'[v] = IF HoldsVacancy(s, v) THEN WantedVacancy(s) ELSE vacancies[v]
    BY <1>0, <1>2, <1>3, <1>4 DEF Held
  <2>2. vacancies' \in [Vacancies -> Vacancy]
    BY <1>1, SettledRows DEF SerialInv, RaceTyped
  <2>. QED BY <2>1, <2>2
<1>6. applications' = [v \in Vacancies |-> [c \in Candidates |->
         IF HoldsCard(s, applications, v, c) THEN CardFor(s, applications[v][c])
                                             ELSE applications[v][c]]]
  <2>1. \A v \in Vacancies, c \in Candidates :
           applications'[v][c] = IF HoldsCard(s, applications, v, c)
                                 THEN CardFor(s, applications[v][c]) ELSE applications[v][c]
    BY <1>0, <1>2, <1>3, <1>4 DEF Held
  <2>2. applications' \in [Vacancies -> [Candidates -> Application]]
    BY <1>1, SettledRows DEF SerialInv, RaceTyped
  <2>. QED BY <2>1, <2>2
<1>7. stages' = [x \in Stages |->
         IF HoldsStage(s, x) THEN [stages[x] EXCEPT !.row = "inactive"] ELSE stages[x]]
  <2>1. \A x \in Stages :
           stages'[x] = IF HoldsStage(s, x) THEN [stages[x] EXCEPT !.row = "inactive"] ELSE stages[x]
    BY <1>0, <1>2, <1>3, <1>4 DEF Held
  <2>2. stages' \in [Stages -> ProcessStage]
    BY <1>1, SettledRows DEF SerialInv, RaceTyped
  <2>. QED BY <2>1, <2>2
<1>. QED BY <1>1, <1>2, <1>5, <1>6, <1>7 DEF s

\* The commit of PATCH, POST and DELETE of an application.
LEMMA CardCommits ==
    ASSUME OneAtATime, SerialInv, NEW r \in Slots, Commit(r), OfCard(session[r].request)
    PROVE  Board!Next
<1>. DEFINE s == session[r]
            q == s.request
            v == q.vacancy
            c == q.candidate
<1>1. /\ s.pc = "flushed" /\ q \in Requests /\ tasks' = s.tasks
      /\ Loaded(s, vacancies, applications, stages)
      /\ Decided(s, vacancies, applications, stages)
      /\ Announces(s, applications)
      /\ vacancies' = [w \in Vacancies |->
            IF HoldsVacancy(s, w) THEN WantedVacancy(s) ELSE vacancies[w]]
      /\ applications' = [w \in Vacancies |-> [d \in Candidates |->
            IF HoldsCard(s, applications, w, d) THEN CardFor(s, applications[w][d])
                                                ELSE applications[w][d]]]
      /\ stages' = [x \in Stages |->
            IF HoldsStage(s, x) THEN [stages[x] EXCEPT !.row = "inactive"] ELSE stages[x]]
  BY CommitWrites
<1>2. OfCard(q)
  OBVIOUS
<1>. HIDE DEF s
<1>3. v \in Vacancies /\ c \in Candidates /\ (q.op = "patch" => q.body \in PatchBody)
  BY <1>1, <1>2, RequestTypes DEF OfCard
<1>4. /\ \A w : ~HoldsVacancy(s, w)
      /\ \A w, d : HoldsCard(s, applications, w, d) <=> w = v /\ d = c
      /\ \A x : ~HoldsStage(s, x)
      /\ \A a : CardFor(s, a) = s.wanted
  BY <1>1, <1>2 DEF HoldsVacancy, HoldsCard, HoldsStage, Rejects, OfCard, Ending, CardFor
<1>5. /\ vacancies \in [Vacancies -> Vacancy] /\ stages \in [Stages -> ProcessStage]
      /\ applications \in [Vacancies -> [Candidates -> Application]]
  BY DEF SerialInv, RaceTyped, TypeOK
<1>6. vacancies' = vacancies /\ stages' = stages
  BY <1>1, <1>4, <1>5
<1>7. applications' = [applications EXCEPT ![v][c] = s.wanted]
  BY <1>1, <1>3, <1>4, <1>5
<1>8. tasks' = HandlerTasks(q, s.application, s.wanted)
  BY <1>1, <1>2 DEF Announces
<1>9. s.application = applications[v][c]
  BY <1>1, <1>2 DEF Loaded, Decided, OfCard
<1>10. Board!ApplicationRequest(v, c)
  <2>1. CASE q.op = "patch"
    <3>. DEFINE b == q.body
                a == applications[v][c]
    <3>1. /\ IsActive(a) /\ Accepts(vacancies, stages, v, a, b) /\ Transits(stages, a, b, s.wanted)
      BY <1>1, <1>9, <2>1 DEF Loaded, Decided
    <3>2. b \in PatchBodies /\ b \in PatchBody
      BY <1>1, <1>3, <2>1 DEF PatchBodies
    <3>3. Board!CommitPatch(v, c, s.wanted)
      BY <1>6, <1>7, <1>8, <1>9, <2>1
         DEF Board!CommitPatch, Board!SetApplication, Board!UnchangedOrg, HandlerTasks
    <3>. HIDE DEF b
    <3>4. CASE b.stage = Unset
      <4>1. Board!PatchFields(v, c, b)
        BY <3>1, <3>3, <3>4, SameRows DEF Board!PatchFields, Transits
      <4>. QED BY <3>2, <4>1 DEF Board!ApplicationRequest
    <3>5. CASE b.stage = NULL /\ a.status # "rejected"
      <4>1. Board!RejectManually(v, c, b)
        BY <3>1, <3>3, <3>5, SameRows DEF Board!RejectManually, Transits, Accepts
      <4>. QED BY <3>2, <4>1 DEF Board!ApplicationRequest
    <3>6. CASE b.stage = NULL /\ a.status = "rejected"
      <4>1. Board!RejectAgain(v, c, b)
        BY <3>1, <3>3, <3>6, SameRows DEF Board!RejectAgain, Transits
      <4>. QED BY <3>2, <4>1 DEF Board!ApplicationRequest
    <3>7. CASE b.stage \in Stages /\ stages[b.stage].final
      <4>1. Board!MoveToFinal(v, c, b)
        BY <3>1, <3>3, <3>7, SameRows, SameStages DEF Board!MoveToFinal, Board!StageInProcess, Transits, Accepts
      <4>. QED BY <3>2, <4>1 DEF Board!ApplicationRequest
    <3>8. CASE b.stage \in Stages /\ ~stages[b.stage].final
      <4>1. Board!MoveToStage(v, c, b)
        BY <3>1, <3>3, <3>8, SameRows, SameStages DEF Board!MoveToStage, Board!StageInProcess, Transits, Accepts
      <4>. QED BY <3>2, <4>1 DEF Board!ApplicationRequest
    <3>. QED BY <3>2, <3>4, <3>5, <3>6, <3>7, <3>8 DEF PatchBody
  <2>2. CASE q.op = "withdraw"
    <3>1. /\ IsActive(applications[v][c])
          /\ s.wanted = [applications[v][c] EXCEPT !.row = "inactive"]
      BY <1>1, <1>9, <2>2 DEF Loaded, Decided
    <3>2. tasks' = {}
      BY <1>8, <2>2 DEF HandlerTasks
    <3>3. Board!Withdraw(v, c)
      BY <1>6, <1>7, <3>1, <3>2, SameRows DEF Board!Withdraw, Board!SetApplication, Board!UnchangedOrg
    <3>. QED BY <3>3 DEF Board!ApplicationRequest
  <2>3. CASE q.op = "apply"
    <3>. DEFINE first == FirstStage(stages, vacancies[v].process)
                a == applications[v][c]
    <3>1. /\ IsActive(vacancies[v]) /\ s.vacancy = vacancies[v]
          /\ q.portal => vacancies[v].status = "active"
      BY <1>1, <2>3 DEF Loaded
    <3>2. \/ a.row = "absent" /\ s.wanted = InsertedRow(q.status, first, FALSE)
          \/ a.row = "inactive" /\ s.wanted = ResurrectedRow(a, q.status, first)
      BY <1>1, <1>9, <2>3, <3>1 DEF Decided
    <3>3. ~IsActive(a)
      BY <3>2 DEF IsActive
    <3>4. tasks' = {Board!ApplicationTask("analyze_application", v, c)}
      BY <1>8, <2>3 DEF HandlerTasks
    <3>a. /\ q.portal \in BOOLEAN /\ q.status \in PlaceStatus
          /\ q.portal => q.status = "active"
      <4>1. q.status \in PlaceStatus
        BY <1>1, <2>3, RequestTypes
      <4>2. q.portal \in BOOLEAN /\ (q.portal => q.status = "active")
        BY <1>1, <2>3, PortalTypes, Zenon
      <4>. QED BY <4>1, <4>2, Zenon
    <3>5. q.portal => v \in Board!Published
      BY <1>3, <3>1, SameRows DEF Board!Published, Board!Listed
    <3>6. \/ a.row = "absent" /\ Board!SetApplication(v, c, InsertedRow(q.status, first, FALSE))
          \/ a.row = "inactive" /\ Board!SetApplication(v, c, ResurrectedRow(a, q.status, first))
      BY <1>7, <3>2 DEF Board!SetApplication
    <3>7. Board!Apply(v, c, q.portal, q.status, FALSE)
      BY <1>3, <1>6, <3>1, <3>3, <3>4, <3>5, <3>6, <3>a, SameRows, SameStages DEF Board!Apply, Board!UnchangedOrg
    <3>. QED BY <3>7, <3>a DEF Board!ApplicationRequest
  <2>. QED BY <1>2, <2>1, <2>2, <2>3 DEF OfCard
<1>. QED BY <1>3, <1>10 DEF Board!Next

\* The commit of the end and the DELETE of a vacancy.
LEMMA VacancyCommits ==
    ASSUME OneAtATime, SerialInv, NEW r \in Slots, Commit(r), Ending(session[r].request)
    PROVE  Board!Next
<1>. DEFINE s == session[r]
            q == s.request
            v == q.vacancy
            cards == applications[v]
<1>1. /\ s.pc = "flushed" /\ q \in Requests /\ tasks' = s.tasks
      /\ Loaded(s, vacancies, applications, stages)
      /\ Decided(s, vacancies, applications, stages)
      /\ Announces(s, applications)
      /\ vacancies' = [w \in Vacancies |->
            IF HoldsVacancy(s, w) THEN WantedVacancy(s) ELSE vacancies[w]]
      /\ applications' = [w \in Vacancies |-> [d \in Candidates |->
            IF HoldsCard(s, applications, w, d) THEN CardFor(s, applications[w][d])
                                                ELSE applications[w][d]]]
      /\ stages' = [x \in Stages |->
            IF HoldsStage(s, x) THEN [stages[x] EXCEPT !.row = "inactive"] ELSE stages[x]]
  BY CommitWrites
<1>2. Ending(q)
  OBVIOUS
<1>. HIDE DEF s
<1>3. v \in Vacancies /\ (q.op = "end" => q.body \in VacancyPatchBody)
  BY <1>1, <1>2, RequestTypes DEF Ending
<1>4. /\ s.left = {} /\ s.tasks = Notices(v, Rejectable(cards) \ s.left)
      /\ s.vacancy = vacancies[v] /\ s.vacancy.row # "absent"
  BY <1>1, <1>2 DEF Announces, Rejects, Loaded
<1>5. /\ \A w : HoldsVacancy(s, w) <=> w = v /\ WantedVacancy(s) # vacancies[v]
      /\ \A w, d : HoldsCard(s, applications, w, d) <=> w = v /\ d \in Rejectable(applications[w])
      /\ \A x : ~HoldsStage(s, x)
      /\ \A a : CardFor(s, a) = RejectedRow(a, EndReason(q))
  BY <1>1, <1>2, <1>4 DEF HoldsVacancy, HoldsCard, HoldsStage, Rejects, OfCard, Ending, CardFor
<1>6. /\ vacancies \in [Vacancies -> Vacancy] /\ stages \in [Stages -> ProcessStage]
      /\ applications \in [Vacancies -> [Candidates -> Application]]
  BY DEF SerialInv, RaceTyped, TypeOK
<1>7. stages' = stages
  BY <1>1, <1>5, <1>6
<1>8. vacancies' = [vacancies EXCEPT ![v] = WantedVacancy(s)]
  BY <1>1, <1>3, <1>5, <1>6
<1>9. Board!AutoReject(v, EndReason(q))
  <2>1. \A d \in Candidates : d \in Rejectable(cards) <=> AutoRejectable(cards[d])
    BY DEF Rejectable
  <2>2. applications' = [applications EXCEPT ![v] = AutoRejectAll(cards, EndReason(q))]
    <3>1. applications' = [w \in Vacancies |-> [d \in Candidates |->
             IF w = v /\ d \in Rejectable(applications[w])
             THEN RejectedRow(applications[w][d], EndReason(q)) ELSE applications[w][d]]]
      BY <1>1, <1>5
    <3>2. AutoRejectAll(cards, EndReason(q)) = [d \in Candidates |->
             IF d \in Rejectable(cards) THEN RejectedRow(cards[d], EndReason(q)) ELSE cards[d]]
      BY <2>1 DEF AutoRejectAll
    <3>3. \A w \in Vacancies : w # v =>
             [d \in Candidates |-> IF w = v /\ d \in Rejectable(applications[w])
              THEN RejectedRow(applications[w][d], EndReason(q)) ELSE applications[w][d]]
                = applications[w]
      BY <1>6
    <3>4. [d \in Candidates |-> IF v = v /\ d \in Rejectable(applications[v])
              THEN RejectedRow(applications[v][d], EndReason(q)) ELSE applications[v][d]]
                = AutoRejectAll(cards, EndReason(q))
      BY <3>2
    <3>. QED BY <1>3, <1>6, <3>1, <3>3, <3>4
  <2>3. tasks' = {Board!ApplicationTask("notify_rejection", v, c) :
                     c \in {d \in Candidates : AutoRejectable(cards[d])}}
    BY <1>1, <1>4 DEF Notices, Rejectable
  <2>. QED BY <2>2, <2>3, SameEnds DEF Board!AutoReject
<1>10. Board!VacancyRequest(v)
  <2>1. CASE q.op = "end"
    <3>. DEFINE b == q.body
    <3>1. /\ StatusChanges(vacancies[v], b) /\ b.status \in {"closed", "cancelled"}
          /\ GuardClose(stages, vacancies[v], cards, b)
      BY <1>1, <1>4, <2>1 DEF Loaded, Decided
    <3>2. b \in EndBodies
      BY <1>1, <2>1 DEF EndBodies
    <3>3. Board!PatchVacancyRow(v, b)
      <4>1. WantedVacancy(s) = PatchedVacancy(vacancies[v], b)
        BY <1>4, <2>1 DEF WantedVacancy
      <4>2. vacancies' = [vacancies EXCEPT ![v] = PatchedVacancy(vacancies[v], b)]
        BY <1>8, <4>1
      <4>. QED BY <1>4, <1>7, <4>2, SameEnds DEF Board!PatchVacancyRow, Board!UnchangedOrg
    <3>4. EndReason(q) = AutoRejectReason(b.status)
      BY <2>1 DEF EndReason
    <3>5. Board!EndVacancy(v, b)
      BY <1>9, <3>1, <3>3, <3>4, SameEnds DEF Board!EndVacancy
    <3>. QED BY <3>2, <3>5 DEF Board!VacancyRequest
  <2>2. CASE q.op = "deleteVacancy"
    <3>1. ~HasHire(cards)
      BY <1>1, <2>2 DEF Decided
    <3>2. WantedVacancy(s) = [vacancies[v] EXCEPT !.row = "inactive"]
      BY <1>4, <2>2 DEF WantedVacancy
    <3>3. vacancies' = [vacancies EXCEPT ![v].row = "inactive"]
      BY <1>8, <3>2
    <3>4. EndReason(q) = "closed"
      BY <2>2 DEF EndReason
    <3>5. Board!DeleteVacancy(v)
      BY <1>4, <1>7, <1>9, <3>1, <3>3, <3>4, SameEnds DEF Board!DeleteVacancy, Board!UnchangedOrg
    <3>. QED BY <3>5 DEF Board!VacancyRequest
  <2>. QED BY <1>2, <2>1, <2>2 DEF Ending
<1>. QED BY <1>3, <1>10 DEF Board!Next

\* The commit of the DELETE of a stage.
LEMMA StageCommits ==
    ASSUME OneAtATime, SerialInv, NEW r \in Slots, Commit(r),
           session[r].request.op = "deleteStage"
    PROVE  Board!Next
<1>. DEFINE s == session[r]
            q == s.request
            x == q.stage
<1>1. /\ s.pc = "flushed" /\ q \in Requests /\ tasks' = s.tasks
      /\ Loaded(s, vacancies, applications, stages)
      /\ Decided(s, vacancies, applications, stages)
      /\ Announces(s, applications)
      /\ vacancies' = [w \in Vacancies |->
            IF HoldsVacancy(s, w) THEN WantedVacancy(s) ELSE vacancies[w]]
      /\ applications' = [w \in Vacancies |-> [d \in Candidates |->
            IF HoldsCard(s, applications, w, d) THEN CardFor(s, applications[w][d])
                                                ELSE applications[w][d]]]
      /\ stages' = [y \in Stages |->
            IF HoldsStage(s, y) THEN [stages[y] EXCEPT !.row = "inactive"] ELSE stages[y]]
  BY CommitWrites
<1>2. q.op = "deleteStage"
  OBVIOUS
<1>. HIDE DEF s
<1>3. x \in Stages
  BY <1>1, <1>2, RequestTypes
<1>4. /\ \A w : ~HoldsVacancy(s, w)
      /\ \A w, d : ~HoldsCard(s, applications, w, d)
      /\ \A y : HoldsStage(s, y) <=> y = x
  BY <1>1, <1>2 DEF HoldsVacancy, HoldsCard, HoldsStage, Rejects, OfCard, Ending
<1>5. /\ vacancies \in [Vacancies -> Vacancy] /\ stages \in [Stages -> ProcessStage]
      /\ applications \in [Vacancies -> [Candidates -> Application]]
  BY DEF SerialInv, RaceTyped, TypeOK
<1>6. vacancies' = vacancies /\ applications' = applications
  BY <1>1, <1>4, <1>5
<1>7. stages' = [stages EXCEPT ![x].row = "inactive"]
  BY <1>1, <1>3, <1>4, <1>5
<1>8. tasks' = {}
  BY <1>1, <1>2 DEF Announces, Rejects, OfCard, Ending
<1>9. /\ stages[x].row = "active" /\ ~Protected(stages, x)
      /\ \A v \in Vacancies, c \in Candidates :
            ~(IsActive(applications[v][c]) /\ applications[v][c].stage = x)
  BY <1>1, <1>2 DEF Loaded, Decided
<1>10. Board!DeleteStage(x)
  BY <1>6, <1>7, <1>8, <1>9, SameRows, SameStages DEF Board!DeleteStage, Board!UnchangedBoard
<1>. QED BY <1>3, <1>10 DEF Board!Next, Board!OrgRequest

LEMMA CommitIsARequest ==
    ASSUME OneAtATime, SerialInv, NEW r \in Slots, Commit(r)
    PROVE  Board!Next
<1>1. session[r].request \in Requests
  BY CommitWrites
<1>2. \/ OfCard(session[r].request) \/ Ending(session[r].request)
      \/ session[r].request.op = "deleteStage"
  BY <1>1, RequestTypes DEF OfCard, Ending
<1>. QED BY <1>2, CardCommits, VacancyCommits, StageCommits

\* Every other step leaves the rows and the tasks as they are.
LEMMA NextSerial ==
    ASSUME OneAtATime, SerialInv, [Next]_vars
    PROVE  SerialInv' /\ (Board!Next \/ UNCHANGED <<vacancies, applications, stages, tasks>>)
<1>1. CASE UNCHANGED vars \/ \E j \in queue : RunJob(j)
  <2>1. RaceTyped'
    BY NextTyped DEF SerialInv
  <2>2. UNCHANGED <<rows, drafts, session, tasks>>
    BY <1>1 DEF RunJob, vars
  <2>3. \A r \in Slots : Serial(session'[r], vacancies', applications', stages',
                                newVacancy', newApplication', newStage')
    BY <2>2 DEF SerialInv, rows, drafts
  <2>. QED BY <2>1, <2>2, <2>3 DEF SerialInv, rows
<1>2. CASE \E r \in Slots : Arrive(r)
  BY <1>2, ArriveSerial DEF rows
<1>3. CASE \E r \in Slots : Commit(r)
  BY <1>3, SettleSerial, CommitIsARequest
<1>4. CASE \E r \in Slots : Fail(r)
  <2>1. PICK r \in Slots : Fail(r)
    BY <1>4
  <2>2. SerialInv'
    BY <2>1, SettleSerial
  <2>3. Settle(r, FALSE) /\ tasks' = tasks
    BY <2>1 DEF Fail
  <2>4. /\ vacancies \in [Vacancies -> Vacancy] /\ stages \in [Stages -> ProcessStage]
        /\ applications \in [Vacancies -> [Candidates -> Application]]
    BY DEF SerialInv, RaceTyped, TypeOK
  <2>5. vacancies' = vacancies /\ applications' = applications /\ stages' = stages
    BY <2>3, <2>4 DEF Settle
  <2>. QED BY <2>2, <2>3, <2>5
<1>5. CASE \E r \in Slots : Proceed(r) /\ ~Commit(r)
  BY <1>5, ChecksSerial, FlushApplicationSerial, FlushVacancySerial, FlushStageSerial,
     ListApplicationsSerial, RejectListedSerial, EnqueueNoticesSerial DEF Proceed, rows
<1>. QED BY <1>1, <1>2, <1>3, <1>4, <1>5 DEF Next

\* With one request at a time the queries of every handler together are the
\* request of Recruitment: a commit is one of its steps, and reads, checks,
\* flushes, breaks and background jobs change nothing of the board
\* (core/database.py, get_session).
THEOREM OneAtATimeIsTheBoard == OneAtATime /\ Spec => SerialBoard
<1>1. OneAtATime => OneAtATime'
  BY DEF OneAtATime
<1>2. OneAtATime /\ SerialInv /\ [Next]_vars => SerialInv'
  BY NextSerial
<1>3. OneAtATime /\ SerialInv /\ [Next]_vars => [Board!Next]_(Board!vars)
  <2> SUFFICES ASSUME OneAtATime, SerialInv, [Next]_vars
               PROVE  [Board!Next]_(Board!vars)
    OBVIOUS
  <2>1. Board!Next \/ UNCHANGED <<vacancies, applications, stages, tasks>>
    BY NextSerial
  <2>. QED BY <2>1 DEF Board!vars
<1>. QED BY <1>1, <1>2, <1>3, InitSerial, PTL DEF Spec, SerialBoard
=============================================================================
