------------------------------ MODULE BoardRaces ------------------------------
(***************************************************************************)
(* The recruitment board under concurrent requests.  A request is one      *)
(* database session (core/database.py get_session): it reads rows one      *)
(* query at a time, checks its guards on what it read, flushes UPDATEs     *)
(* that hold their row locks until the end, enqueues its background tasks, *)
(* and only then commits.  PostgreSQL runs it READ COMMITTED, no row has a *)
(* version column and no query takes a lock, so anything may commit        *)
(* between a read and the write that rests on it.                          *)
(*                                                                         *)
(* The rules are those of KanbanRules; Recruitment is what the requests    *)
(* would do one at a time (Board below).  Interleaved here: POST, PATCH    *)
(* and DELETE of an application, the end and the DELETE of a vacancy, the  *)
(* DELETE of a stage, and the notification tasks.                          *)
(***************************************************************************)
EXTENDS KanbanRules

CONSTANTS
    Slots,        \* database sessions open at the same time
    Requests,     \* the requests the clients send
    MaxRequests,  \* bound on how many they send
    MaxFailures   \* bound on how many sessions break before they commit

VARIABLES
    vacancies, applications, stages,  \* the committed rows
    newVacancy, newApplication, newStage,
                  \* their uncommitted version: whose it is, and the row
    session,      \* what each request has read and where it stands
    queue,        \* background jobs enqueued and not yet run
    mails,        \* what each candidate has been told
    tasks,        \* the tasks of the request that committed last
    sent, failures

rows == <<vacancies, applications, stages>>
drafts == <<newVacancy, newApplication, newStage>>
vars == <<rows, drafts, session, queue, mails, tasks, sent, failures>>

PatchBodies == {q.body : q \in {x \in Requests : x.op = "patch"}}
EndBodies == {q.body : q \in {x \in Requests : x.op = "end"}}

\* The statuses applications are created with here; only staff send one.
PlaceStatus == {"active", "hired"}

\* The same requests, one at a time.
Board == INSTANCE Recruitment
    WITH CreateStatuses <- PlaceStatus, Patches <- PatchBodies, VacancyPatches <- EndBodies,
         processes <- [p \in Processes |-> TRUE], profiles <- [c \in Candidates |-> TRUE]

Request ==
    [op : {"patch"}, vacancy : Vacancies, candidate : Candidates, body : PatchBody]
        \cup [op : {"apply"}, vacancy : Vacancies, candidate : Candidates,
              portal : BOOLEAN, status : PlaceStatus]
        \cup [op : {"withdraw"}, vacancy : Vacancies, candidate : Candidates]
        \cup [op : {"end"}, vacancy : Vacancies, body : VacancyPatchBody]
        \cup [op : {"deleteVacancy"}, vacancy : Vacancies]
        \cup [op : {"deleteStage"}, stage : Stages]

ASSUME RaceAssumption ==
    /\ Requests \subseteq Request
    /\ \A q \in Requests : q.op = "apply" /\ q.portal => q.status = "active"
    \* The form that ends a vacancy does not take its process away.
    /\ \A q \in Requests : q.op = "end" => q.body.process # NULL
    /\ MaxRequests \in Nat
    /\ MaxFailures \in Nat
    /\ NULL \notin Slots

NoRequest == [op |-> "none"]

Idle ==
    [pc |-> "idle", request |-> NoRequest, number |-> 0, vacancy |-> NoVacancy,
     application |-> NoApplication, wanted |-> NoApplication,
     listed |-> [c \in Candidates |-> NoApplication], left |-> {}, tasks |-> {}]

Session ==
    [pc : {"idle", "read", "checked", "listing", "rejecting", "flushed"},
     request : Requests \cup {NoRequest}, number : 0..MaxRequests,
     vacancy : Vacancy, application : Application, wanted : Application,
     listed : [Candidates -> Application], left : SUBSET Candidates,
     tasks : SUBSET Board!Task]

\* A task, the stage it was given, and the request that enqueued it.
Job == [task : Board!Task, stage : Stages \cup {NULL}, by : 1..MaxRequests]

Mail ==
    [kind : {"rejection"}, reason : Reason, by : 1..MaxRequests]
        \cup [kind : {"stage"}, stage : Stages, by : 1..MaxRequests]

Draft(Row) == [by : Slots \cup {NULL}, row : Row]

TypeOK ==
    /\ vacancies \in [Vacancies -> Vacancy]
    /\ applications \in [Vacancies -> [Candidates -> Application]]
    /\ stages \in [Stages -> ProcessStage]
    /\ newVacancy \in [Vacancies -> Draft(Vacancy)]
    /\ newApplication \in [Vacancies -> [Candidates -> Draft(Application)]]
    /\ newStage \in [Stages -> Draft(ProcessStage)]
    /\ session \in [Slots -> Session]
    /\ queue \subseteq Job
    /\ mails \in [Vacancies -> [Candidates -> SUBSET Mail]]
    /\ tasks \subseteq Board!Task
    /\ sent \in 0..MaxRequests
    /\ failures \in 0..MaxFailures

NoDraft(row) == [by |-> NULL, row |-> row]
NoStage == [row |-> "absent", final |-> FALSE]

\* Published vacancies whose process has all its stages, and some candidates in
\* the first column: states Recruitment reaches from its Init.
Init ==
    /\ \E p \in Processes, n \in 1..MaxOpenings :
          vacancies = [v \in Vacancies |->
              [row |-> "active", status |-> "active", process |-> p, openings |-> n]]
    /\ stages = [s \in Stages |-> [row |-> "active", final |-> StageRole[s] = "final"]]
    /\ \E early \in SUBSET Candidates :
          applications = [v \in Vacancies |-> [c \in Candidates |->
              IF c \in early
              THEN InsertedRow("active", FirstStage(stages, vacancies[v].process), FALSE)
              ELSE NoApplication]]
    /\ newVacancy = [v \in Vacancies |-> NoDraft(NoVacancy)]
    /\ newApplication = [v \in Vacancies |-> [c \in Candidates |-> NoDraft(NoApplication)]]
    /\ newStage = [s \in Stages |-> NoDraft(NoStage)]
    /\ session = [r \in Slots |-> Idle]
    /\ queue = {}
    /\ mails = [v \in Vacancies |-> [c \in Candidates |-> {}]]
    /\ tasks = {}
    /\ sent = 0
    /\ failures = 0

-----------------------------------------------------------------------------
(* The session *)

At(r, pc) == session[r].pc = pc
Op(r) == session[r].request.op
Go(r, s) == session' = [session EXCEPT ![r] = s]

\* A row lock is free, or already this session's.
Free(draft, r) == draft.by \in {NULL, r}

UnchangedRest == UNCHANGED <<mails, tasks, sent, failures>>

\* The first query of a request, which pins the row it loads.
Begin(r, q, vacancy, application) ==
    /\ At(r, "idle")
    /\ sent < MaxRequests
    /\ sent' = sent + 1
    /\ Go(r, [Idle EXCEPT !.pc = "read", !.request = q, !.number = sent + 1,
                          !.vacancy = vacancy, !.application = application])
    /\ UNCHANGED <<rows, drafts, queue, mails, tasks, failures>>

\* A guard fails: the handler raises and the session is rolled back.
ElseRefuse(r, accepted, s) ==
    /\ Go(r, IF accepted THEN s ELSE Idle)
    /\ UNCHANGED <<rows, drafts, queue>> /\ UnchangedRest

\* Mutant of Released: the session is returned with its transaction open.
MutNeverReleased(r, draft, none) == draft

\* The end of a transaction releases its row locks.
Released(r, draft, none) == IF draft.by = r THEN NoDraft(none) ELSE draft

\* Commit (keep) or roll back: the uncommitted versions become the rows or go.
Settle(r, keep) ==
    LET Row(draft, row) == IF keep /\ draft.by = r THEN draft.row ELSE row
    IN  /\ vacancies' = [v \in Vacancies |-> Row(newVacancy[v], vacancies[v])]
        /\ applications' = [v \in Vacancies |-> [c \in Candidates |->
                                Row(newApplication[v][c], applications[v][c])]]
        /\ stages' = [s \in Stages |-> Row(newStage[s], stages[s])]
        /\ newVacancy' = [v \in Vacancies |-> Released(r, newVacancy[v], NoVacancy)]
        /\ newApplication' = [v \in Vacancies |-> [c \in Candidates |->
                                  Released(r, newApplication[v][c], NoApplication)]]
        /\ newStage' = [s \in Stages |-> Released(r, newStage[s], NoStage)]
        /\ Go(r, Idle)

Commit(r) ==
    /\ At(r, "flushed")
    /\ Settle(r, TRUE)
    /\ tasks' = session[r].tasks
    /\ UNCHANGED <<queue, mails, sent, failures>>

\* The session breaks: rolled back, but what it enqueued stays enqueued.
Fail(r) ==
    /\ ~At(r, "idle")
    /\ failures < MaxFailures
    /\ failures' = failures + 1
    /\ Settle(r, FALSE)
    /\ UNCHANGED <<queue, mails, tasks, sent>>

-----------------------------------------------------------------------------
(* PATCH, POST and DELETE of an application *)

\* service.get: the row the whole handler works with.
ReadApplication(r, q) ==
    /\ q.op \in {"patch", "withdraw"}
    /\ IsActive(applications[q.vacancy][q.candidate])
    /\ Begin(r, q, NoVacancy, applications[q.vacancy][q.candidate])

\* The first query of POST /applications: any live vacancy for staff, a published
\* one for callers of the candidate portal.
ReadOpenVacancy(r, q) ==
    /\ q.op = "apply"
    /\ IsActive(vacancies[q.vacancy])
    /\ q.portal => vacancies[q.vacancy].status = "active"
    /\ Begin(r, q, vacancies[q.vacancy], NoApplication)

StageInProcess(v, s) ==
    /\ IsActive(vacancies[v])
    /\ s \in ActiveStagesOf(stages, vacancies[v].process)

\* Mutant of PatchAccepted: a rejection needs no reason.
MutPatchAcceptedWithoutReason(v, app, b) == b.stage \in Stages => StageInProcess(v, b.stage)

PatchAccepted(v, app, b) ==
    /\ b.stage \in Stages => StageInProcess(v, b.stage)
    /\ b.stage = NULL /\ app.status # "rejected" => b.reason = "manual"

\* Mutant of TransitionRow: the final-positive stage is like any other.
MutTransitionNeverHires(app, b) ==
    CASE b.stage = Unset                           -> PatchedRow(app, b)
      [] b.stage = NULL /\ app.status # "rejected" -> RejectedRow(app, b.reason)
      [] b.stage = NULL /\ app.status = "rejected" -> RejectedAgainRow(app, b)
      [] b.stage \in Stages                        -> MovedRow(app, b)

\* The terminal-transition matrix, on the row as it was loaded.
TransitionRow(app, b) ==
    CASE b.stage = Unset                           -> PatchedRow(app, b)
      [] b.stage = NULL /\ app.status # "rejected" -> RejectedRow(app, b.reason)
      [] b.stage = NULL /\ app.status = "rejected" -> RejectedAgainRow(app, b)
      [] b.stage \in Stages                        -> IF stages[b.stage].final
                                                      THEN HiredRow(app, b)
                                                      ELSE MovedRow(app, b)

\* The second get finds the row still active; the attributes stay those loaded.
CheckPatch(r) ==
    LET s == session[r]  q == s.request
    IN  /\ At(r, "read") /\ Op(r) = "patch"
        /\ LET accepted == /\ IsActive(applications[q.vacancy][q.candidate])
                           /\ PatchAccepted(q.vacancy, s.application, q.body)
           IN  ElseRefuse(r, accepted,
                  [s EXCEPT !.pc = "checked",
                            !.wanted = IF accepted THEN TransitionRow(s.application, q.body)
                                                   ELSE s.application])

\* First stage of the vacancy's process, then the candidate's existing row.
CheckApply(r) ==
    LET s == session[r]  q == s.request
        existing == applications[q.vacancy][q.candidate]
        first == FirstStage(stages, s.vacancy.process)
    IN  /\ At(r, "read") /\ Op(r) = "apply"
        /\ ElseRefuse(r, ~IsActive(existing),
              [s EXCEPT !.pc = "checked", !.application = existing,
                        !.wanted = IF existing.row = "absent"
                                   THEN InsertedRow(q.status, first, FALSE)
                                   ELSE ResurrectedRow(existing, q.status, first)])

CheckWithdraw(r) ==
    LET s == session[r]
    IN  /\ At(r, "read") /\ Op(r) = "withdraw"
        /\ ElseRefuse(r, TRUE,
              [s EXCEPT !.pc = "checked", !.wanted = [s.application EXCEPT !.row = "inactive"]])

\* The tasks of the handler, from the row refreshed after the flush.
HandlerTasks(q, loaded, row) ==
    IF q.op = "patch" THEN Board!PatchTasks(q.vacancy, q.candidate, loaded, row)
    ELSE IF q.op = "apply"
    THEN {Board!ApplicationTask("analyze_application", q.vacancy, q.candidate)}
    ELSE {}

Enqueue(ts, stage, number) ==
    queue' = queue \cup {[task |-> t, stage |-> stage, by |-> number] : t \in ts}

\* INSERT of a row that exists by now: uq_applications, IntegrityError.
Conflict(r) ==
    LET q == session[r].request
    IN  /\ session[r].application.row = "absent"
        /\ applications[q.vacancy][q.candidate].row # "absent"

\* Flush, refresh, enqueue: the row lock is kept, nothing is committed yet.
FlushApplication(r) ==
    LET s == session[r]  q == s.request
    IN  /\ At(r, "checked") /\ Op(r) \in {"patch", "apply", "withdraw"}
        /\ Free(newApplication[q.vacancy][q.candidate], r)
        /\ ~Conflict(r)
        /\ LET row == Merge(s.application, s.wanted, applications[q.vacancy][q.candidate])
               ts == HandlerTasks(q, s.application, row)
           IN  /\ newApplication' =
                     [newApplication EXCEPT ![q.vacancy][q.candidate] = [by |-> r, row |-> row]]
               /\ Enqueue(ts, row.stage, s.number)
               /\ Go(r, [s EXCEPT !.pc = "flushed", !.tasks = ts])
        /\ UNCHANGED <<rows, newVacancy, newStage>> /\ UnchangedRest

RefuseInsert(r) ==
    /\ At(r, "checked") /\ Op(r) = "apply"
    /\ Free(newApplication[session[r].request.vacancy][session[r].request.candidate], r)
    /\ Conflict(r)
    /\ ElseRefuse(r, FALSE, Idle)

-----------------------------------------------------------------------------
(* The end (closed, cancelled) and the DELETE of a vacancy *)

ReadVacancy(r, q) ==
    /\ q.op \in {"end", "deleteVacancy"}
    /\ vacancies[q.vacancy].row # "absent"
    /\ q.op = "end" => /\ StatusChanges(vacancies[q.vacancy], q.body)
                       /\ q.body.status \in {"closed", "cancelled"}
    /\ Begin(r, q, vacancies[q.vacancy], NoApplication)

\* _guard_close counts the board; delete asks for a hire.
CheckVacancy(r) ==
    LET s == session[r]  q == s.request
    IN  /\ At(r, "read") /\ Op(r) \in {"end", "deleteVacancy"}
        /\ ElseRefuse(r,
              IF q.op = "end" THEN GuardClose(stages, s.vacancy, applications[q.vacancy], q.body)
                              ELSE ~HasHire(applications[q.vacancy]),
              [s EXCEPT !.pc = "checked"])

WantedVacancy(s) ==
    IF s.request.op = "end" THEN PatchedVacancy(s.vacancy, s.request.body)
                            ELSE [s.vacancy EXCEPT !.row = "inactive"]

\* An unchanged row is not updated, so it is not locked either.
FlushVacancy(r) ==
    LET s == session[r]  v == s.request.vacancy
    IN  /\ At(r, "checked") /\ Op(r) \in {"end", "deleteVacancy"}
        /\ IF WantedVacancy(s) = s.vacancy THEN UNCHANGED newVacancy
           ELSE /\ Free(newVacancy[v], r)
                /\ newVacancy' = [newVacancy EXCEPT ![v] =
                      [by |-> r, row |-> Merge(s.vacancy, WantedVacancy(s), vacancies[v])]]
        /\ Go(r, [s EXCEPT !.pc = "listing"])
        /\ UNCHANGED <<rows, newApplication, newStage, queue>> /\ UnchangedRest

\* list_active_for_vacancy: who is to be rejected, and the rows as they are now.
ListApplications(r) ==
    LET s == session[r]  v == s.request.vacancy
    IN  /\ At(r, "listing")
        /\ Go(r, [s EXCEPT !.pc = "rejecting", !.listed = applications[v],
                           !.left = {c \in Candidates : AutoRejectable(applications[v][c])}])
        /\ UNCHANGED <<rows, drafts, queue>> /\ UnchangedRest

EndReason(q) == IF q.op = "end" THEN AutoRejectReason(q.body.status) ELSE "closed"

\* One iteration of auto_reject_for_vacancy: it may wait for the row's lock.
RejectListed(r, c) ==
    LET s == session[r]  v == s.request.vacancy
    IN  /\ At(r, "rejecting")
        /\ c \in s.left
        /\ Free(newApplication[v][c], r)
        /\ newApplication' = [newApplication EXCEPT ![v][c] =
              [by |-> r,
               row |-> Merge(s.listed[c], RejectedRow(s.listed[c], EndReason(s.request)),
                             applications[v][c])]]
        /\ Go(r, [s EXCEPT !.left = @ \ {c},
                           !.tasks = @ \cup {Board!ApplicationTask("notify_rejection", v, c)}])
        /\ UNCHANGED <<rows, newVacancy, newStage, queue>> /\ UnchangedRest

\* The route enqueues one notice per rejected application.
EnqueueNotices(r) ==
    LET s == session[r]
    IN  /\ At(r, "rejecting")
        /\ s.left = {}
        /\ Enqueue(s.tasks, NULL, s.number)
        /\ Go(r, [s EXCEPT !.pc = "flushed"])
        /\ UNCHANGED <<rows, drafts>> /\ UnchangedRest

-----------------------------------------------------------------------------
(* The DELETE of a stage *)

ReadStage(r, q) ==
    /\ q.op = "deleteStage"
    /\ stages[q.stage].row = "active"
    /\ ~Protected(stages, q.stage)
    /\ Begin(r, q, NoVacancy, NoApplication)

CheckStage(r) ==
    /\ At(r, "read") /\ Op(r) = "deleteStage"
    /\ LET empty == \A v \in Vacancies, c \in Candidates :
                       ~(IsActive(applications[v][c])
                         /\ applications[v][c].stage = session[r].request.stage)
       IN  ElseRefuse(r, empty, [session[r] EXCEPT !.pc = "checked"])

FlushStage(r) ==
    LET s == session[r].request.stage
    IN  /\ At(r, "checked") /\ Op(r) = "deleteStage"
        /\ Free(newStage[s], r)
        /\ newStage' = [newStage EXCEPT ![s] =
              [by |-> r, row |-> [stages[s] EXCEPT !.row = "inactive"]]]
        /\ Go(r, [session[r] EXCEPT !.pc = "flushed"])
        /\ UNCHANGED <<rows, newVacancy, newApplication, queue>> /\ UnchangedRest

-----------------------------------------------------------------------------
(* Background jobs: their own session, on the rows committed by then *)

Told(j) ==
    IF j.task.name = "notify_rejection"
    THEN {[kind |-> "rejection", reason |-> applications[j.task.vacancy][j.task.candidate].reason,
           by |-> j.by]}
    ELSE IF j.task.name = "notify_stage_change" /\ IsActive(stages[j.stage])
    THEN {[kind |-> "stage", stage |-> j.stage, by |-> j.by]}
    ELSE {}

\* A withdrawn application, or one whose INSERT is not committed, is not found.
RunJob(j) ==
    LET v == j.task.vacancy  c == j.task.candidate
    IN  /\ j \in queue
        /\ queue' = queue \ {j}
        /\ mails' = [mails EXCEPT ![v][c] =
              IF IsActive(applications[v][c]) THEN @ \cup Told(j) ELSE @]
        /\ UNCHANGED <<rows, drafts, session, tasks, sent, failures>>

-----------------------------------------------------------------------------
Arrive(r) ==
    \E q \in Requests :
        \/ ReadApplication(r, q)
        \/ ReadOpenVacancy(r, q)
        \/ ReadVacancy(r, q)
        \/ ReadStage(r, q)

\* The steps of a request that has arrived.
Proceed(r) ==
    \/ CheckPatch(r)
    \/ CheckApply(r)
    \/ CheckWithdraw(r)
    \/ FlushApplication(r)
    \/ RefuseInsert(r)
    \/ CheckVacancy(r)
    \/ FlushVacancy(r)
    \/ ListApplications(r)
    \/ \E c \in Candidates : RejectListed(r, c)
    \/ EnqueueNotices(r)
    \/ CheckStage(r)
    \/ FlushStage(r)
    \/ Commit(r)

Next ==
    \/ \E r \in Slots : Arrive(r) \/ Proceed(r) \/ Fail(r)
    \/ \E j \in queue : RunJob(j)

Spec == Init /\ [][Next]_vars

\* A handler is never abandoned by the event loop, PostgreSQL grants the locks
\* it waits for, and the worker drains its queue.  Clients need not send.
FairSpec ==
    /\ Spec
    /\ \A r \in Slots : WF_vars(Proceed(r))
    /\ WF_vars(\E j \in queue : RunJob(j))

-----------------------------------------------------------------------------
(* Safety under interleaving *)

Card(v, c) == applications[v][c]
CardNext(v, c) == applications'[v][c]

Committing(r) == At(r, "flushed") /\ session'[r].pc = "idle"

\* Only an apply brings a withdrawn application back: a PATCH or an auto-reject
\* that loaded the row before the withdrawal writes to it without reviving it.
WithdrawnComesBackByApplying ==
    [][\A v \in Vacancies, c \in Candidates :
          Card(v, c).row = "inactive" /\ IsActive(CardNext(v, c)) =>
              \E r \in Slots : Committing(r) /\ Op(r) = "apply"]_vars

\* A PATCH that names neither a column nor a status undoes nothing that
\* committed between its read and its write.
UntouchedColumnsSurvive ==
    [][\A r \in Slots :
          LET q == session[r].request
          IN  /\ Committing(r) /\ q.op = "patch"
              /\ q.body.stage = Unset /\ q.body.status = Unset
              => \A f \in {"row", "stage", "rejectedAt", "status"} :
                    CardNext(q.vacancy, q.candidate)[f] = Card(q.vacancy, q.candidate)[f]]_vars

\* Whatever moves, rejections, ends, withdrawals and returns race, a card that
\* its column, its outcome or its marker calls rejected carries a reason: also
\* one rejected again by a body that gives none, decided on a row that others
\* wrote since (applications_routes.py, _DEFAULT_REJECTION_REASON;
\* applications_service.py, update).
RejectionHasReason ==
    \A v \in Vacancies, c \in Candidates :
        /\ Card(v, c).row # "absent"
        /\ \/ Card(v, c).stage = NULL
           \/ Card(v, c).status = "rejected"
           \/ Card(v, c).rejectedAt # NULL
        => Card(v, c).reason \in Reason \ {"none"}

\* One session at a time is the board of Recruitment: every commit is one of
\* its requests, and every other step changes nothing.
SerialBoard == [][Board!Next]_(Board!vars)

-----------------------------------------------------------------------------
(* Liveness, under FairSpec *)

\* Row locks are taken vacancy first, so no two requests wait for each other
\* for ever.
EveryRequestEnds == \A r \in Slots : ~At(r, "idle") ~> At(r, "idle")

IsRejected(v, c) ==
    IsActive(Card(v, c)) /\ Card(v, c).stage = NULL /\ Card(v, c).status = "rejected"

\* Whoever is rejected is told sooner or later, by whichever of the racing
\* requests rejected them: the notice is enqueued before the commit.
RejectedIsEventuallyTold ==
    \A v \in Vacancies, c \in Candidates :
        IsRejected(v, c) ~> \/ ~IsRejected(v, c)
                            \/ \E m \in mails[v][c] : m.kind = "rejection"
=============================================================================
