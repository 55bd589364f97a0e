----------------------------- MODULE Recruitment -----------------------------
(***************************************************************************)
(* The recruitment board, one request at a time: vacancies, the stages of  *)
(* their selection process, and the applications that move across them.    *)
(* Every action is a whole HTTP handler, from its first read to its commit *)
(* (core/database.py get_session); a request the code refuses raises, is   *)
(* rolled back, and is a disabled action here.  BoardRaces takes the same  *)
(* rules and lets requests interleave.                                     *)
(*                                                                         *)
(* Abstracted: names, salaries, match scores, audit columns and           *)
(* published_at.  The catalogue rows the code looks up by (type, code) are *)
(* assumed seeded by the migrations.                                       *)
(***************************************************************************)
EXTENDS KanbanRules

CONSTANTS
    CreateStatuses,  \* status_id values staff send when they place a candidate
    Patches,         \* PATCH /applications bodies the clients send
    VacancyPatches   \* PATCH /vacancies bodies the clients send

ASSUME InputAssumption ==
    /\ CreateStatuses \subseteq ApplicationStatus
    /\ Patches \subseteq PatchBody
    /\ VacancyPatches \subseteq VacancyPatchBody

VARIABLES
    vacancies,      \* recruitment.vacancies
    applications,   \* recruitment.applications, unique per (vacancy, candidate)
    stages,         \* org.process_stages
    processes,      \* org.processes: is_active
    profiles,       \* recruitment.candidates: is_active
    tasks           \* the background tasks the last request enqueued

vars == <<vacancies, applications, stages, processes, profiles, tasks>>

Task ==
    [name : {"analyze_application", "notify_stage_change", "notify_rejection"},
     vacancy : Vacancies, candidate : Candidates]

TypeOK ==
    /\ vacancies \in [Vacancies -> Vacancy]
    /\ applications \in [Vacancies -> [Candidates -> Application]]
    /\ stages \in [Stages -> ProcessStage]
    /\ processes \in [Processes -> BOOLEAN]
    /\ profiles \in [Candidates -> BOOLEAN]
    /\ tasks \subseteq Task

\* Processes created through ProcessService.create, with their two seeded
\* stages; no vacancy yet.
Init ==
    /\ vacancies = [v \in Vacancies |-> NoVacancy]
    /\ applications = [v \in Vacancies |-> [c \in Candidates |-> NoApplication]]
    /\ stages = [s \in Stages |->
                    [row |-> IF StageRole[s] = "middle" THEN "absent" ELSE "active",
                     final |-> StageRole[s] = "final"]]
    /\ processes = [p \in Processes |-> TRUE]
    /\ profiles = [c \in Candidates |-> TRUE]
    /\ tasks = {}

ApplicationTask(name, v, c) == [name |-> name, vacancy |-> v, candidate |-> c]

UnchangedOrg == UNCHANGED <<stages, processes, profiles>>

-----------------------------------------------------------------------------
(* Applications *)

SetApplication(v, c, row) == applications' = [applications EXCEPT ![v][c] = row]

\* list_expanded and get_expanded: the process is an outer join.
Listed == {v \in Vacancies : IsActive(vacancies[v])}

\* The vacancies anybody may see, and candidates apply to.
Published == {v \in Listed : vacancies[v].status = "active"}

\* POST /applications.  The candidate portal may apply only to a published
\* vacancy and its status is forced to "active"; staff send the status.
Apply(v, c, portal, status, sub) ==
    /\ IsActive(vacancies[v])
    /\ portal => v \in Published /\ status = "active"
    /\ profiles[c]
    /\ ~IsActive(applications[v][c])
    /\ LET first == FirstStage(stages, vacancies[v].process)
       IN  \/ /\ applications[v][c].row = "absent"
              /\ SetApplication(v, c, InsertedRow(status, first, sub))
           \/ /\ applications[v][c].row = "inactive"
              /\ SetApplication(v, c, ResurrectedRow(applications[v][c], status, first))
    /\ tasks' = {ApplicationTask("analyze_application", v, c)}
    /\ UNCHANGED vacancies /\ UnchangedOrg

\* Mutant of PatchTasks: only forward moves are notified.
MutPatchTasksForward(v, c, before, after) ==
    IF after.stage = before.stage \/ after.stage = NULL THEN {}
    ELSE {ApplicationTask("notify_stage_change", v, c)}

\* The task the PATCH route enqueues for the column the row leaves and reaches.
PatchTasks(v, c, before, after) ==
    IF after.stage = before.stage THEN {}
    ELSE IF after.stage # NULL THEN {ApplicationTask("notify_stage_change", v, c)}
    ELSE {ApplicationTask("notify_rejection", v, c)}

\* The tail every PATCH branch shares: write the row, notify the candidate.
CommitPatch(v, c, row) ==
    /\ SetApplication(v, c, row)
    /\ tasks' = PatchTasks(v, c, applications[v][c], row)
    /\ UNCHANGED vacancies /\ UnchangedOrg

\* PATCH without current_stage_id: the transition matrix does not run.
PatchFields(v, c, b) ==
    /\ IsActive(applications[v][c])
    /\ b.stage = Unset
    /\ CommitPatch(v, c, PatchedRow(applications[v][c], b))

\* PATCH current_stage_id = null on a row not yet rejected.
RejectManually(v, c, b) ==
    /\ IsActive(applications[v][c])
    /\ b.stage = NULL
    /\ applications[v][c].status # "rejected"
    /\ b.reason = "manual"
    /\ CommitPatch(v, c, RejectedRow(applications[v][c], b.reason))

\* PATCH current_stage_id = null on a row whose status is already rejected.
RejectAgain(v, c, b) ==
    /\ IsActive(applications[v][c])
    /\ b.stage = NULL
    /\ applications[v][c].status = "rejected"
    /\ CommitPatch(v, c, RejectedAgainRow(applications[v][c], b))

\* _assert_stage_in_process: an active stage of the vacancy's current process.
StageInProcess(v, s) ==
    /\ IsActive(vacancies[v])
    /\ s \in ActiveStagesOf(stages, vacancies[v].process)

\* PATCH current_stage_id = a final-positive stage.
MoveToFinal(v, c, b) ==
    /\ IsActive(applications[v][c])
    /\ b.stage \in Stages
    /\ StageInProcess(v, b.stage)
    /\ stages[b.stage].final
    /\ CommitPatch(v, c, HiredRow(applications[v][c], b))

\* PATCH current_stage_id = any other stage.
MoveToStage(v, c, b) ==
    /\ IsActive(applications[v][c])
    /\ b.stage \in Stages
    /\ StageInProcess(v, b.stage)
    /\ ~stages[b.stage].final
    /\ CommitPatch(v, c, MovedRow(applications[v][c], b))

\* DELETE /applications/{id}: soft delete, whatever the row holds.
Withdraw(v, c) ==
    /\ IsActive(applications[v][c])
    /\ SetApplication(v, c, [applications[v][c] EXCEPT !.row = "inactive"])
    /\ tasks' = {}
    /\ UNCHANGED vacancies /\ UnchangedOrg

-----------------------------------------------------------------------------
(* Vacancies *)

\* POST /vacancies.  A caller without the publish permission gets "solicitud"
\* and no process, whatever the body says.
CreateVacancy(v, publisher, status, process, openings) ==
    /\ vacancies[v].row = "absent"
    /\ process \in Processes => processes[process]
    /\ publisher \/ (status = "solicitud" /\ process = NULL)
    /\ GuardPublish(status, process, publisher)
    /\ vacancies' = [vacancies EXCEPT ![v] =
          [row |-> "active", status |-> status, process |-> process, openings |-> openings]]
    /\ tasks' = {}
    /\ UNCHANGED applications /\ UnchangedOrg

\* auto_reject_for_vacancy and the notifications the route fans out.
AutoReject(v, reason) ==
    /\ applications' = [applications EXCEPT ![v] = AutoRejectAll(@, reason)]
    /\ tasks' = {ApplicationTask("notify_rejection", v, c) :
                    c \in {d \in Candidates : AutoRejectable(applications[v][d])}}

\* What every PATCH /vacancies checks and writes.
PatchVacancyRow(v, b) ==
    /\ vacancies[v].row # "absent"
    /\ b.process \in Processes => processes[b.process]
    /\ vacancies' = [vacancies EXCEPT ![v] = PatchedVacancy(@, b)]
    /\ UnchangedOrg

\* PATCH whose status is closed or cancelled and was not.
EndVacancy(v, b) ==
    /\ StatusChanges(vacancies[v], b)
    /\ b.status \in {"closed", "cancelled"}
    /\ GuardClose(stages, vacancies[v], applications[v], b)
    /\ PatchVacancyRow(v, b)
    /\ AutoReject(v, AutoRejectReason(b.status))

\* Any other PATCH: another status, or no status change at all.
UpdateVacancy(v, b, publisher) ==
    /\ StatusChanges(vacancies[v], b) =>
          /\ b.status \notin {"closed", "cancelled"}
          /\ GuardPublish(b.status, OrKeep(b.process, vacancies[v].process), publisher)
    /\ PatchVacancyRow(v, b)
    /\ tasks' = {}
    /\ UNCHANGED applications

\* DELETE /vacancies/{id}: refused while a hire is on record.
DeleteVacancy(v) ==
    /\ vacancies[v].row # "absent"
    /\ ~HasHire(applications[v])
    /\ vacancies' = [vacancies EXCEPT ![v].row = "inactive"]
    /\ AutoReject(v, "closed")
    /\ UnchangedOrg

-----------------------------------------------------------------------------
(* Processes, stages and candidate profiles, as far as the board reads them *)

UnchangedBoard == UNCHANGED <<vacancies, applications>> /\ tasks' = {}

CreateStage(s, final) ==
    /\ stages[s].row = "absent"
    /\ processes[StageProcess[s]]
    /\ stages' = [stages EXCEPT ![s] = [row |-> "active", final |-> final]]
    /\ UnchangedBoard /\ UNCHANGED <<processes, profiles>>

\* PATCH /process-stages: the flag can only be raised, a final stage is protected.
MarkStageFinal(s) ==
    /\ stages[s].row = "active"
    /\ ~Protected(stages, s)
    /\ stages' = [stages EXCEPT ![s].final = TRUE]
    /\ UnchangedBoard /\ UNCHANGED <<processes, profiles>>

\* DELETE /process-stages: refused while an active application is in it.
DeleteStage(s) ==
    /\ stages[s].row = "active"
    /\ ~Protected(stages, s)
    /\ \A v \in Vacancies, c \in Candidates :
          ~(IsActive(applications[v][c]) /\ applications[v][c].stage = s)
    /\ stages' = [stages EXCEPT ![s].row = "inactive"]
    /\ UnchangedBoard /\ UNCHANGED <<processes, profiles>>

\* DELETE /processes: refused while a live vacancy references it.
DeleteProcess(p) ==
    /\ \A v \in Vacancies : ~(IsLive(vacancies[v]) /\ vacancies[v].process = p)
    /\ processes' = [processes EXCEPT ![p] = FALSE]
    /\ UnchangedBoard /\ UNCHANGED <<stages, profiles>>

\* PATCH /processes: is_active is one of the fields it writes, unguarded.
UpdateProcess(p, active) ==
    /\ processes' = [processes EXCEPT ![p] = active]
    /\ UnchangedBoard /\ UNCHANGED <<stages, profiles>>

\* DELETE /auth/me: the profile and all its active applications go.
CloseAccount(c) ==
    /\ profiles[c]
    /\ profiles' = [profiles EXCEPT ![c] = FALSE]
    /\ applications' = [v \in Vacancies |->
          [applications[v] EXCEPT ![c].row = IF @ = "active" THEN "inactive" ELSE @]]
    /\ tasks' = {}
    /\ UNCHANGED <<vacancies, stages, processes>>

\* The reactivation link: the profile comes back, its applications do not.
ReactivateProfile(c) ==
    /\ ~profiles[c]
    /\ profiles' = [profiles EXCEPT ![c] = TRUE]
    /\ UnchangedBoard /\ UNCHANGED <<stages, processes>>

\* DELETE /candidates/{id} by staff: only the profile.
DeleteCandidate(c) ==
    /\ profiles[c]
    /\ profiles' = [profiles EXCEPT ![c] = FALSE]
    /\ UnchangedBoard /\ UNCHANGED <<stages, processes>>

-----------------------------------------------------------------------------
ApplicationRequest(v, c) ==
    \/ \E portal, sub \in BOOLEAN, status \in CreateStatuses \cup {"active"} :
          Apply(v, c, portal, status, sub)
    \/ \E b \in Patches :
          \/ PatchFields(v, c, b)
          \/ RejectManually(v, c, b)
          \/ RejectAgain(v, c, b)
          \/ MoveToFinal(v, c, b)
          \/ MoveToStage(v, c, b)
    \/ Withdraw(v, c)

VacancyRequest(v) ==
    \/ \E publisher \in BOOLEAN, status \in VacancyStatus,
          process \in Processes \cup {NULL}, openings \in 1..MaxOpenings :
          CreateVacancy(v, publisher, status, process, openings)
    \/ \E b \in VacancyPatches :
          \/ EndVacancy(v, b)
          \/ \E publisher \in BOOLEAN : UpdateVacancy(v, b, publisher)
    \/ DeleteVacancy(v)

OrgRequest ==
    \/ \E s \in Stages :
          \/ \E final \in BOOLEAN : CreateStage(s, final)
          \/ MarkStageFinal(s)
          \/ DeleteStage(s)
    \/ \E p \in Processes :
          \/ DeleteProcess(p)
          \/ \E active \in BOOLEAN : UpdateProcess(p, active)
    \/ \E c \in Candidates :
          \/ CloseAccount(c)
          \/ ReactivateProfile(c)
          \/ DeleteCandidate(c)

Next ==
    \/ \E v \in Vacancies, c \in Candidates : ApplicationRequest(v, c)
    \/ \E v \in Vacancies : VacancyRequest(v)
    \/ OrgRequest

Spec == Init /\ [][Next]_vars

-----------------------------------------------------------------------------
(* Safety *)

\* No card stands in a deleted column: ProcessStageService.delete refuses while
\* has_active_in_stage, and every way back onto the board picks a live stage.
NoCardOnDeletedStage ==
    \A v \in Vacancies, c \in Candidates :
        LET a == applications[v][c]
        IN  IsActive(a) /\ a.stage # NULL => stages[a.stage].row = "active"

-----------------------------------------------------------------------------
(* Action properties *)

\* The vacancy stops accepting candidates in this step.
Ends(v) ==
    /\ vacancies[v].row # "absent"
    /\ \/ /\ vacancies'[v].status # vacancies[v].status
          /\ vacancies'[v].status \in {"closed", "cancelled"}
       \/ vacancies[v].row = "active" /\ vacancies'[v].row = "inactive"

\* Whoever is still active behind a vacancy that closes, is cancelled or is
\* deleted leaves that step hired or rejected (auto_reject_for_vacancy).
EndSettlesEveryone ==
    [][\A v \in Vacancies : Ends(v) =>
          \A c \in Candidates :
              IsActive(applications'[v][c]) =>
                  applications'[v][c].status \in {"hired", "rejected"}]_vars

\* A hire is independent of the vacancy's lifecycle: no request that changes a
\* vacancy changes the application of somebody it hired.
HireOutlivesVacancy ==
    [][\A v \in Vacancies, c \in Candidates :
          /\ vacancies'[v] # vacancies[v]
          /\ IsActive(applications[v][c])
          /\ applications[v][c].status = "hired"
          => applications'[v][c] = applications[v][c]]_vars

\* An application that is hired, but not in a final-positive column.
Misplaced(a, st) ==
    IsActive(a) /\ a.status = "hired" /\ (a.stage = NULL \/ ~st[a.stage].final)

\* The outcome follows the card.  Staff may create an application already hired,
\* which stands on the first column, and a PATCH without a column may write the
\* status by hand; apart from these two no request, of whatever kind, leaves a
\* hire off the final columns, and a misplaced one stays so only while its card
\* does not move (the transition matrix of ApplicationService.update).
HireFollowsTheCard ==
    [][\A v \in Vacancies, c \in Candidates :
          Misplaced(applications'[v][c], stages') =>
              \/ ~IsActive(applications[v][c])
              \/ /\ applications'[v][c].stage = applications[v][c].stage
                 /\ \/ applications[v][c].status # "hired"
                    \/ Misplaced(applications[v][c], stages)]_vars

RejectionNotice(v, c) == ApplicationTask("notify_rejection", v, c)

\* A candidate whose card leaves its column for the rejected one is told, by
\* whichever of the three requests (reject, end, delete) took it off the board.
RejectedCardIsTold ==
    [][\A v \in Vacancies, c \in Candidates :
          /\ IsActive(applications[v][c]) /\ IsActive(applications'[v][c])
          /\ applications[v][c].stage # NULL /\ applications'[v][c].stage = NULL
          => RejectionNotice(v, c) \in tasks']_vars

\* Nobody is told twice: a card already in the rejected column with the
\* rejected status raises no second rejection notice, whatever is requested.
NoSecondNotice ==
    [][\A v \in Vacancies, c \in Candidates :
          /\ IsActive(applications[v][c])
          /\ applications[v][c].stage = NULL /\ applications[v][c].status = "rejected"
          => RejectionNotice(v, c) \notin tasks']_vars

\* Together: a rejection is told once, when the card leaves the board
\* (applications_routes.py, update_application; vacancies_routes.py).
RejectionIsToldOnce == RejectedCardIsTold /\ NoSecondNotice

-----------------------------------------------------------------------------
(* What the screens show *)

\* The columns of the board, and the stages the candidate portal lists:
\* a process that is switched off keeps its columns.
Columns(v) == ActiveStagesOf(stages, vacancies[v].process)

\* Mutant of Cards: an inner join on the active profiles.
MutCardsOfProfiles(v) == {c \in Candidates : IsActive(applications[v][c]) /\ profiles[c]}

\* get_pipeline: every active application, whatever became of its candidate.
Cards(v) == {c \in Candidates : IsActive(applications[v][c])}

\* get_vacancy_pipeline: a card without a stage is drawn in the virtual column.
Drawn(v, c) ==
    /\ c \in Cards(v)
    /\ \/ applications[v][c].stage = NULL
       \/ applications[v][c].stage \in Columns(v)

\* No request makes a card vanish from the board: a card that was drawn is drawn
\* until its application is withdrawn, its vacancy deleted or given another
\* process.  Stages, processes and profiles are deleted and switched off
\* meanwhile, and every one of them is a join of the board's query.
BoardKeepsItsCards ==
    [][\A v \in Listed :
          v \in Listed' /\ vacancies'[v].process = vacancies[v].process =>
              \A c \in Candidates :
                  Drawn(v, c) /\ IsActive(applications'[v][c]) => Drawn(v, c)']_vars
=============================================================================
