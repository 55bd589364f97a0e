----------------------------- MODULE KanbanRules -----------------------------
(***************************************************************************)
(* The row-level rules of the recruitment board: what one request computes *)
(* from the rows it has read.  Nothing here has state; Recruitment applies *)
(* these operators to the committed rows and BoardRaces to the rows that a *)
(* request read some time before it writes.                                *)
(*                                                                         *)
(* Source: recruitment/application/applications_service.py (the terminal-  *)
(* transition matrix), vacancies_service.py and pipeline_repository.py.    *)
(***************************************************************************)
EXTENDS Rows, Integers, FiniteSets

CONSTANTS
    Vacancies,      \* ids of recruitment.vacancies rows
    Candidates,     \* ids of recruitment.candidates rows
    Processes,      \* ids of org.processes rows
    Stages,         \* ids of org.process_stages rows
    StageProcess,   \* the process each stage row belongs to
    StageOrder,     \* its position on the board
    StageRole,      \* "initial" (Postulantes), "middle" or "final" (Contratados)
    MaxOpenings,    \* bound on vacancy.openings
    NULL            \* SQL NULL

ASSUME BoardAssumption ==
    /\ StageProcess \in [Stages -> Processes]
    /\ StageOrder \in [Stages -> Nat \ {0}]
    /\ StageRole \in [Stages -> {"initial", "middle", "final"}]
    /\ MaxOpenings \in Nat \ {0}
    /\ NULL \notin Stages \cup Processes
    /\ Unset \notin Stages \cup Processes \cup {NULL}
    \* uq_process_stages: one row per (process, order), deleted rows included.
    /\ \A s, t \in Stages :
          StageProcess[s] = StageProcess[t] /\ StageOrder[s] = StageOrder[t] => s = t
    \* ProcessService._seed_fixed_stages: Postulantes at order 1, one per process.
    /\ \A p \in Processes :
          \E s \in Stages : StageProcess[s] = p /\ StageRole[s] = "initial"
    /\ \A s \in Stages : StageRole[s] = "initial" <=> StageOrder[s] = 1

ApplicationStatus == {"active", "rejected", "withdrawn", "hired"}
VacancyStatus == {"solicitud", "active", "paused", "closed", "cancelled"}
Reason == {"none", "manual", "closed", "cancelled"}

(***************************************************************************)
(* Rows.  `row` is presence plus is_active.  A sub-status is either set or *)
(* not; a reason is identified by who wrote it.                            *)
(***************************************************************************)
Application ==
    [row : RowState, stage : Stages \cup {NULL}, sub : BOOLEAN,
     rejectedAt : Stages \cup {NULL}, status : ApplicationStatus, reason : Reason]

Vacancy ==
    [row : RowState, status : VacancyStatus, process : Processes \cup {NULL},
     openings : 1..MaxOpenings]

ProcessStage == [row : RowState, final : BOOLEAN]

NoApplication ==
    [row |-> "absent", stage |-> NULL, sub |-> FALSE, rejectedAt |-> NULL,
     status |-> "active", reason |-> "none"]

NoVacancy ==
    [row |-> "absent", status |-> "solicitud", process |-> NULL, openings |-> 1]

\* Body of PATCH /applications/{id}: any field may be absent.
PatchBody ==
    [status : ApplicationStatus \cup {Unset}, stage : Stages \cup {NULL, Unset},
     sub : BOOLEAN \cup {Unset}, reason : {"none", "manual", Unset}]

\* Body of PATCH /vacancies/{id}, the fields the board depends on.
VacancyPatchBody ==
    [status : VacancyStatus \cup {Unset}, process : Processes \cup {NULL, Unset},
     openings : (1..MaxOpenings) \cup {Unset}, active : BOOLEAN \cup {Unset}]

-----------------------------------------------------------------------------
(* Stages *)

ActiveStagesOf(stages, p) ==
    {s \in Stages : StageProcess[s] = p /\ stages[s].row = "active"}

\* The column a new application starts in; NULL when the process has none.
FirstStage(stages, p) ==
    LET columns == ActiveStagesOf(stages, p)
    IN  IF columns = {} THEN NULL
        ELSE CHOOSE s \in columns : \A t \in columns : StageOrder[s] <= StageOrder[t]

\* A backbone stage (is_initial or is_final_positive) cannot be modified.
Protected(stages, s) == StageRole[s] = "initial" \/ stages[s].final

-----------------------------------------------------------------------------
(* Applications *)

InsertedRow(status, first, sub) ==
    [NoApplication EXCEPT !.row = "active", !.status = status, !.stage = first, !.sub = sub]

\* Mutant of ResurrectedRow: the column is not reset.
MutResurrectedKeepsStage(app, status, first) ==
    [app EXCEPT !.row = "active", !.status = status, !.rejectedAt = NULL, !.sub = FALSE]

\* A withdrawn row is switched back on instead of inserting a second one.
ResurrectedRow(app, status, first) ==
    [app EXCEPT !.row = "active", !.status = status, !.stage = first,
                !.rejectedAt = NULL, !.sub = FALSE]

\* The fields that constitute "reject this application with `reason`".
RejectedRow(app, reason) ==
    [app EXCEPT !.rejectedAt = app.stage, !.stage = NULL, !.sub = FALSE,
                !.reason = reason, !.status = "rejected"]

\* Mutant of PatchedRow: the sub-status and the reason are dumped without
\* exclude_unset.
MutPatchedDumpsBody(app, b) ==
    [app EXCEPT !.status = OrKeep(b.status, @), !.stage = OrKeep(b.stage, @),
                !.sub = b.sub, !.reason = b.reason]

\* The row with the fields of the body set on it.
PatchedRow(app, b) ==
    [app EXCEPT !.status = OrKeep(b.status, @), !.stage = OrKeep(b.stage, @),
                !.sub = OrKeep(b.sub, @), !.reason = OrKeep(b.reason, @)]

\* stage = null on a row already rejected: no transition, the sub-status goes.
RejectedAgainRow(app, b) == [PatchedRow(app, b) EXCEPT !.sub = FALSE]

\* Moving to, or staying on, a final-positive stage.
HiredRow(app, b) == [PatchedRow(app, b) EXCEPT !.status = "hired", !.sub = FALSE]

\* Mutant of MovedRow: the hire is never undone.
MutMovedStaysHired(app, b) == PatchedRow(app, b)

\* Any other move: off a final stage the hire is undone, else status unchanged.
MovedRow(app, b) ==
    IF app.status = "hired" THEN [PatchedRow(app, b) EXCEPT !.status = "active"]
                            ELSE PatchedRow(app, b)

\* Mutants of AutoRejectable: hires included; rejected rows not skipped; rows
\* that carry a reason taken for rejected ones.
MutAutoRejectHires(app) == IsActive(app) /\ app.status # "rejected"
MutAutoRejectByReason(app) ==
    IsActive(app) /\ app.status # "hired" /\ app.reason = "none"

\* auto_reject_for_vacancy: active, neither hired nor rejected already.
AutoRejectable(app) == IsActive(app) /\ app.status \notin {"hired", "rejected"}

AutoRejectAll(apps, reason) ==
    [c \in Candidates |-> IF AutoRejectable(apps[c]) THEN RejectedRow(apps[c], reason)
                                                     ELSE apps[c]]

-----------------------------------------------------------------------------
(* Vacancies *)

\* is_active is a field like any other to PATCH /vacancies.
FlagOrKeep(active, row) ==
    IF active = Unset THEN row ELSE IF active = TRUE THEN "active" ELSE "inactive"

PatchedVacancy(vac, b) ==
    [vac EXCEPT !.status = OrKeep(b.status, @), !.process = OrKeep(b.process, @),
                !.openings = OrKeep(b.openings, @),
                !.row = FlagOrKeep(b.active, @)]

\* Cards on a final-positive column of the vacancy's process (not by status).
HiredCards(stages, vac, apps) ==
    {c \in Candidates :
        /\ IsActive(apps[c])
        /\ \E s \in ActiveStagesOf(stages, vac.process) :
              stages[s].final /\ apps[c].stage = s}

\* The status really changes, so the guards and the auto-reject apply.
StatusChanges(vac, b) == b.status # Unset /\ b.status # vac.status

GuardClose(stages, vac, apps, b) ==
    b.status = "closed" =>
        Cardinality(HiredCards(stages, vac, apps)) >= OrKeep(b.openings, vac.openings)

GuardPublish(status, process, publisher) ==
    status = "active" => publisher /\ process # NULL

\* The system reason of the auto-reject a status change triggers.
AutoRejectReason(status) == IF status = "closed" THEN "closed" ELSE "cancelled"

\* Live: not soft-deleted, not closed and not cancelled.
IsLive(vac) == IsActive(vac) /\ vac.status \notin {"closed", "cancelled"}

HasHire(apps) == \E c \in Candidates : IsActive(apps[c]) /\ apps[c].status = "hired"
=============================================================================
