----------------------------- MODULE CvPipeline -----------------------------
(***************************************************************************)
(* The CVs of one candidate: uploads under a quota, the CV linked to the   *)
(* profile, and the background tasks that send it to the language model    *)
(* and write the parsed data and the match score.                          *)
(*                                                                         *)
(* Uploads, one writing request, tasks and the worker interleave: a task   *)
(* reads in one session, waits for the model with no session open, and     *)
(* writes in another.  A CV stands for what is read out of it.             *)
(***************************************************************************)
EXTENDS Naturals, FiniteSets, Rows

CONSTANTS
    Cvs,        \* CVs the candidate may upload
    Size,       \* their sizes
    MaxSize,    \* MAX_BYTES_BY_ENTITY of a CV
    MaxCount,   \* cv_max_active_per_user
    MaxTotal,   \* cv_max_total_bytes_per_user
    Uploaders,  \* upload requests open at a time
    Slots,      \* tasks enqueued at a time
    MaxTries,   \* max_tries of the arq worker
    NULL

ASSUME CvAssumption ==
    /\ IsFiniteSet(Cvs) /\ NULL \notin Cvs
    /\ MaxSize \in Nat /\ Size \in [Cvs -> 0..MaxSize]
    /\ MaxCount \in Nat \ {0} /\ MaxTotal \in Nat
    /\ Uploaders \in Nat \ {0} /\ MaxTries \in Nat \ {0}

VARIABLES
    uploads,  \* the upload request of each CV
    stored,   \* keys of the objects in MinIO
    files,    \* storage.files
    profile,  \* recruitment.candidates: is there one, its CV, its parsed data
    app,      \* recruitment.applications: the row and its match score
    request,  \* the writing request whose transaction is open
    jobs,     \* tasks, by slot
    linked,   \* history: every CV the profile has ever had
    raced     \* history: two uploads have been open together

cvVars == <<uploads, stored, files, profile, app, request, jobs, linked, raced>>

MaybeCv == Cvs \cup {NULL}
NoRequest == [kind |-> "none", cv |-> NULL]
NoJob == [task |-> "none", force |-> FALSE, cv |-> NULL, row |-> "unread", tries |-> 0]

CvTypeOK ==
    /\ uploads \in [Cvs -> {"none", "counted", "stored", "ended"}]
    /\ stored \subseteq Cvs
    /\ files \in [Cvs -> RowState]
    /\ profile \in [exists : BOOLEAN, cv : MaybeCv, parsed : MaybeCv]
    /\ app \in [row : RowState, score : MaybeCv]
    /\ request \in [kind : {"none", "create", "update", "apply"}, cv : MaybeCv]
    /\ jobs \in [Slots -> [task : {"none", "parse", "analyze"}, force : BOOLEAN,
                           cv : MaybeCv, row : {"unread", "read", "late"},
                           tries : 0..MaxTries]]
    /\ linked \subseteq Cvs
    /\ raced \in BOOLEAN

CvInit ==
    /\ uploads = [f \in Cvs |-> "none"]
    /\ stored = {}
    /\ files = [f \in Cvs |-> "absent"]
    /\ profile = [exists |-> FALSE, cv |-> NULL, parsed |-> NULL]
    /\ app = [row |-> "absent", score |-> NULL]
    /\ request = NoRequest
    /\ jobs = [s \in Slots |-> NoJob]
    /\ linked = {}
    /\ raced = FALSE

-----------------------------------------------------------------------------
(* Uploads *)

ActiveCvs == {f \in Cvs : files[f] = "active"}

\* The bytes of some files; their number is the sum of the sizes.
Bytes(fs) == {x \in fs \X (1..MaxSize) : x[2] <= Size[x[1]]}
TotalOf(fs) == Cardinality(Bytes(fs))

\* Mutant of CvQuotaExceeded: the new CV is not counted.
MutCvQuotaExceededBefore(f) ==
    \/ Cardinality(ActiveCvs) > MaxCount
    \/ TotalOf(ActiveCvs) > MaxTotal

\* cv_quota_exceeded
CvQuotaExceeded(f) ==
    \/ Cardinality(ActiveCvs) + 1 > MaxCount
    \/ TotalOf(ActiveCvs) + Size[f] > MaxTotal

Open == {f \in Cvs : uploads[f] \in {"counted", "stored"}}

UploadStep(f, stage) ==
    /\ uploads' = [uploads EXCEPT ![f] = stage]
    /\ raced' = (raced \/ Cardinality(Open') > 1)
    /\ UNCHANGED <<profile, app, request, jobs, linked>>

\* upload_file counts what is committed.
CountCvs(f) ==
    /\ uploads[f] = "none" /\ Cardinality(Open) < Uploaders
    /\ ~CvQuotaExceeded(f)
    /\ UploadStep(f, "counted")
    /\ UNCHANGED <<stored, files>>

\* upload_file_to_minio
StoreObject(f) ==
    /\ uploads[f] = "counted"
    /\ UploadStep(f, "stored")
    /\ stored' = stored \cup {f}
    /\ UNCHANGED files

\* The row is committed.
RegisterFile(f) ==
    /\ uploads[f] = "stored"
    /\ UploadStep(f, "ended")
    /\ files' = [files EXCEPT ![f] = "active"]
    /\ UNCHANGED stored

\* MinIO does not answer, or the row does not commit: the object stays.
UploadBreaks(f) ==
    /\ f \in Open
    /\ UploadStep(f, "ended")
    /\ UNCHANGED <<stored, files>>

\* DELETE /files/{id}, by staff: used or not.
DeleteFile(f) ==
    /\ files[f] = "active"
    /\ files' = [files EXCEPT ![f] = "inactive"]
    /\ UNCHANGED <<uploads, stored, profile, app, request, jobs, linked, raced>>

-----------------------------------------------------------------------------
(* Requests: tasks are enqueued by the handler, before the commit *)

FreeSlots == {s \in Slots : jobs[s].task = "none"}
Job(task, force) == [NoJob EXCEPT !.task = task, !.force = force]

\* enqueue, of one task or of two.
Enqueued(js, s, job) == [js EXCEPT ![s] = job]
Enqueue(job) == \E s \in FreeSlots : jobs' = Enqueued(jobs, s, job)
EnqueueBoth(job1, job2) ==
    \E s, t \in FreeSlots : s # t /\ jobs' = Enqueued(Enqueued(jobs, s, job1), t, job2)

Handled(kind, cv) ==
    /\ request.kind = "none"
    /\ request' = [kind |-> kind, cv |-> cv]
    /\ UNCHANGED <<uploads, stored, files, profile, app, linked, raced>>

\* _assert_owned_file: the candidate's own, still active.
Linkable(cv) == cv = NULL \/ cv \in ActiveCvs

\* POST /candidates
CreateCandidate(cv) ==
    /\ ~profile.exists /\ Linkable(cv)
    /\ IF cv = NULL THEN UNCHANGED jobs ELSE Enqueue(Job("parse", FALSE))
    /\ Handled("create", cv)

\* PATCH /candidates/{id} with a CV, or with null: analyses again, by force,
\* the candidate's active applications.
UpdateCandidate(cv) ==
    /\ profile.exists /\ Linkable(cv)
    /\ CASE cv = NULL -> UNCHANGED jobs
         [] cv # NULL /\ app.row = "active" ->
                EnqueueBoth(Job("parse", FALSE), Job("analyze", TRUE))
         [] OTHER -> Enqueue(Job("parse", FALSE))
    /\ Handled("update", cv)

\* POST /applications: a new row or the withdrawn one.
Apply ==
    /\ profile.exists /\ app.row # "active"
    /\ Enqueue(Job("analyze", FALSE))
    /\ Handled("apply", NULL)

CommitRequest ==
    /\ request.kind # "none"
    /\ request' = NoRequest
    /\ IF request.kind = "apply"
       THEN app' = [row |-> "active", score |-> NULL] /\ UNCHANGED <<profile, linked>>
       ELSE /\ profile' = [profile EXCEPT !.exists = TRUE, !.cv = request.cv]
            /\ linked' = linked \cup ({request.cv} \ {NULL})
            /\ UNCHANGED app
    /\ UNCHANGED <<uploads, stored, files, jobs, raced>>

RequestBreaks ==
    /\ request.kind # "none"
    /\ request' = NoRequest
    /\ UNCHANGED <<uploads, stored, files, profile, app, jobs, linked, raced>>

\* A task that has read the row again does not see it withdrawn.
Late(job) == IF job.row = "read" THEN [job EXCEPT !.row = "late"] ELSE job

\* DELETE /applications/{id}
Withdraw ==
    /\ app.row = "active"
    /\ app' = [app EXCEPT !.row = "inactive"]
    /\ jobs' = [s \in Slots |-> Late(jobs[s])]
    /\ UNCHANGED <<uploads, stored, files, profile, request, linked, raced>>

\* POST /applications/{id}/analyze, sent when a recruiter opens the profile.
TriggerAnalysis(force) ==
    /\ app.row = "active"
    /\ Enqueue(Job("analyze", force))
    /\ UNCHANGED <<uploads, stored, files, profile, app, request, linked, raced>>

-----------------------------------------------------------------------------
(* Tasks *)

Queued(s) == jobs[s].task # "none" /\ jobs[s].cv = NULL
Running(s) == jobs[s].cv # NULL

TaskStep(s, job) ==
    /\ jobs' = [jobs EXCEPT ![s] = job]
    /\ UNCHANGED <<uploads, stored, files, request, linked, raced>>

\* Mutant of CvOf: the uncommitted profile is read.
MutCvOfPending == IF request.kind = "update" THEN request.cv ELSE profile.cv

\* cv_file_id of the committed row, whether or not the file was deleted since.
CvOf == profile.cv

\* The early returns of phase 1.
NothingToDo(job) ==
    \/ CvOf = NULL
    \/ job.task = "analyze" /\ (app.row # "active" \/ (app.score # NULL /\ ~job.force))

\* Phase 1 of parse_candidate_cv and of analyze_application.
StartTask(s) ==
    /\ Queued(s)
    /\ TaskStep(s, IF NothingToDo(jobs[s]) THEN NoJob ELSE [jobs[s] EXCEPT !.cv = CvOf])
    /\ UNCHANGED <<profile, app>>

\* The model has answered; nothing is open while it is asked.
Answered(s) == Running(s) /\ jobs[s].cv \in stored

\* Mutant of RowIsThere: a withdrawn row is found too.
MutRowIsThereAnyRow == app.row # "absent"

\* ApplicationRepository.get: active rows only.
RowIsThere == app.row = "active"

\* Phase 3 of analyze_application reads the row again, without a lock.
RereadRow(s) ==
    /\ Answered(s) /\ jobs[s].task = "analyze" /\ jobs[s].row = "unread"
    /\ TaskStep(s, IF RowIsThere THEN [jobs[s] EXCEPT !.row = "read"] ELSE NoJob)
    /\ UNCHANGED <<profile, app>>

\* Phase 3 commits.  The UPDATE of the score names the row by its id alone;
\* pages without text score 0, a score too.
FinishTask(s) ==
    /\ Answered(s)
    /\ TaskStep(s, NoJob)
    /\ \/ /\ jobs[s].task = "parse"
          /\ profile' = [profile EXCEPT !.parsed = jobs[s].cv]
          /\ UNCHANGED app
       \/ /\ jobs[s].task = "analyze" /\ jobs[s].row # "unread"
          /\ app' = [app EXCEPT !.score = jobs[s].cv]
          /\ UNCHANGED profile

\* A session, the download or the model fails: logged, and the task is over.
TaskFails(s) ==
    /\ jobs[s].task # "none"
    /\ TaskStep(s, NoJob)
    /\ UNCHANGED <<profile, app>>

\* Mutant of Requeued: the worker counts no tries.
MutRequeuedForever(job) == [job EXCEPT !.cv = NULL, !.row = "unread"]

\* arq runs the job of a dead worker again; with the inline queue, which dies
\* with its tasks, this is a task that fails.
Requeued(job) ==
    IF job.tries + 1 < MaxTries
    THEN [job EXCEPT !.cv = NULL, !.row = "unread", !.tries = @ + 1] ELSE NoJob

WorkerDies(s) ==
    /\ Running(s)
    /\ TaskStep(s, Requeued(jobs[s]))
    /\ UNCHANGED <<profile, app>>

CvNext ==
    \/ \E f \in Cvs : CountCvs(f) \/ StoreObject(f) \/ RegisterFile(f)
                      \/ UploadBreaks(f) \/ DeleteFile(f)
    \/ \E cv \in MaybeCv : CreateCandidate(cv) \/ UpdateCandidate(cv)
    \/ Apply \/ CommitRequest \/ RequestBreaks \/ Withdraw
    \/ \E force \in BOOLEAN : TriggerAnalysis(force)
    \/ \E s \in Slots : StartTask(s) \/ RereadRow(s) \/ FinishTask(s) \/ TaskFails(s)
                        \/ WorkerDies(s)

CvSpec == CvInit /\ [][CvNext]_cvVars

\* The worker takes up what is queued; the model answers or fails.
Worker(s) == StartTask(s) \/ RereadRow(s) \/ FinishTask(s) \/ TaskFails(s)
CvFairSpec == CvSpec /\ \A s \in Slots : WF_cvVars(Worker(s))

-----------------------------------------------------------------------------
(* Properties *)

\* The quota holds for uploads that come one after the other.  It is counted
\* before the row is inserted, so uploads that race go past it, but by no more
\* than there are of them (files_service.py, cv_quota_exceeded).
QuotaHolds ==
    /\ ~raced => Cardinality(ActiveCvs) <= MaxCount /\ TotalOf(ActiveCvs) <= MaxTotal
    /\ Cardinality(ActiveCvs) <= MaxCount + Uploaders - 1
    /\ TotalOf(ActiveCvs) <= MaxTotal + (Uploaders - 1) * MaxSize

\* No file row, deleted or not, is without its object (files_routes.py, upload_file).
RowsHaveObjects == \A f \in Cvs : files[f] # "absent" => f \in stored

\* Whatever is rolled back, and however late the answer, the score and the
\* parsed data come from a CV that has been on the profile, although tasks are
\* enqueued before the commit (candidates_routes.py, update_candidate).
AnswersAreOfLinkedCvs == {app.score, profile.parsed} \ {NULL} \subseteq linked

\* The score of a withdrawn application stays as the candidate left it: an
\* analysis still waiting for the model writes nothing, and only one that had
\* read the row again before the withdrawal can still write
\* (analysis_service.py, phase 3).
WithdrawnKeepsItsScore ==
    [][app.row = "inactive" /\ app'.row = "inactive" /\ app'.score # app.score
       => \E s \in Slots : jobs[s].row = "late" /\ jobs'[s] = NoJob]_cvVars

\* Every task ends, even when the worker dies each time it runs.
TasksEnd == \A s \in Slots : []<>(jobs[s].task = "none")
=============================================================================
