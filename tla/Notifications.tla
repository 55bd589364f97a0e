---------------------------- MODULE Notifications ----------------------------
(***************************************************************************)
(* The notice that a vacancy was requested: a background task tells every  *)
(* user who may publish it, in the application and by e-mail, while        *)
(* administrators edit roles (module Access) and the worker may die.       *)
(*                                                                         *)
(* The task has one session: in-app rows and e-mail logs are committed     *)
(* when the last e-mail has been tried, or not at all.  An e-mail sent     *)
(* stays sent, and a worker that dies after the commit and before arq has  *)
(* written the result runs the task again.                                 *)
(***************************************************************************)
EXTENDS Access

CONSTANTS
    Publish,   \* the permission recruitment.vacancies.publish
    NoticeTries  \* max_tries of the arq worker

ASSUME NoticeAssumption == Publish \in Codes \ Types /\ NoticeTries \in Nat \ {0}

VARIABLES
    vacancy,   \* the request that creates it
    task,      \* notify_solicitud_created
    inbox,     \* comms.notifications of this vacancy, per recipient
    owed,      \* history: the holders the committed runs found
    broken,    \* history: a session of the task broke
    repeats    \* history: workers that died between a commit and its result

noticeVars == <<vacancy, task, inbox, owed, broken, repeats>>

NoTask == [stage |-> "none", rows |-> {}, to |-> {}, found |-> {}, tries |-> 0]

NoticeTypeOK ==
    /\ vacancy \in {"absent", "open", "committed"}
    /\ task \in [stage : {"none", "queued", "running", "committed"}, rows : SUBSET Users, to : SUBSET Users,
                 found : SUBSET Users, tries : 0..NoticeTries]
    /\ inbox \in [Users -> [unread : Nat, read : Nat, deleted : Nat]]
    /\ owed \subseteq Users
    /\ broken \in BOOLEAN
    /\ repeats \in Nat

NoticeInit ==
    /\ vacancy = "absent"
    /\ task = NoTask
    /\ inbox = [u \in Users |-> [unread |-> 0, read |-> 0, deleted |-> 0]]
    /\ owed = {} /\ broken = FALSE /\ repeats = 0

-----------------------------------------------------------------------------

\* POST /vacancies, up to the commit: the task is enqueued.  A request that was
\* rolled back may be sent again, once its task is over.
RequestVacancy ==
    /\ vacancy = "absent" /\ task = NoTask /\ RolesNamed(AdminName) # {}
    /\ vacancy' = "open"
    /\ task' = [NoTask EXCEPT !.stage = "queued"]
    /\ UNCHANGED <<inbox, owed, broken, repeats>>

SettleVacancy(outcome) ==
    /\ vacancy = "open"
    /\ vacancy' = outcome
    /\ UNCHANGED <<task, inbox, owed, broken, repeats>>

\* The task's session, up to the flush of the rows.
StartNotice ==
    /\ task.stage = "queued"
    /\ LET found == IF vacancy = "committed" THEN Holders(Publish) ELSE {}
       IN  task' = IF found = {} THEN NoTask
                   ELSE [task EXCEPT !.stage = "running", !.rows = found,
                                     !.to = found, !.found = found]
    /\ UNCHANGED <<vacancy, inbox, owed, broken, repeats>>

\* Each user's e-mail has a try of its own.
AfterMail(t, u, sent) == [t EXCEPT !.to = @ \ {u}]

\* EmailDispatchService.send
MailNotice(u, sent) ==
    /\ task.stage = "running" /\ u \in task.to
    /\ task' = AfterMail(task, u, sent)
    /\ UNCHANGED <<vacancy, inbox, owed, broken, repeats>>

\* Writing a log breaks the session: swallowed, and nothing of it commits.
NoticeBreaks ==
    /\ task.stage = "running"
    /\ task' = [task EXCEPT !.rows = {}]
    /\ broken' = TRUE
    /\ UNCHANGED <<vacancy, inbox, owed, repeats>>

Delivered(rows) == [u \in Users |-> IF u \in rows THEN [inbox[u] EXCEPT !.unread = @ + 1]
                                    ELSE inbox[u]]

\* Mutant of CommitNotice: what there is is committed after each e-mail.
MutCommitNoticeEarly ==
    /\ task.stage = "running"
    /\ inbox' = Delivered(task.rows)
    /\ owed' = owed \cup task.found
    /\ task' = IF task.to = {} THEN [task EXCEPT !.stage = "committed"]
               ELSE [task EXCEPT !.rows = {}]
    /\ UNCHANGED <<vacancy, broken, repeats>>

CommitNotice ==
    /\ task.stage = "running" /\ task.to = {}
    /\ inbox' = Delivered(task.rows)
    /\ owed' = owed \cup task.found
    /\ task' = [task EXCEPT !.stage = "committed"]
    /\ UNCHANGED <<vacancy, broken, repeats>>

\* arq writes the result of the job and forgets it.
EndNotice ==
    /\ task.stage = "committed"
    /\ task' = NoTask
    /\ UNCHANGED <<vacancy, inbox, owed, broken, repeats>>

\* arq runs the job of a dead worker again, from the start: nothing in it asks
\* whether an earlier run has committed.
RunAgain(t) ==
    IF t.tries + 1 < NoticeTries
    THEN [NoTask EXCEPT !.stage = "queued", !.tries = t.tries + 1] ELSE NoTask

NoticeWorkerDies ==
    /\ task.stage \in {"running", "committed"}
    /\ task' = RunAgain(task)
    /\ repeats' = IF task.stage = "committed" THEN repeats + 1 ELSE repeats
    /\ UNCHANGED <<vacancy, inbox, owed, broken>>

\* mark_read: read_at is set once.
MarkRead(u) ==
    /\ inbox[u].unread > 0
    /\ inbox' = [inbox EXCEPT ![u].unread = @ - 1, ![u].read = @ + 1]
    /\ UNCHANGED <<vacancy, task, owed, broken, repeats>>

\* DELETE /notifications/{id}, by staff
DeleteNotice(u) ==
    /\ \/ /\ inbox[u].unread > 0
          /\ inbox' = [inbox EXCEPT ![u].unread = @ - 1, ![u].deleted = @ + 1]
       \/ /\ inbox[u].read > 0
          /\ inbox' = [inbox EXCEPT ![u].read = @ - 1, ![u].deleted = @ + 1]
    /\ UNCHANGED <<vacancy, task, owed, broken, repeats>>

\* The recipients' requests and those of staff are bounded together.
InboxRequest ==
    /\ edits < MaxEdits /\ edits' = edits + 1
    /\ \E u \in Users : MarkRead(u) \/ DeleteNotice(u)
    /\ UNCHANGED <<users, roles, codes, grants, holds, fresh>>

NoticeWork ==
    \/ StartNotice
    \/ \E u \in Users, sent \in BOOLEAN : MailNotice(u, sent)
    \/ CommitNotice \/ EndNotice

NoticeNext ==
    \/ RequestVacancy
    \/ \E outcome \in {"committed", "absent"} : SettleVacancy(outcome)
    \/ NoticeWork \/ NoticeBreaks \/ NoticeWorkerDies

vars == <<accessVars, noticeVars>>

Init == AccessInit /\ NoticeInit
Next ==
    \/ AccessNext /\ UNCHANGED noticeVars
    \/ NoticeNext /\ UNCHANGED accessVars
    \/ InboxRequest
Spec == Init /\ [][Next]_vars

-----------------------------------------------------------------------------
(* Properties *)

RowsOf(u) == inbox[u].unread + inbox[u].read + inbox[u].deleted

TypeOK == AccessTypeOK /\ NoticeTypeOK

\* Whatever happens to the e-mails, a run that commits tells everybody it found,
\* unless a session broke, and nobody else.  A task that died is run again from
\* the start and gives nobody a second notice, unless the worker died when the
\* run had committed already, and then one more at most
\* (notifications_service.py; vacancies_routes.py, _notify_solicitud_created).
FoundAreTold ==
    /\ \A u \in Users : RowsOf(u) <= 1 + repeats /\ (RowsOf(u) > 0 => u \in owed)
    /\ ~broken => \A u \in owed : RowsOf(u) > 0
=============================================================================
