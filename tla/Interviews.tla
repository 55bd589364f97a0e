----------------------------- MODULE Interviews -----------------------------
(***************************************************************************)
(* Interviews: staff book one (mode A) or offer windows the candidate      *)
(* picks from (mode B), and background jobs create the meeting and send    *)
(* the mails.  A request is a database session: it reads and checks,       *)
(* flushes its row and enqueues its jobs, and then commits; several run at *)
(* the same time, READ COMMITTED, with no lock until the flush.            *)
(*                                                                         *)
(* Abstracted: all the reads of a request are one step; the stage, extra   *)
(* addresses and wording are left out; the application, its candidate and  *)
(* its vacancy are one flag; created_by is never null (it is only on rows  *)
(* older than the column).                                                 *)
(***************************************************************************)
EXTENDS Rows, Naturals, FiniteSets

CONSTANTS
    MaxId,         \* bound on the interviews ever created
    Applications,  \* applications interviews are about
    Staff,         \* users who schedule and interview
    MaxTime,       \* bound on the clock and on the windows
    OfferLife,     \* how long an offer stays open (_OFFER_EXPIRY_DAYS)
    Graph,         \* settings.meetings_provider = "graph"
    Slots,         \* database sessions open at the same time
    Requests,      \* the requests clients send
    MaxRequests,   \* bound on how many they send
    MaxTries,      \* max_tries of the arq worker
    NULL           \* SQL NULL

Ids == 1..MaxId
Time == 0..MaxTime
Window == {w \in [from : Time, to : Time] : w.from < w.to}
InterviewStatus == {"scheduled", "offered", "confirmed", "cancelled", "completed"}

\* `link` is teams_meeting_url: none, given in the body, or stored by the job.
Interview ==
    [row : RowState, application : Applications \cup {NULL}, interviewer : Staff \cup {NULL},
     creator : Staff \cup {NULL}, from : Time \cup {NULL}, to : Time \cup {NULL},
     status : InterviewStatus, offered : SUBSET Window, expires : Nat \cup {NULL},
     link : {"none", "given", "meeting"}]

NoInterview ==
    [row |-> "absent", application |-> NULL, interviewer |-> NULL, creator |-> NULL,
     from |-> NULL, to |-> NULL, status |-> "offered", offered |-> {}, expires |-> NULL,
     link |-> "none"]

\* Body of PATCH /interviews/{id}.
ChangeBody ==
    [interviewer : Staff \cup {Unset}, from : Time \cup {NULL, Unset},
     to : Time \cup {NULL, Unset}, status : InterviewStatus \cup {Unset},
     offered : {Unset} \cup SUBSET Window, link : {"none", "given", Unset}]

Request ==
    [op : {"book"}, application : Applications, interviewer : Staff, actor : Staff,
     window : Window, status : InterviewStatus, link : {"none", "given"}]
        \cup [op : {"invite"}, application : Applications, interviewer : Staff, actor : Staff,
              offered : SUBSET Window]
        \cup [op : {"change"}, id : Ids, body : ChangeBody]
        \cup [op : {"confirm"}, id : Ids, window : Window]
        \cup [op : {"delete"}, id : Ids]

ASSUME InterviewAssumption ==
    /\ MaxId \in Nat /\ MaxTime \in Nat /\ OfferLife \in Nat /\ MaxRequests \in Nat
    /\ MaxTries \in Nat \ {0}
    /\ Graph \in BOOLEAN
    /\ Requests \subseteq Request
    /\ NULL \notin Applications \cup Staff \cup Nat
    /\ Unset \notin Staff \cup Nat \cup InterviewStatus \cup {NULL}

VARIABLES
    interviews,  \* recruitment.interviews, committed
    live,        \* per application: it, its candidate and its vacancy are active
    session,     \* what each request has read and where it stands
    queue,       \* background jobs, and whether the window they read was set
    mails,       \* what has been mailed about each interview
    notices,     \* in-app notifications: whom each interview was announced to
    now,
    lastId,      \* last value of the identity column
    sent,
    excused      \* history: interviews a failure, a link that staff wrote, or
                 \* their own end may have left without the invitation

vars == <<interviews, live, session, queue, mails, notices, now, lastId, sent, excused>>

NoRequest == [op |-> "none"]
Idle ==
    [pc |-> "idle", request |-> NoRequest, number |-> 0, id |-> 0,
     loaded |-> NoInterview, wanted |-> NoInterview]

Session ==
    [pc : {"idle", "checked", "flushed"}, request : Requests \cup {NoRequest},
     number : 0..MaxRequests, id : Ids \cup {0}, loaded : Interview, wanted : Interview]

\* The four registered tasks, and the later steps of create_teams_meeting.
MeetingStep == {"call_provider", "store_link", "invite"}
Task ==
    {"create_teams_meeting", "send_interview_invitation", "send_slot_offer_email",
     "notify_slot_confirmed"} \cup MeetingStep

Job ==
    [task : Task, id : Ids, timed : BOOLEAN, by : 1..MaxRequests, tries : 0..(MaxTries - 1)]

TypeOK ==
    /\ interviews \in [Ids -> Interview]
    /\ live \in [Applications -> BOOLEAN]
    /\ session \in [Slots -> Session]
    /\ queue \subseteq Job
    /\ mails \in [Ids -> SUBSET {"offer", "invitation"}]
    /\ notices \subseteq [id : Ids, to : Staff \cup {"candidate"}]
    /\ now \in Time
    /\ lastId \in 0..MaxId
    /\ sent \in 0..MaxRequests
    /\ excused \subseteq Ids

Init ==
    /\ interviews = [i \in Ids |-> NoInterview]
    /\ live = [a \in Applications |-> TRUE]
    /\ session = [r \in Slots |-> Idle]
    /\ queue = {}
    /\ mails = [i \in Ids |-> {}]
    /\ notices = {}
    /\ now = 0
    /\ lastId = 0
    /\ sent = 0
    /\ excused = {}

-----------------------------------------------------------------------------
(* The interviewer's agenda *)

\* The row takes its interviewer's time.  A half-set window compares as NULL
\* in SQL and takes none.
TakesTime(row) ==
    /\ IsActive(row)
    /\ row.status # "cancelled"
    /\ row.from # NULL /\ row.to # NULL

\* Mutant of Conflicts: only an interview that starts at the same time conflicts.
MutConflictsSameStart(u, from, to, i) ==
    {j \in Ids \ {i} : /\ TakesTime(interviews[j])
                       /\ interviews[j].interviewer = u
                       /\ interviews[j].from = from}

\* _assert_no_double_booking: what the interviewer has then, interview i aside.
Conflicts(u, from, to, i) ==
    {j \in Ids \ {i} : /\ TakesTime(interviews[j])
                       /\ interviews[j].interviewer = u
                       /\ interviews[j].from < to
                       /\ interviews[j].to > from}

-----------------------------------------------------------------------------
(* The candidate's two lists, and the staff's *)

\* list_offers_for_candidate
IsOffer(row) ==
    /\ IsActive(row)
    /\ row.status = "offered" /\ row.from = NULL
    /\ row.expires = NULL \/ row.expires >= now

\* Mutant of IsAppointment: only what the candidate picked.
MutIsAppointmentConfirmed(row) == IsActive(row) /\ row.from # NULL /\ row.status = "confirmed"

\* list_scheduled_for_candidate
IsAppointment(row) == IsActive(row) /\ row.from # NULL /\ row.status # "cancelled"

\* list_all_interviews: what staff see, cancelled or not, of every interview or
\* of those from and before given times; offers have no time to compare.
InStaffList(row, from, before) ==
    /\ IsActive(row)
    /\ from # NULL => row.from # NULL /\ row.from >= from
    /\ before # NULL => row.from # NULL /\ row.from < before

-----------------------------------------------------------------------------
(* Requests *)

At(r, pc) == session[r].pc = pc
Op(r) == session[r].request.op
Go(r, s) == session' = [session EXCEPT ![r] = s]

\* Every guard of the handler holds on what it reads.
Begin(r, q, id, loaded, wanted) ==
    /\ At(r, "idle")
    /\ sent < MaxRequests
    /\ sent' = sent + 1
    /\ Go(r, [pc |-> "checked", request |-> q, number |-> sent + 1, id |-> id,
              loaded |-> loaded, wanted |-> wanted])
    /\ UNCHANGED <<interviews, live, queue, mails, notices, now, excused>>

Accept(r, q, wanted) ==
    /\ Begin(r, q, q.id, interviews[q.id], wanted)
    /\ UNCHANGED lastId

\* A new row takes the next value of the identity column, for good.
AcceptNew(r, q, wanted) ==
    /\ lastId < MaxId
    /\ lastId' = lastId + 1
    /\ Begin(r, q, lastId + 1, NoInterview, wanted)

\* POST /interviews.
Book(r, q) ==
    /\ q.op = "book"
    /\ live[q.application]
    /\ Conflicts(q.interviewer, q.window.from, q.window.to, 0) = {}
    /\ AcceptNew(r, q,
          [NoInterview EXCEPT !.row = "active", !.application = q.application,
              !.interviewer = q.interviewer, !.creator = q.actor, !.from = q.window.from,
              !.to = q.window.to, !.status = q.status, !.link = q.link])

\* POST /interviews/invite: no window yet, so no agenda to check.
Invite(r, q) ==
    /\ q.op = "invite"
    /\ live[q.application]
    /\ AcceptNew(r, q,
          [NoInterview EXCEPT !.row = "active", !.application = q.application,
              !.interviewer = q.interviewer, !.creator = q.actor,
              !.status = "offered", !.offered = q.offered, !.expires = now + OfferLife])

Patched(row, b) ==
    [row EXCEPT !.interviewer = OrKeep(b.interviewer, @), !.from = OrKeep(b.from, @),
                !.to = OrKeep(b.to, @), !.status = OrKeep(b.status, @),
                !.offered = OrKeep(b.offered, @), !.link = OrKeep(b.link, @)]

\* PATCH /interviews/{id}: the agenda is checked when the body moves the
\* interview or gives it to somebody else.
Change(r, q) ==
    /\ q.op = "change"
    /\ IsActive(interviews[q.id])
    /\ LET row == Patched(interviews[q.id], q.body)
           moves == \E f \in {"interviewer", "from", "to"} : q.body[f] # Unset
       IN  /\ row.from # NULL /\ row.to # NULL =>
                 /\ row.from < row.to
                 /\ moves => Conflicts(row.interviewer, row.from, row.to, q.id) = {}
           /\ Accept(r, q, row)

\* POST /interviews/me/{id}/confirm: an open offer, one of its windows, not in
\* the past, and the interviewer still free.
Confirm(r, q) ==
    LET row == interviews[q.id]
    IN  /\ q.op = "confirm"
        /\ IsOffer(row)
        /\ q.window.from >= now
        /\ q.window \in row.offered
        /\ Conflicts(row.interviewer, q.window.from, q.window.to, q.id) = {}
        /\ Accept(r, q, [row EXCEPT !.from = q.window.from, !.to = q.window.to,
                                    !.status = "confirmed"])

\* DELETE /interviews/{id}.
Delete(r, q) ==
    /\ q.op = "delete"
    /\ IsActive(interviews[q.id])
    /\ Accept(r, q, [interviews[q.id] EXCEPT !.row = "inactive"])

Arrive(r) ==
    \E q \in Requests :
        Book(r, q) \/ Invite(r, q) \/ Change(r, q) \/ Confirm(r, q) \/ Delete(r, q)

\* No other request holds the row's lock.
RowFree(i, r) == \A x \in Slots \ {r} : ~(At(x, "flushed") /\ session[x].id = i)

\* Mutant of Written: the UPDATE writes the whole row as the request read it.
MutWrittenWhole(r) == session[r].wanted

\* The row as the flush leaves it: only the columns the request changed.
Written(r) == Merge(session[r].loaded, session[r].wanted, interviews[session[r].id])

\* The jobs of the route: the meeting, or the invitation when there is a link.
TasksOf(op, row) ==
    LET link == IF row.link # "none" THEN {"send_interview_invitation"}
                ELSE IF Graph THEN {"create_teams_meeting"} ELSE {}
    IN  CASE op = "book"    -> link
          [] op = "invite"  -> {"send_slot_offer_email"}
          [] op = "confirm" -> link \cup {"notify_slot_confirmed"}
          [] op \in {"change", "delete"} -> {}

JobFor(t, i, number) ==
    [task |-> t, id |-> i, timed |-> FALSE, by |-> number, tries |-> 0]

Flush(r) ==
    LET s == session[r]
    IN  /\ At(r, "checked")
        /\ RowFree(s.id, r)
        /\ Go(r, [s EXCEPT !.pc = "flushed"])
        /\ queue' = queue \cup {JobFor(t, s.id, s.number) : t \in TasksOf(Op(r), Written(r))}
        /\ UNCHANGED <<interviews, live, mails, notices, now, lastId, sent, excused>>

\* In-app notifications are inserted with the row: the candidate is told of a
\* booking and of an offer, and the creator of a confirmation, unless the
\* creator is the interviewer (left to notify_slot_confirmed).
ToldOnCommit(op, row) ==
    CASE op \in {"book", "invite"}   -> {"candidate"}
      [] op = "confirm"              -> {row.creator} \ {row.interviewer}
      [] op \in {"change", "delete"} -> {}

\* Staff write the link themselves.
WritesLink(q) == q.op = "change" /\ q.body.link # Unset

Commit(r) ==
    LET s == session[r]
    IN  /\ At(r, "flushed")
        /\ interviews' = [interviews EXCEPT ![s.id] = Written(r)]
        /\ notices' = notices \cup
              {[id |-> s.id, to |-> x] : x \in ToldOnCommit(Op(r), Written(r))}
        /\ excused' = IF WritesLink(s.request) THEN excused \cup {s.id} ELSE excused
        /\ Go(r, Idle)
        /\ UNCHANGED <<live, queue, mails, now, lastId, sent>>

\* The session breaks: rolled back, but its jobs stay enqueued.
Break(r) ==
    /\ ~At(r, "idle")
    /\ Go(r, Idle)
    /\ UNCHANGED <<interviews, live, queue, mails, notices, now, lastId, sent, excused>>

-----------------------------------------------------------------------------
(* Background jobs *)

Becomes(j, jobs) == queue' = (queue \ {j}) \cup jobs
Excuse(j) == excused' = excused \cup {j.id}

\* create_teams_meeting reads the rows; it returns if there is nothing to do.
StartMeeting(j) ==
    LET row == interviews[j.id]
        there == IsActive(row) /\ live[row.application]
    IN  /\ j.task = "create_teams_meeting"
        /\ Becomes(j, IF there /\ row.link = "none"
                      THEN {[j EXCEPT !.task = "call_provider",
                                      !.timed = row.from # NULL /\ row.to # NULL]}
                      ELSE {})
        /\ IF there THEN UNCHANGED excused ELSE Excuse(j)
        /\ UNCHANGED <<interviews, live, session, mails, notices, now, lastId, sent>>

\* The provider creates the meeting, or answers that it cannot, as it always
\* does of a window that is not set (isoformat of None).
CallProvider(j) ==
    /\ j.task = "call_provider"
    /\ \/ /\ j.timed
          /\ Becomes(j, {[j EXCEPT !.task = "store_link"]})
          /\ UNCHANGED excused
       \/ /\ Becomes(j, {[j EXCEPT !.task = "invite"]})
          /\ Excuse(j)
    /\ UNCHANGED <<interviews, live, session, mails, notices, now, lastId, sent>>

\* Mutant of StoreLink: the invitation is left to somebody else.
MutStoreLinkSendsNothing(j) ==
    /\ j.task = "store_link"
    /\ interviews' = [interviews EXCEPT ![j.id].link = "meeting"]
    /\ Becomes(j, {})
    /\ UNCHANGED <<live, session, mails, notices, now, lastId, sent, excused>>

\* The commit of the link; the invitation follows in a session of its own.
StoreLink(j) ==
    /\ j.task = "store_link"
    /\ \A r \in Slots : ~(At(r, "flushed") /\ session[r].id = j.id)
    /\ interviews' = [interviews EXCEPT ![j.id].link = "meeting"]
    /\ Becomes(j, {[j EXCEPT !.task = "invite"]})
    /\ UNCHANGED <<live, session, mails, notices, now, lastId, sent, excused>>

Mail(j, sends, kind) ==
    /\ Becomes(j, {})
    /\ mails' = [mails EXCEPT ![j.id] = IF sends THEN @ \cup {kind} ELSE @]
    /\ UNCHANGED <<interviews, live, session, notices, now, lastId, sent>>

\* How often it is mailed is left out.
Invited(row) == IsActive(row) /\ row.link # "none"

SendInvitation(j) ==
    LET row == interviews[j.id]
    IN  /\ j.task \in {"invite", "send_interview_invitation"}
        /\ LET sends == Invited(row) /\ live[row.application]
           IN  /\ Mail(j, sends, "invitation")
               /\ IF sends THEN UNCHANGED excused ELSE Excuse(j)

\* Deleted interviews included; one whose INSERT is not committed is not found.
SendOffer(j) ==
    LET row == interviews[j.id]
    IN  /\ j.task = "send_slot_offer_email"
        /\ Mail(j, row.row # "absent" /\ row.offered # {} /\ live[row.application], "offer")
        /\ UNCHANGED excused

\* notify_slot_confirmed calls _author_name_from_email, which the module neither
\* defines nor imports: NameError, logged and rolled back, whatever it read.
NotifyConfirmed(j) ==
    /\ j.task = "notify_slot_confirmed"
    /\ Becomes(j, {})
    /\ UNCHANGED <<interviews, live, session, mails, notices, now, lastId, sent, excused>>

RunJob(j) ==
    StartMeeting(j) \/ CallProvider(j) \/ StoreLink(j) \/ SendInvitation(j)
        \/ SendOffer(j) \/ NotifyConfirmed(j)

\* A read, a commit or a mail fails: logged, rolled back, and the job is over
\* (EmailDispatchService.send answers False, which nobody looks at).
JobFails(j) ==
    /\ Becomes(j, {})
    /\ IF j.task \in {"create_teams_meeting"} \cup MeetingStep THEN Excuse(j) ELSE UNCHANGED excused
    /\ UNCHANGED <<interviews, live, session, mails, notices, now, lastId, sent>>

\* The job as arq starts it again: with none of what it had read.
Restarted(j) ==
    [j EXCEPT !.task = "create_teams_meeting", !.timed = FALSE, !.tries = @ + 1]

\* arq runs the job of a dead worker again, up to max_tries.  A job that had
\* stored its link will find it and return, so that nobody is left to mail it.
\* A job of one step has either not begun or is one that fails.
WorkerDies(j) ==
    LET again == j.tries + 1 < MaxTries
    IN  /\ j.task \in MeetingStep
        /\ Becomes(j, IF again THEN {Restarted(j)} ELSE {})
        /\ IF again /\ j.task # "invite" THEN UNCHANGED excused ELSE Excuse(j)
        /\ UNCHANGED <<interviews, live, session, mails, notices, now, lastId, sent>>

Worker(j) == RunJob(j) \/ JobFails(j) \/ WorkerDies(j)

-----------------------------------------------------------------------------
\* An application is withdrawn, or posted again.
Toggle(a) ==
    /\ live' = [live EXCEPT ![a] = ~@]
    /\ UNCHANGED <<interviews, session, queue, mails, notices, now, lastId, sent, excused>>

Tick ==
    /\ now < MaxTime
    /\ now' = now + 1
    /\ UNCHANGED <<interviews, live, session, queue, mails, notices, lastId, sent, excused>>

Next ==
    \/ \E r \in Slots : Arrive(r) \/ Flush(r) \/ Commit(r) \/ Break(r)
    \/ \E j \in queue : Worker(j)
    \/ \E a \in Applications : Toggle(a)
    \/ Tick

Spec == Init /\ [][Next]_vars

\* A handler runs to its end unless it breaks, PostgreSQL grants the row locks,
\* and the worker takes every job.
FairSpec ==
    /\ Spec
    /\ \A r \in Slots : WF_vars(Flush(r) \/ Commit(r))
    /\ WF_vars(\E j \in queue : RunJob(j))

-----------------------------------------------------------------------------
(* Properties *)

Committing(r) == At(r, "flushed") /\ session'[r].pc = "idle"

\* The agenda the rows describe.
booked ==
    [i \in Ids |->
        LET row == interviews[i]
        IN  IF TakesTime(row)
            THEN [who |-> row.interviewer, from |-> row.from, to |-> row.to]
            ELSE [who |-> "nobody", from |-> 0, to |-> 0]]

Agenda == INSTANCE InterviewAgenda

\* One request at a time, scheduling is the abstract agenda: every commit books
\* or releases one interview, and nobody is double booked, although half of the
\* interviews wait as offers while others take their windows.  Staff cancel
\* interviews; they do not put cancelled ones back.
KeepsTheAgenda == Agenda!Spec

\* Once the provider has created a meeting, the candidate is mailed the
\* invitation, also when the worker dies before the link is stored and the job
\* starts over, or when two jobs work for one interview.  Only what `excused`
\* records stops it: the interview or the application is gone when a job looks,
\* staff wrote the link, the provider refuses the second time, or a failure
\* that nothing tries again, of the commit, of the mail, or of the worker once
\* the link is stored (interviews_routes.py, _create_teams_meeting).
MeetingIsSent ==
    \A i \in Ids :
        (\E j \in queue : j.task = "store_link" /\ j.id = i)
            ~> ("invitation" \in mails[i] \/ i \in excused)

\* The link of a meeting stays on the row whatever was read before it was
\* stored: a request that moves, cancels or deletes the interview meanwhile
\* does not write the old link back (_create_teams_meeting, BaseRepository).
StoredLinkStays ==
    [][\A i \in Ids : interviews[i].link = "meeting" /\ interviews'[i].link # "meeting" =>
          \E r \in Slots : /\ session[r].id = i /\ Committing(r)
                           /\ WritesLink(session[r].request)]_vars

\* The candidate always sees an interview that stands, among the offers or among
\* the appointments, whoever picked its time and whatever moved it since, and
\* staff find it on one side of any date they ask for; only an offer that ran
\* out is left to the staff's list.  Staff set a time and do not clear it
\* (interviews_service.py, list_scheduled_for_candidate; interviews_routes.py,
\* list_all_interviews).
StandingIsInSight ==
    \A i \in Ids :
        LET row == interviews[i]
        IN  IsActive(row) /\ row.status # "cancelled" =>
                /\ InStaffList(row, NULL, NULL)
                /\ row.from # NULL =>
                      \A t \in Time : InStaffList(row, t, NULL) # InStaffList(row, NULL, t)
                /\ \/ IsOffer(row) \/ IsAppointment(row)
                   \/ row.status = "offered" /\ row.expires < now
=============================================================================
