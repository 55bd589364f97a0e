# Verification of the ATS backend

TLA+ models of the recruitment backend under `src/`, the TLC configurations
that check them on small instances, and TLAPS proofs of what matters most for
every value of the constants. `PROJECT.json` lists the components, the runs,
the lines each definition stands for, the hazards and the theorems.

File abbreviations used below: `A` = `modules/recruitment/application/applications_service.py`,
`AR` = `modules/recruitment/api/applications_routes.py`, `V`/`VR`/`VS` = `vacancies_service.py`,
`vacancies_routes.py`, `vacancies_schemas.py`, `PS` = `modules/org/application/process_stages_service.py`,
`P` = `processes_service.py`, `PR` = `modules/recruitment/infrastructure/pipeline_repository.py`,
`I`/`IR` = `interviews_service.py`, `interviews_routes.py`,
`SG` = `modules/recruitment/application/slot_generation_service.py`, all under `src/app`.

## 1. The system

FastAPI handlers over async SQLAlchemy and PostgreSQL, Redis for the login
throttle and the token denylist, MinIO for files, an external system (TMR) the
client companies come from, a language model that reads CVs, and an optional
arq worker.

What every component shares, and what makes the system hard:

* **One session per request** (`core/database.py` `get_session`). Reads, checks
  and flushes happen in one transaction that commits after the handler returned,
  and rolls back on any exception. Isolation is READ COMMITTED, `autoflush` is
  off, no row has a version column and no query takes a lock, so anything may
  commit between a check and the write that rests on it. SQLAlchemy writes only
  the columns whose value changed against what the session loaded.
* **Soft delete** (`shared/repository.py`). `get` and `list` see active rows
  only; unique constraints and foreign keys see all of them.
* **Background tasks** (`core/task_queue.py`) are enqueued inside the request,
  before the commit. Inline, they run on the same event loop at once; with arq,
  in the worker. They open their own session and swallow their exceptions; arq
  runs a task again only when its worker died.
* **Redis, MinIO and the process's memory** are not part of the transaction:
  what was written there stays when the session rolls back.

| Component | State | Operations | Interacts with | What makes it correct |
|---|---|---|---|---|
| Applications board | applications: stage, status, sub-status, reason, rejection marker, active | apply (or re-apply), patch (move, reject, reject again, hire), withdraw, auto-reject, the drawn board | vacancies, stages, tasks | outcome, column, reason and marker stay together; a rejection is told once; an ended vacancy leaves nobody undecided; no card vanishes |
| Vacancies | status, process, openings, active | create, publish, pause, close, cancel, delete | applications, processes | ending settles everyone and never touches a hire |
| Processes and stages | stages with order, final flag, active | create, mark final, delete, switch off | vacancies, applications | no card on a deleted stage |
| Accounts and profiles | users, candidate profiles, verification links | register, verify, resend, edit, delete the profile, close, come back | consents, board, talent pool, mail | a closed account is gone, and comes back whole |
| Consents | append-only log of grants, refusals, revocations | grant, revoke, refuse | accounts | the log says what the user last said |
| Talent pool | entries per candidate and source vacancy | add, remove | profiles | one entry per source, NULL included |
| Sign-in sessions | refresh tokens (chains), denylist marker, reset links | login, refresh, logout, change and reset password, deactivate | Redis, throttle | what was ended stays ended; one usable token per login, but for refreshes that overlap; a link works once |
| Login throttle | failure counter and lock per account | record failure, reset, check | login | few wrong passwords per window, however many logins race |
| Roles and permissions | roles, permissions, grants, parameter types, assignments | create, rename, delete, grant, revoke, assign, replace | every route | nobody holds a deleted role |
| Seed and bootstrap | the same rows | one run at each deployment | roles, users | the program's own roles confer exactly their allowlists afterwards, the candidates' parameter types excepted |
| Notifications and e-mail | in-app rows, task, mail log | request a vacancy, tell its publishers, read, delete | roles, worker | whoever was found is told, and twice only after a worker's death |
| CV analysis, parsing, CV files | objects, file rows, profile's CV, parsed data, score, tasks | upload, delete, link, apply, analyse | MinIO, the model, worker | quota; answers are of linked CVs; a withdrawn application keeps its score; every task ends |
| Interviews | interviewer, window, status, offers, link | book, invite, confirm, change, delete; four tasks | applications, meeting provider, mail | nobody is double booked; a meeting is sent, and its link stays; what stands is in sight |
| Availability and slots | weekly windows | create, change, delete, offer slots, staff's agenda | interviews | a slot on offer is bookable but for seconds, and none is lost |
| Client companies and contacts | companies (own and mirrored), contacts, processes, vacancies | throttled sync, create, move, switch, delete | TMR | rows in use stay; the mirror catches up |
| Catalogues and templates | parameters, departments, templates with items, menu | create, patch, copy, move, delete | all | a value in use is not deleted; a copy is its own |
| Rate limits, document generation, application notes, CV parse job rows | – | – | – | not modelled, see section 7 |

## 2. The modules

| Module | What it is |
|---|---|
| `Rows` | what `shared/repository.py` does to a row: active or not, PATCH "field sent or kept", and the column-wise UPDATE (`Merge`) |
| `KanbanRules` | the board's rules without time: row types, first stage, the terminal-transition matrix, the auto-reject, the guards of close and publish |
| `Recruitment` | the board one request at a time: every action is a whole handler. The specification the races are compared with |
| `BoardRaces` | the same rules query by query: sessions that read, check, flush, hold row locks, enqueue and commit, and the notification jobs |
| `InterviewAgenda` | abstract: windows of an interviewer are taken and freed, and no two overlap |
| `Interviews` | interviews in detail: sessions, offers, meetings, the four background jobs, what candidate and staff are shown |
| `AvailableSlots` | an interviewer's weekly windows in local time, the bookings at UTC instants, the slots on offer and the staff's agenda of two days |
| `LoginThrottle` | several logins under way, the Redis counter and lock command by command, with seconds passing and connections lost in between |
| `Sessions` | tokens, denylist, reset links of one user, refreshes in two steps; extends `LoginThrottle`, whose logins it answers |
| `Accounts` | one e-mail address: registration, verification, closing and return, with consents, profile, an application and the talent pool |
| `CvPipeline` | one candidate's CVs: uploads, the open request, tasks and the worker, interleaved |
| `Access` | roles, permissions and their assignments, and the bootstrap |
| `Notifications` | the notice of a requested vacancy, from the request to the inbox; extends `Access`, whose holders it tells |
| `Clients` | the mirror of the client list await by await, and the edits of what depends on it |
| `Catalogues` | parameters, departments, templates, the menu and the rows that point at them |
| `RecruitmentProofs`, `BoardRacesProofs`, `InterviewsProofs`, `AccountsProofs` (with `Sessions` and its throttle), `AvailableSlotsProofs`, `NotificationsProofs` (with `CvPipeline`), `ClientsProofs`, `CataloguesProofs` | the theorems |
| `MCRecruitment`, `MCBoardRaces`, `MCInterviews`, `MCAvailableSlots`, `MCSessions`, `MCAccounts`, `MCCvPipeline`, `MCAccess`, `MCClients`, `MCCatalogues` | the instances for TLC |

How they compose: `Recruitment` and `BoardRaces` extend `KanbanRules`, so both
apply the same rules; `BoardRaces` instantiates `Recruitment` (`Board`) and with
one session implements it (`SerialBoard`). `Interviews` instantiates
`InterviewAgenda` through the mapping `booked` and with one session implements
it (`KeepsTheAgenda`). `AvailableSlots` stands by itself: its bookings come and
go under the rule that `KeepsTheAgenda` shows of the interviews. `Notifications`
runs on `Access`: administrators change roles while the task that tells the
holders of a permission is under way, and `MCAccess` checks both together.
`Sessions` runs on `LoginThrottle`. The login of `Accounts` is the guard
`MayWork`; what tokens do to it is in `Sessions`.

### Code to model

* A **row** is a record with `row \in {"absent", "active", "inactive"}` for
  `is_active`; an application is unique per (vacancy, candidate), as the table's
  constraint says. Status ids are their codes. `Unset` is a field the body does
  not carry (`exclude_unset`), `NULL` is SQL NULL.
* A **refused request** raises and is rolled back: in the modules with one
  request at a time a disabled action, in `BoardRaces` a step that releases what
  the session held, in `Interviews` a disabled `Arrive`, or a session that breaks.
* The three branches of `ApplicationService.update` are three groups of actions
  (`PatchFields`; `RejectManually`/`RejectAgain`; `MoveToFinal`/`MoveToStage`)
  with guards that exclude each other. The route's comparison of the row before
  and after, which decides the tasks, is `PatchTasks`.
* In `BoardRaces` a session goes through the queries of its handler in their
  order. What it read sits in `session[r]`; `Merge` writes back only what it
  changed. A flushed row is an uncommitted draft: other sessions wait for it and
  then read the committed row. Reads of several rows by one query are one step.
* In `Interviews` the reads of one request are one step ("checked"), the flush,
  which takes the row lock and enqueues the jobs, is the second, and the commit
  the third. `create_teams_meeting` is its read, the call, the commit of the link
  and the invitation, because other requests run in between; each may fail, and a
  worker that dies starts the job over (`WorkerDies`).
* In `AvailableSlots` an instant is a tick (a second) from a UTC midnight, a local
  time is minutes of a local day, and `Offset` is EC_TZ; the days lie in one
  week, so a date is its weekday. There is one interviewer: every query has its
  id. The loop over slots is the set of its starts, the loop over bookings a
  quantifier.
* In `Sessions` a slot holds a refresh token and the access token issued with it.
  Time is what is left of each; a token's age is its lifetime minus that. What a
  handler writes to Redis is there whether or not the transaction commits
  (`RolledBack`), so the replay of a rotated token leaves the marker and rolls
  back the revocation of its rows, as the code does. A refresh is the read of its
  token (`ReadToken`) and the rotation (`Rotate`), and anything may come between.
  The pair of a refresh that was overtaken there is marked `stray` and counts as a
  sign-in of its own. The answer to a right password, a change or reset of the
  password and a deactivation are one step each.
* In `LoginThrottle` a login stands before its next Redis command: past the lock
  check, before EXPIRE, before SET of the lock, before DEL of the counter. The
  logins at one place are alike, so the state counts them. Each command is a step,
  and a connection may be lost at any of them. The check of a wrong password and
  its INCR are one step. Two things are assumed: a login that has set the lock
  gets to its DEL before the lock runs out by itself (`ThrottleTick`), and a right
  password forgives what came before it, also when it lifts a lock whose DEL is
  still to come (`ClearCounter`).
* In `Accounts` the consent log is a sequence per type, in the order of insertion;
  a refusal is a row accepted and revoked in the same instant. `word` and `closed`
  are history. `Accounts` treats e-mail as tasks that run later or never.
* In `CvPipeline` a task reads in one session, waits for the model with no session
  open, and in another reads the row again and writes it, in two steps
  (`RereadRow`, `FinishTask`), since no lock holds in between; the request whose transaction is open is a
  variable of its own, so that a task can run before its commit. A CV stands for
  what is read out of it.
* In `Access` a code is a permission or a parameter type, and `Confers` is the
  query of `authorization_repository.py` with `is_active` on every hop. A
  bootstrap is one step, since it is one transaction at start-up. It rules the
  permission codes of every role it knows (`Ruled`), and the parameter types of
  all of them but `candidate`.
* In `Notifications` the commit of the task's session and arq's result are two
  steps, and the worker may die between them.
* In `Clients` every `await` of a listing is a step; TMR's token and the throttle
  are the memory of the process and survive a rollback but not a restart.
* In `Access`, `Accounts` and `Catalogues` a request is one step, so two of them
  never race between a check and its write.
* In `Catalogues` one table of each kind stands for all that point at it: the
  items of templates and the menu for the 23 columns of `_REFERENCES`
  (`parameter_usage_repository.py`). That the list is complete is not checked.
  `switched` is the history of the rows a PATCH of `is_active` or `type` took out
  of the guards' reach.
* A break (`Fail`, `Break`, `RequestBreaks`, `NoticeBreaks`, ...) is the exception
  or lost connection after which `get_session` rolls back; jobs already enqueued
  stay. A worker that dies runs its task again from the start, at most
  `max_tries` times.

Abstracted everywhere: names, texts, salaries, the value of a score, audit
columns, pagination. Catalogue rows found by (type, code) are taken as seeded. In
`Interviews` the application, its candidate and its vacancy are one flag, since
the code always asks for all three, and offered windows have their ends in order
(the route accepts any). Availability times have no seconds; bookings have them.

## 3. The runs

The runs of the board have one vacancy, one process and its two seeded stages
plus one middle stage: the rules never look at two vacancies or two processes
together, and three stages give a first, a middle and a final column.

| Run | Question | Bounds and why they are enough |
|---|---|---|
| `rec_board` | Do outcome and column stay together; is a card that leaves the board told once; does ending a vacancy settle everyone and spare the hired; does no card vanish? | two candidates for one opening, so that one is hired while the other is not; staff create an application active or already hired; status and stage bodies with sub-status or reason; `TwoCandidateFocus` explores every request one step deep but goes on only from states with the process on and a vacancy open or closed, and lets a profile be off only while the other candidate has not applied: what lies beyond adds no interaction between two candidates. The theorems cover every body and every state |
| `races_rows` | Does every rejection carry a reason, do withdrawals stay withdrawn, do PATCHes undo nothing they did not name? | one candidate, every kind of request, staff's creates with a status included; three requests over two sessions, one of which may break: a lost update needs two writers and something to lose |
| `races_told` | Does every request end, and is the notice of everyone rejected handed to its job? | two candidates, two sessions, three requests among move, reject, cancel and delete; the auto-reject then locks two rows in either order |
| `races_serial` | Is `BoardRaces` with one session the board of `Recruitment`? | every kind of request, two candidates |
| `interviews_agenda` | Is scheduling the abstract agenda, does a meeting, once made, reach the candidate, does its link stay, and is what stands in the candidate's sight? | two interviews, two interviewers, a day of two hours, one session at a time, three requests: enough for a booking, an offer, and a change or an answer that would overlap; jobs run, fail and start over between any two steps of a request, each tried twice |
| `slots` | Is every slot on offer bookable but for the seconds dropped, every free place on offer, and the staff's agenda the two days it says? | two windows, two days of four minutes of two ticks, local time two minutes behind UTC, every instant; a booking past UTC midnight late in the local day, one over local midnight that ends between two minutes, one over both, one shorter than a minute, and the offered slots themselves, so that the last slots of a local day fall on the next UTC day |
| `sessions` | Does what was ended stay ended, is one token per login usable, does a link work once, are guesses few? | three tokens (two logins, or one and its rotations), access for two seconds and refresh for three, a marker that outlives access by one; three failures to a lock, two logins at a time, a window and a lock of two seconds, one lost connection, so that the end of one window, the whole of the next and a login past the check fall into one. `Focus` goes on from states of the tokens (two refreshes race, nobody fails to sign in) and states of the throttle (two logins race, at most one token, mail or link alive), since the two halves share nothing but the reset of the keys by a login and a reset link |
| `accounts` | Does the last word count, is a closed account gone, does it come back whole, is nobody listed twice? | one address (a candidate's or a staff member's), its document and one somebody else has, three rows per consent type (a grant, its revocation and one more), a source vacancy and the general pool |
| `cv` | Does the quota hold, are answers of linked CVs, does every task end? | two CVs for a quota of one, so that racing uploads go past it; two tasks at a time, since a change of CV enqueues two; a worker that tries twice |
| `access` | Does a bootstrap restore, is no deleted role held, is whoever was found told? | the candidates' role, whose parameter types the bootstrap leaves alone; an administrator and another user, the administrator's role, one the bootstrap keeps and nothing protects, a third; three edits between bootstraps: enough to rename, delete and re-create a role |
| `catalogues` | Is nothing in use deleted, does a copy share nothing? | a category, a portal and a third parameter, two templates with two items, two menu items (a parent and a child, or a circle), five requests: create, use, copy, switch and delete |
| `clients` | Do contacts keep their company, and does the mirror catch up? | one client of TMR, one local company, a contact and a process, two listings at once, three edits, one failure |

`CHECK_DEADLOCK FALSE` is set where all requests can be spent and every job run
(`races_*`, `access`, `catalogues`): the bounded system then stops, as it should.
Symmetry is used where the values are alike and no property is temporal
(candidates, windows, tokens).

**Fairness.** `BoardRaces!FairSpec` and `Interviews!FairSpec` ask weak fairness
of a session that has something to do, and of the job queue as a whole. The code
justifies it: a handler runs on the event loop until it ends, PostgreSQL grants
a row lock when its holder finishes (and `EveryRequestEnds` shows that holders
do), and both queues take every job. `CvPipeline!CvFairSpec` asks that the worker
takes up what is queued and that the model answers or fails, which arq's
`job_timeout` guarantees; the inline queue has no such timeout, so a model that
hangs there is outside `TasksEnd`. `Clients!FairSpec` asks that the sixty seconds of the throttle pass,
that a listing goes on (weakly) and is granted the rows' locks (strongly: another
listing may take them in between, but PostgreSQL queues waiters), and that the
clients are listed again and again, as the screens do. Nothing is assumed of
other clients, of the clock, of withdrawals, breaks or deaths. The liveness
properties are therefore about what was already started: `EveryRequestEnds`,
`RejectedIsEventuallyTold` (told is: handed to the job, which logs its own failures
and does not repeat, `AR:160`, `AR:227`), `MeetingIsSent`, `TasksEnd`; and `MirrorCatchesUp`
about a TMR that is back for good.

What the passing runs say, in words:

* Board, one at a time: a hired candidate stands on a final-positive stage, unless
  staff created the application hired (it stands on the first column, `A:213`, as
  `tests/test_applications.py:435-452` wants) or wrote the status by hand, and then
  only until the card moves; no active card on a deleted one, the end of a vacancy leaves nobody undecided and
  no hire changed, a card taken off the board is told exactly then, and no card
  vanishes while its application, vacancy and process are there.
* Board, racing: an application that reads rejected carries a reason, although
  the status and the reason may come from two requests; a withdrawn application
  comes back only by applying; nothing waits for ever. That a card in the
  rejected column is a rejected one holds of three requests but not of four
  (section 6).
* Interviews: one at a time, nobody is ever double booked, and the candidate
  finds what stands among offers or appointments, staff in their list on one
  side of any date; an offer that ran out is in the staff's list only. A meeting
  that was created is mailed, also when its job starts over, unless one of the
  failures of section 6 loses it (`excused` is their list, and shows there are no
  others); whatever a request read before the link was stored does not overwrite it.
* Slots: the computation in local minutes and the agenda in UTC instants agree
  around both midnights, but for the seconds, which bookings have and slots drop:
  only a booking that ends within the first minute of a slot, or is shorter than a
  minute, is missed. `OffersLoseOnlySeconds` is about days whose windows are apart
  (`Apart`): nothing in the code keeps them so, see section 6.
* Sessions: the marker in Redis covers every access token it was written for, to
  the second in which both were made, and until the last of them expires, also
  when the database rolled back and although `get_current_user` never reads the
  user's row; only a refresh under way at that moment gets its new pair. A login
  has one refresh token that works, and one more for each refresh that was
  overtaken. Wrong passwords within any window are at most: the limit less one;
  what the end of a former window or the logins past a former lock add; one per
  login at a time; one per lost connection. The fixed window lets the second half
  through, not the lock. A right password starts the count again.
* Accounts: the log decides who gets e-mails through every registration, closing
  and return; staff edits and late e-mails do not bring a closed account back.
  Neither the directory nor the expanded list shows it. The talent pool's own
  list does, with its entries: `PoolListing` asks about entries, not profiles.
* CVs: uploads one after the other keep the quota, racing ones exceed it by no
  more than their number; an answer is never of a CV that was rolled back, though
  it may be of one replaced since. A withdrawn application is scored only by a
  task that read its row before the withdrawal committed.
* Access: after a bootstrap the program's own roles confer exactly their
  allowlists whatever was renamed, deleted or revoked before, the parameter types
  of `candidate` excepted; a notice is given to everyone a committed run found,
  and again only when a worker died between the commit and arq's result.
* Clients and catalogues: the in-use guards hold against every order of edits
  through the services, except where a PATCH or a sync goes round them.

## 4. The proofs

Each theorem is for every value of the constants that satisfies the `ASSUME` of
its module (types and disjointness; positive lifetimes). Bounds of the models
(`MaxEdits`, `MaxDecisions`, `MaxTries`, ...) are constants too, so the theorems
hold for any of them. A proof module states the inductive invariant, shows that
`Init` gives it and that each action keeps it (one lemma per group of handlers),
and derives the properties.

| Module | Theorems (and the property a run checks) | Inductive invariant, and why it is needed |
|---|---|---|
| `RecruitmentProofs` | `TypeCorrect` (`TypeOK`), `NoCardIsStranded` (`NoCardOnDeletedStage`), `HiresFollowTheirCards` (`HireFollowsTheCard`), `HiresOutliveVacancies` (`HireOutlivesVacancy`), `RejectionsAreToldOnce` (`RejectionIsToldOnce`), `EndsSettleEveryone` (`EndSettlesEveryone`), `CardsStayOnTheBoard` (`BoardKeepsItsCards`) | `TypeOK` with each invariant; a stage found by `FirstStage` is active by well-foundedness of the stage orders, and `DeleteStage` is refused while a card is on it |
| `BoardRacesProofs` | `RacesTypeCorrect` (`TypeOK`), `WithdrawalsStand` (`WithdrawnComesBackByApplying`), `SmallPatchesUndoNothing` (`UntouchedColumnsSurvive`), `RejectionsHaveReasons` (`RejectionHasReason`), `OneAtATimeIsTheBoard` (`SerialBoard`) | what a session wants differs from what it loaded only in what its request may write (`WantedFair`), and every draft is of the session that made it (`DraftsOwned`); whatever a session loaded, wants or leaves in a draft has a reason if it reads rejected, and no request takes a reason away (`ReasonInv`); with one session what it loaded are the committed rows, what it decided is what its request may write to them, and its drafts are exactly that (`SerialInv`), so that the commit is the request |
| `InterviewsProofs` | `InterviewsTypeCorrect` (`TypeOK`), `StandingInterviewsAreInSight` (`StandingIsInSight`), `SchedulingKeepsTheAgenda` (`KeepsTheAgenda`), `InterviewersAreInOnePlace` | what a session has accepted keeps a time once set and changes a status without one only to cancelled; with one session what it loaded is the committed row until it commits, and the window it wants is the one it had, or free |
| `AccountsProofs`, on `Accounts` | `ConsentFollowsTheUser` (`ConsentIsTheLastWord`), `ClosedAccountsAreGone` (`ClosedIsGone`), `ReturningBringsTheProfile` (`ComesBackWhole`), `PoolListsOnce` (`ListedOnce`) | what closing leaves behind (`ClosedLeaves`) until the account comes back, and that an address nobody registered has no mail |
| `AccountsProofs`, on `Sessions` | `EndedSessionsStayEnded` (`EndedStaysEnded`), `OneRefreshTokenPerLogin` (`OneTokenPerLogin`), `ResetLinksWorkOnce` (`LinksWorkOnce`), `GuessesStayFew` (`GuessesAreFew`) | a marker's age and what is left of it add up (`MarkerOutlives`), and an ended token is revoked and older than the marker (`EndedAreCovered`): the property alone forgets why the marker will still be there in the next second. For the guesses (`ThrottleInv`): a failure counted beyond the threshold is about to set the lock, has set it, or has cost a connection, and what the running window did not count is older than it (`CounterIsPaid`); under a lock everything but the logins past its check is older than the lock (`LockStopsGuesses`); and the guesses are what a former window or lock left over plus what this one adds (`GuessesAreShared`). The property alone does not know that the guesses of the former window age while those of the new one are counted |
| `AvailableSlotsProofs` | `SlotsTypeCorrect` (`TypeOK`), `OffersLoseSeconds` (`OffersLoseOnlySeconds`), `FreePlacesAreOffered` (`FreeTimesAreOffered`), `AgendasAreTwoDays` (`AgendaIsTwoDays`) | types, and bookings that end after they begin (`Lasting`). The rest is arithmetic with symbolic lengths: a quotient is known by the multiples around it (`QuotientBelow`), so a date by its midnights (`DateBelow`, `DateIs`) and a minute by its ticks (`MinuteBelow`); a place of a timetable is blocked by the cut of a booking exactly if they overlap (`BlockedIsOverlapped`, `OverlapIsBlocked`) |
| `NotificationsProofs`, on `Notifications` and `Access` | `RoleNamesAreUnique`, `DeletedRolesAreHeldByNobody` (`NobodyHoldsADeletedRole`), `BootstrapsRestore` (`BootstrapRestores`), `FoundUsersAreTold` (`FoundAreTold`) | names of active roles are unique through every bootstrap (else it could place a name twice); every code of the program has its row at the moment its grants are restored (`RestoreInv`); the rows of a running task are those of whom it found (`RunIsWhole`), and a user has as many notices as runs have committed, one per death and that of the present run (`InboxIsOwed`) |
| `NotificationsProofs`, on `CvPipeline` | `CvTypeCorrect`, `RowsKeepTheirObjects`, `AnswersComeFromLinkedCvs` (`AnswersAreOfLinkedCvs`), `WithdrawnScoresStay` (`WithdrawnKeepsItsScore`), `QuotasHold` (`QuotaHolds`) | an upload past the object store has its object; every CV a running task carries was linked; the active CVs and the open uploads together stay within the quota and one upload per racing request (`QuotaInv`) |
| `ClientsProofs` | `ClientsTypeCorrect`, `ContactsKeepTheirCompany` (`LocalClientsKeepTheirContacts`) | types, and the property itself: it is inductive |
| `CataloguesProofs` | `CataloguesTypeCorrect`, `WhatIsInUseIsThere` (`InUseIsNotDeleted`), `CopiesShareNothing` (`TemplatesKeepTheirItems`) | rows that were ever created point at something, and one conjunct per column that points at a catalogue; a step works on one template (`StepsAreOfOneTemplate`) |

Some theorems have a hypothesis about the bodies that clients send, and it is not a
convenience: with such a body the property fails, as section 6 says. The models
contain all of these steps.

* `HiresFollowTheirCards`: `MovesWriteNoHire`, no PATCH sends a column and
  `status_id = hired` together. `EndsSettleEveryone`: `NoDeactivation`, no PATCH
  sets a vacancy's `is_active` to false.
* `RejectionsHaveReasons`: `ReasonsAreKept`, no PATCH sets `status_id = rejected`
  by itself or clears the reason.
* `StandingInterviewsAreInSight`, `SchedulingKeepsTheAgenda`,
  `InterviewersAreInOnePlace`: `StaffOnlyCancel`, the only status staff set by
  hand is cancelled; the first also `TimesStaySet`, no body clears a time.

The two refinements are about requests that run one after the other (`OneAtATime`,
a single session): with two of them neither holds.

Assumed of the constants, beyond types: the lock lasts at least as long as the
window of the failures (both are a quarter of an hour, `login_throttle.py`).

Only model-checked: all liveness (`EveryRequestEnds`, `RejectedIsEventuallyTold`,
`MeetingIsSent`, `TasksEnd`, `MirrorCatchesUp`: the prover has no rule for fairness
here), and `StoredLinkStays`. A total in `QuotaHolds` is the number of bytes of the
files, to which the theorems about finite sets apply, so that no proof needs an
induction over data.

## 5. What could come next

1. `Access` query by query: the two replacements of a role in section 6.
2. A restart of the throttle's in-memory adapter.
3. The answer of a login in two steps, as a refresh has them: a deactivation in
   between.
4. Deletions of companies, roles and parameters that race with what begins to use
   them.

## 6. Disagreements between the code and what it says

Reachable in the models, or met while reading. No property is stated that they
would break: where one comes close, it names the case as its exception.

Board and vacancies:

* Reject, withdraw, apply again: the row is active with the reason of its former
  rejection (`A:155` against the comment at `A:160`). A card moved back after a
  rejection keeps its old reason too, so the next rejection by hand needs none
  (`A:277`).
* A middle stage marked final-positive turns the cards on it into covered
  openings; the vacancy closes and the same request rejects them (`V:223` against
  `V:41`).
* Racing: a hire committed between the auto-reject's query and its UPDATE is
  overwritten (`A:376` against `A:350`), and so is a rejection by hand; an
  application posted while its vacancy ends dangles (`A:121` against `A:348`); a
  second recruiter decides from the status they loaded and leaves a hired
  candidate on a middle column, or, when the UPDATE finds the column already as
  it wants it and writes only the outcome, a hired or active card in the rejected
  column (`A:286`, `A:298`); a card moves into a stage while it is
  deleted (`PS:135`); the notice runs before the commit and goes out without its
  reason (`AR:348`).
* A PATCH that sets `process_id` to null lets active applications in with no
  column; the board shows them nowhere but as rejected (`PR:141`, `A:198`), where
  a create on such a vacancy puts them too; a published vacancy may be left so. A PATCH to another process strands the cards
  on the old columns (`V:192`).
* Rejecting by `status_id` alone is told to nobody (`AR:340`); a sub-status can
  be set on a hired or rejected row (`A:271`); `status_id = hired` by itself
  leaves the column where it was, and an application staff create as hired stands
  on the first column (`A:213`), as `tests/test_applications.py:435-452` asserts,
  until somebody moves it. `HireFollowsTheCard` excepts both.
* `is_active = false` in a PATCH goes round the guards of DELETE, for vacancies
  (`VS:34`) and for processes (`P:200`).

Interviews and slots:

* Two answers to one offer, or an answer and a cancellation, both pass the check
  on the status they read (`I:282` against `I:275`); two racing bookings overlap.
* The task that tells the interviewer ends in a NameError, and the fallback
  relies on it (`IR:289` against `I:392`).
* A cancelled interview set back to scheduled is not checked again (`I:121`); a
  half-set window is on the agenda but takes no time (`I:122`); a PATCH of the
  status without a time leaves an interview on neither of the candidate's lists;
  two conflicts at once raise instead of answering 409 (`I:477`); the meeting
  task may run before the booking commits and is not tried again (`IR:727`); a
  meeting under way over local midnight is not on the agenda.
* A meeting the provider has created may reach nobody: the job returns without an
  invitation when the commit of the link fails; a mail that
  `EmailDispatchService.send` answers False to is not tried again; and a worker
  that dies once the link is stored starts the job over, which finds a link and
  returns (`IR:80`, `IR:118-128`). Nothing tries any of them again.
* The seconds of a booking are dropped, though the body takes any instant
  (`interviews_schemas.py:27`), so one that ends within a minute frees all of it and
  the slot on offer there is refused as a double booking (`SG:58`); two windows of a day that overlap give a slot the duration
  of whichever comes first (`IR:399`); a day that is over still offers its slots,
  only today's are filtered (`SG:179`).

Accounts and sessions:

* The revocation of all tokens on a replay is rolled back by the 401 that follows
  it (`auth_service.py:241`); the marker in Redis stays. It covers access tokens;
  the rotated refresh token's successor is not revoked.
* Two refreshes that overlap read the same valid row, with no lock, and both
  succeed (`auth_service.py:231`, `:250`): one sign-in becomes two.
* A refresh that read its token before a logout, a change or reset of the password
  or a deactivation committed issues its new pair all the same; if its second is
  later than the marker's, both tokens of the pair work.
* Logins that race pass the lock check together (`auth_service.py:198`, `:207`), so
  each of them has its wrong password. One that has set the lock deletes the
  counter afterwards, also a new one, if a right password lifted the lock meanwhile.
* A user whose profile was deleted passes the check of POST `/candidates`, which
  sees active rows, and fails on the unique column. Closing the account then
  finds no profile and leaves its applications active (`auth_routes.py:458`).
  Closed candidates stay in the talent pool.
* A verification link that is still live reactivates an account that was verified
  with it and closed since, without registering again.
* The duplicate check of the talent pool is a look-up with no constraint behind it.
* An applicant of the highest age allowed is refused the day after the birthday
  (`is_within_max_age`).

Files and analysis:

* POST `/files`, which registers the metadata of an object, requires a row of
  the caller's with that `stored_key`, and the column is unique: it always fails.
* The quota is counted before the upload is stored; racing uploads both pass. A
  candidate told to delete a file first has no permission to. A file is deleted
  without asking who uses it; an object whose row was rolled back stays.
* `worker.py:4-5` and `:30-31` say that transient failures are tried again; the
  tasks swallow every exception, so only a dead worker's task is. The fallback
  chain of models breaks off where its comment says it goes to the next
  (`analysis_service.py`). A score of zero is shown as "analysing" for ever
  (`vacancies_routes.py:610`).
* Two analyses of one application may end in the other order, and an analysis
  enqueued before the commit may read the old CV.
* A withdrawal that commits after a task has read the row again, and before its
  UPDATE, leaves a withdrawn application with a new score
  (`analysis_service.py:309-312`, and `:291-294`): no lock, and the UPDATE does not
  look at `is_active`.

Roles and notifications:

* `replace_role` says "atomically ... never zero or multiple roles"
  (`user_roles_service.py:74`); two at once leave two, or none.
* `SYSTEM_ROLE_NAMES` leaves out "Marketing", which the bootstrap also manages.
  Creating a permission or a parameter again after deleting it meets the unique
  constraint. `ensure_admin_user` leaves a deactivated administrator deactivated.
  Two roles of one name created at once make the bootstrap's look-up fail.
* A parameter type granted to `candidate` (`role_parameter_types_routes.py:39`)
  survives every bootstrap, which rules the permissions of that role only
  (`bootstrap_service.py:446`; the others at `:485`).
* The notice may run before the vacancy commits and tell nobody; the log of the
  e-mails is lost when the session rolls back although they went out; a dead
  worker sends them again. One that dies after the commit and before arq's result
  (`vacancies_routes.py:122`) gives every notice a second time: nothing asks
  whether it was given.

Clients and catalogues:

* A sync deactivates a client whatever depends on it, and undoes a deletion by
  hand; a client TMR no longer lists stays. The throttle is armed before the
  commit. Two listings may write their answers in the other order, which the next
  sync corrects.
* PATCH of `is_active` or `type` goes round the in-use guards of parameters
  (`parameters_service.py:95`), processes, departments and templates; a row
  switched on again may point at a deleted one; nothing relates a vacancy's
  contact to its company.
* The copy of a template does not look at the categories; active items of a
  deleted template keep their categories from being deleted.
* Two menu items made each other's parents vanish from the tree
  (`menu_items_service.py:111` refuses only an item as its own parent); any
  parameter passes as a portal.

## 7. Not modelled

* **Rate limits per address**: decorators of a library; the repository states
  numbers only.
* **Document generation and text extraction** (posters, Word files, prefill,
  promotional images), **e-mail templates**, **migrations**: layout and data.
* **Application documents and notes, CV parse job rows**: rows nothing else reads.
* **The in-memory throttle**, for development: its `record_failure` is the one of
  Redis with no command lost, in a process that forgets everything at a restart.
* **Validation of file contents**, download links, kinds of files other than CVs,
  the prompts, and the chain of models and reading passes, which are one external
  answer.
* In the modelled parts: descriptive fields, skills, renaming and re-ordering of
  stages and duplicate checks of names, other listings and pagination, and the tree
  the menu is drawn as. The failure path of the rejection job itself (`AR:160`,
  `AR:227`) is left out: it logs and stops.

## 8. Running

    tlc -config rec_board.cfg MCRecruitment.tla
    tlc -config races_rows.cfg MCBoardRaces.tla        # also races_told, races_serial
    tlc -config interviews_agenda.cfg MCInterviews.tla
    tlc -config slots.cfg MCAvailableSlots.tla
    tlc -config sessions.cfg MCSessions.tla
    tlc -config accounts.cfg MCAccounts.tla
    tlc -config cv.cfg MCCvPipeline.tla
    tlc -config access.cfg MCAccess.tla
    tlc -config clients.cfg MCClients.tla
    tlc -config catalogues.cfg MCCatalogues.tla
    tlapm RecruitmentProofs.tla                        # and each other *Proofs.tla

The longest runs are `sessions`, `access`, `interviews_agenda`, `slots` and `cv`:
between 250 thousand and a million states, one to three minutes each on two
workers.
`mutants` in `PROJECT.json` names, for every property, a change of the model (an
operator next to the one it replaces) under which the run reports it violated.
