-------------------------- MODULE InterviewsProofs --------------------------
(***************************************************************************)
(* Interviews, for any staff, clock, requests and sessions: types, what    *)
(* the candidate and staff are shown, and, one request at a time, that     *)
(* scheduling is the abstract agenda, on which nobody is double booked.    *)
(***************************************************************************)
EXTENDS Interviews, TLAPS

-----------------------------------------------------------------------------
(* Rows and what an UPDATE makes of them *)

Columns ==
    {"row", "application", "interviewer", "creator", "from", "to", "status", "offered",
     "expires", "link"}

\* The merged row, column by column.
LEMMA MergedColumn ==
    ASSUME NEW loaded \in Interview, NEW wanted \in Interview, NEW current \in Interview,
           NEW f \in Columns
    PROVE  Merge(loaded, wanted, current)[f] =
              IF wanted[f] # loaded[f] THEN wanted[f] ELSE current[f]
BY DEF Merge, Interview, Columns

\* A record with the columns of the table, each of its type, is a row of it.
LEMMA RowOfColumns ==
    ASSUME NEW m,
           m = [row |-> m.row, application |-> m.application, interviewer |-> m.interviewer,
           creator |-> m.creator, from |-> m.from, to |-> m.to, status |-> m.status,
           offered |-> m.offered, expires |-> m.expires, link |-> m.link],
           /\ m.row \in RowState /\ m.application \in Applications \cup {NULL}
           /\ m.interviewer \in Staff \cup {NULL} /\ m.creator \in Staff \cup {NULL}
           /\ m.from \in Time \cup {NULL} /\ m.to \in Time \cup {NULL}
           /\ m.status \in InterviewStatus /\ m.offered \in SUBSET Window
           /\ m.expires \in Nat \cup {NULL} /\ m.link \in {"none", "given", "meeting"}
    PROVE  m \in Interview
BY DEF Interview

\* It is a row of the table again.
LEMMA MergeType ==
    ASSUME NEW loaded \in Interview, NEW wanted \in Interview, NEW current \in Interview
    PROVE  Merge(loaded, wanted, current) \in Interview
<1>. DEFINE m == Merge(loaded, wanted, current)
<1>1. DOMAIN current = Columns
  BY DEF Interview, Columns
<1>2. m = [row |-> m.row, application |-> m.application, interviewer |-> m.interviewer,
           creator |-> m.creator, from |-> m.from, to |-> m.to, status |-> m.status,
           offered |-> m.offered, expires |-> m.expires, link |-> m.link]
  BY <1>1 DEF Merge, Columns
<1>3. /\ m.row \in RowState /\ m.application \in Applications \cup {NULL}
      /\ m.interviewer \in Staff \cup {NULL} /\ m.creator \in Staff \cup {NULL}
      /\ m.from \in Time \cup {NULL} /\ m.to \in Time \cup {NULL}
      /\ m.status \in InterviewStatus /\ m.offered \in SUBSET Window
      /\ m.expires \in Nat \cup {NULL} /\ m.link \in {"none", "given", "meeting"}
  <2>1. m.row \in RowState  BY MergedColumn DEF Interview, Columns
  <2>2. m.application \in Applications \cup {NULL}  BY MergedColumn DEF Interview, Columns
  <2>3. m.interviewer \in Staff \cup {NULL}  BY MergedColumn DEF Interview, Columns
  <2>4. m.creator \in Staff \cup {NULL}  BY MergedColumn DEF Interview, Columns
  <2>5. m.from \in Time \cup {NULL}  BY MergedColumn DEF Interview, Columns
  <2>6. m.to \in Time \cup {NULL}  BY MergedColumn DEF Interview, Columns
  <2>7. m.status \in InterviewStatus  BY MergedColumn DEF Interview, Columns
  <2>8. m.offered \in SUBSET Window  BY MergedColumn DEF Interview, Columns
  <2>9. m.expires \in Nat \cup {NULL}  BY MergedColumn DEF Interview, Columns
  <2>10. m.link \in {"none", "given", "meeting"}  BY MergedColumn DEF Interview, Columns
  <2>. QED BY <2>1, <2>2, <2>3, <2>4, <2>5, <2>6, <2>7, <2>8, <2>9, <2>10
<1>. HIDE DEF m
<1>4. m \in Interview
  BY <1>2, <1>3, RowOfColumns
<1>. QED BY <1>4 DEF m

LEMMA NoRow == NoInterview \in Interview /\ NoInterview.row = "absent"
BY DEF NoInterview, Interview, RowState, InterviewStatus

\* What each kind of request carries.
LEMMA RequestTypes ==
    ASSUME NEW q \in Requests
    PROVE  /\ q.op \in {"book", "invite", "change", "confirm", "delete"}
           /\ q.op \in {"book", "invite"} =>
                 /\ q.application \in Applications /\ q.interviewer \in Staff
                 /\ q.actor \in Staff
           /\ q.op = "book" => /\ q.window \in Window /\ q.status \in InterviewStatus
                               /\ q.link \in {"none", "given"}
           /\ q.op = "invite" => q.offered \in SUBSET Window
           /\ q.op \in {"change", "confirm", "delete"} => q.id \in Ids
           /\ q.op = "change" => q.body \in ChangeBody
           /\ q.op = "confirm" => q.window \in Window
<1>1. q \in Request
  BY InterviewAssumption
<1>. QED BY <1>1 DEF Request

LEMMA IdleType == Idle \in Session /\ Idle.pc = "idle"
<1>1. NoInterview \in Interview
  BY NoRow
<1>2. 0 \in 0..MaxRequests
  BY InterviewAssumption
<1>. QED BY <1>1, <1>2 DEF Idle, Session

-----------------------------------------------------------------------------
(* Types *)

\* A row that was inserted names its interviewer and its creator.
Named(row) == row.row # "absent" => row.interviewer \in Staff /\ row.creator \in Staff

\* What a session that is under way will leave in its row: an inserted one.
Whole(s, rows) ==
    s.pc # "idle" =>
        /\ s.request \in Requests /\ s.number \in 1..MaxRequests /\ s.id \in Ids
        /\ s.wanted.row # "absent" /\ Named(s.wanted)
        /\ s.loaded = NoInterview \/ rows[s.id].row # "absent"

InterviewsInv ==
    /\ TypeOK
    /\ \A i \in Ids : Named(interviews[i])
    /\ \A r \in Slots : Whole(session[r], interviews)

\* What a handler that accepts its request hands to its session.
Accepted(r, q, id, loaded, wanted) ==
    /\ Begin(r, q, id, loaded, wanted)
    /\ q \in Requests /\ id \in Ids /\ loaded \in Interview /\ wanted \in Interview
    /\ wanted.row # "absent" /\ Named(wanted)
    /\ \/ lastId' = lastId /\ loaded = interviews[id] /\ loaded.row = "active"
       \/ lastId < id /\ lastId' = id /\ loaded = NoInterview

LEMMA NewIsAccepted ==
    ASSUME InterviewsInv, NEW r \in Slots, NEW q \in Requests, NEW wanted \in Interview,
           AcceptNew(r, q, wanted), wanted.row = "active", Named(wanted)
    PROVE  Accepted(r, q, lastId + 1, NoInterview, wanted)
<1>1. lastId \in Nat /\ lastId + 1 \in Ids /\ lastId < lastId + 1
  BY InterviewAssumption DEF AcceptNew, InterviewsInv, TypeOK, Ids
<1>. QED BY <1>1, NoRow DEF AcceptNew, Accepted

LEMMA OldIsAccepted ==
    ASSUME InterviewsInv, NEW r \in Slots, NEW q \in Requests, NEW wanted \in Interview,
           q.id \in Ids, Accept(r, q, wanted), IsActive(interviews[q.id]),
           wanted.row # "absent", Named(wanted)
    PROVE  Accepted(r, q, q.id, interviews[q.id], wanted)
BY DEF Accept, Accepted, InterviewsInv, TypeOK, IsActive

\* The row each request wants.
BookedRow(q) ==
    [NoInterview EXCEPT !.row = "active", !.application = q.application,
        !.interviewer = q.interviewer, !.creator = q.actor, !.from = q.window.from,
        !.to = q.window.to, !.status = q.status, !.link = q.link]

InvitedRow(q) ==
    [NoInterview EXCEPT !.row = "active", !.application = q.application,
        !.interviewer = q.interviewer, !.creator = q.actor,
        !.status = "offered", !.offered = q.offered, !.expires = now + OfferLife]

ConfirmedRow(q) ==
    [interviews[q.id] EXCEPT !.from = q.window.from, !.to = q.window.to, !.status = "confirmed"]

LEMMA BookedType ==
    ASSUME NEW q \in Requests, q.op = "book"
    PROVE  /\ BookedRow(q) \in Interview /\ Named(BookedRow(q))
           /\ BookedRow(q).row = "active" /\ BookedRow(q).interviewer = q.interviewer
           /\ BookedRow(q).from = q.window.from /\ BookedRow(q).to = q.window.to
<1>1. /\ q.application \in Applications /\ q.interviewer \in Staff /\ q.actor \in Staff
      /\ q.window.from \in Time /\ q.window.to \in Time /\ q.status \in InterviewStatus
      /\ q.link \in {"none", "given"}
  BY RequestTypes DEF Window
<1>2. "active" \in RowState /\ {} \in SUBSET Window /\ "offered" \in InterviewStatus
  BY DEF RowState, InterviewStatus
<1>. DEFINE m == BookedRow(q)
<1>3. m = [row |-> m.row, application |-> m.application, interviewer |-> m.interviewer,
           creator |-> m.creator, from |-> m.from, to |-> m.to, status |-> m.status,
           offered |-> m.offered, expires |-> m.expires, link |-> m.link]
  <2>1. DOMAIN NoInterview = Columns
    BY DEF NoInterview, Columns
  <2>2. DOMAIN m = Columns /\ m = [f \in Columns |-> m[f]]
    BY <2>1 DEF BookedRow
  <2>. HIDE DEF m
  <2>. QED BY <2>2 DEF Columns
<1>4. /\ m.row = "active" /\ m.application = q.application /\ m.interviewer = q.interviewer
      /\ m.creator = q.actor /\ m.from = q.window.from
  BY DEF BookedRow, NoInterview
<1>5. /\ m.to = q.window.to /\ m.status = q.status /\ m.offered = {}
      /\ m.expires = NULL /\ m.link = q.link
  BY DEF BookedRow, NoInterview
<1>. HIDE DEF m
<1>6. m \in Interview
  BY <1>1, <1>2, <1>3, <1>4, <1>5, RowOfColumns
<1>7. Named(m)
  BY <1>1, <1>4 DEF Named
<1>. QED BY <1>4, <1>5, <1>6, <1>7 DEF m

LEMMA InvitedType ==
    ASSUME NEW q \in Requests, q.op = "invite", now \in Nat
    PROVE  /\ InvitedRow(q) \in Interview /\ Named(InvitedRow(q))
           /\ InvitedRow(q).row = "active" /\ InvitedRow(q).from = NULL
           /\ InvitedRow(q).status = "offered"
<1>1. /\ q.application \in Applications /\ q.interviewer \in Staff /\ q.actor \in Staff
      /\ q.offered \in SUBSET Window /\ now + OfferLife \in Nat
  BY RequestTypes, InterviewAssumption
<1>2. "active" \in RowState /\ {} \in SUBSET Window /\ "offered" \in InterviewStatus
  BY DEF RowState, InterviewStatus
<1>. DEFINE m == InvitedRow(q)
<1>3. m = [row |-> m.row, application |-> m.application, interviewer |-> m.interviewer,
           creator |-> m.creator, from |-> m.from, to |-> m.to, status |-> m.status,
           offered |-> m.offered, expires |-> m.expires, link |-> m.link]
  <2>1. DOMAIN NoInterview = Columns
    BY DEF NoInterview, Columns
  <2>2. DOMAIN m = Columns /\ m = [f \in Columns |-> m[f]]
    BY <2>1 DEF InvitedRow
  <2>. HIDE DEF m
  <2>. QED BY <2>2 DEF Columns
<1>4. /\ m.row = "active" /\ m.application = q.application /\ m.interviewer = q.interviewer
      /\ m.creator = q.actor /\ m.from = NULL
  BY DEF InvitedRow, NoInterview
<1>5. /\ m.to = NULL /\ m.status = "offered" /\ m.offered = q.offered
      /\ m.expires = now + OfferLife /\ m.link = "none"
  BY DEF InvitedRow, NoInterview
<1>. HIDE DEF m
<1>6. m \in Interview
  BY <1>1, <1>2, <1>3, <1>4, <1>5, RowOfColumns
<1>7. Named(m)
  BY <1>1, <1>4 DEF Named
<1>. QED BY <1>4, <1>5, <1>6, <1>7 DEF m

LEMMA PatchedType ==
    ASSUME NEW row \in Interview, NEW b \in ChangeBody
    PROVE  /\ Patched(row, b) \in Interview
           /\ Patched(row, b).row = row.row /\ Patched(row, b).creator = row.creator
           /\ Patched(row, b).interviewer = OrKeep(b.interviewer, row.interviewer)
           /\ Patched(row, b).from = OrKeep(b.from, row.from)
           /\ Patched(row, b).to = OrKeep(b.to, row.to)
           /\ Patched(row, b).status = OrKeep(b.status, row.status)
<1>1. /\ b.interviewer \in Staff \cup {Unset} /\ b.from \in Time \cup {NULL, Unset}
      /\ b.to \in Time \cup {NULL, Unset} /\ b.status \in InterviewStatus \cup {Unset}
      /\ b.offered \in {Unset} \cup SUBSET Window /\ b.link \in {"none", "given", Unset}
  BY DEF ChangeBody
<1>2. /\ OrKeep(b.interviewer, row.interviewer) \in Staff \cup {NULL}
      /\ OrKeep(b.from, row.from) \in Time \cup {NULL}
      /\ OrKeep(b.to, row.to) \in Time \cup {NULL}
      /\ OrKeep(b.status, row.status) \in InterviewStatus
      /\ OrKeep(b.offered, row.offered) \in SUBSET Window
      /\ OrKeep(b.link, row.link) \in {"none", "given", "meeting"}
  <2>1. OrKeep(b.interviewer, row.interviewer) \in Staff \cup {NULL}
    BY <1>1 DEF OrKeep, Interview
  <2>2. OrKeep(b.from, row.from) \in Time \cup {NULL}
    BY <1>1 DEF OrKeep, Interview
  <2>3. OrKeep(b.to, row.to) \in Time \cup {NULL}
    BY <1>1 DEF OrKeep, Interview
  <2>4. OrKeep(b.status, row.status) \in InterviewStatus
    BY <1>1 DEF OrKeep, Interview
  <2>5. OrKeep(b.offered, row.offered) \in SUBSET Window
    BY <1>1 DEF OrKeep, Interview
  <2>6. OrKeep(b.link, row.link) \in {"none", "given", "meeting"}
    BY <1>1 DEF OrKeep, Interview
  <2>. QED BY <2>1, <2>2, <2>3, <2>4, <2>5, <2>6
<1>3. Patched(row, b) =
         [row |-> row.row, application |-> row.application,
          interviewer |-> OrKeep(b.interviewer, row.interviewer), creator |-> row.creator,
          from |-> OrKeep(b.from, row.from), to |-> OrKeep(b.to, row.to),
          status |-> OrKeep(b.status, row.status), offered |-> OrKeep(b.offered, row.offered),
          expires |-> row.expires, link |-> OrKeep(b.link, row.link)]
  <2>. DEFINE p == Patched(row, b)
  <2>1. p = [row |-> p.row, application |-> p.application, interviewer |-> p.interviewer,
             creator |-> p.creator, from |-> p.from, to |-> p.to, status |-> p.status,
             offered |-> p.offered, expires |-> p.expires, link |-> p.link]
    <3>1. DOMAIN row = Columns
      BY DEF Interview, Columns
    <3>2. DOMAIN p = Columns /\ p = [f \in Columns |-> p[f]]
      BY <3>1 DEF Patched
    <3>. HIDE DEF p
    <3>. QED BY <3>2 DEF Columns
  <2>2. p.row = row.row /\ p.application = row.application /\ p.creator = row.creator
    BY DEF Patched, Interview
  <2>3. p.expires = row.expires /\ p.link = OrKeep(b.link, row.link)
    BY DEF Patched, Interview
  <2>4. p.from = OrKeep(b.from, row.from) /\ p.to = OrKeep(b.to, row.to)
    BY DEF Patched, Interview
  <2>5. /\ p.interviewer = OrKeep(b.interviewer, row.interviewer)
        /\ p.status = OrKeep(b.status, row.status)
        /\ p.offered = OrKeep(b.offered, row.offered)
    BY DEF Patched, Interview
  <2>. HIDE DEF p
  <2>6. p = [row |-> row.row, application |-> row.application,
             interviewer |-> OrKeep(b.interviewer, row.interviewer), creator |-> row.creator,
             from |-> OrKeep(b.from, row.from), to |-> OrKeep(b.to, row.to),
             status |-> OrKeep(b.status, row.status), offered |-> OrKeep(b.offered, row.offered),
             expires |-> row.expires, link |-> OrKeep(b.link, row.link)]
    BY <2>1, <2>2, <2>3, <2>4, <2>5
  <2>. QED BY <2>6 DEF p
<1>4. /\ row.row \in RowState /\ row.application \in Applications \cup {NULL}
      /\ row.creator \in Staff \cup {NULL} /\ row.expires \in Nat \cup {NULL}
  BY DEF Interview
<1>. HIDE DEF OrKeep
<1>5. Patched(row, b) \in Interview
  BY <1>2, <1>3, <1>4 DEF Interview
<1>. QED BY <1>3, <1>5

LEMMA ConfirmedType ==
    ASSUME NEW q \in Requests, q.op = "confirm", interviews[q.id] \in Interview
    PROVE  /\ ConfirmedRow(q) \in Interview
           /\ ConfirmedRow(q).row = interviews[q.id].row
           /\ ConfirmedRow(q).creator = interviews[q.id].creator
           /\ ConfirmedRow(q).interviewer = interviews[q.id].interviewer
           /\ ConfirmedRow(q).from = q.window.from /\ ConfirmedRow(q).to = q.window.to
<1>1. q.window.from \in Time /\ q.window.to \in Time
  BY RequestTypes DEF Window
<1>. DEFINE row == interviews[q.id]
<1>2. ConfirmedRow(q) = [row EXCEPT !.from = q.window.from, !.to = q.window.to, !.status = "confirmed"]
  BY DEF ConfirmedRow
<1>3. row \in Interview
  OBVIOUS
<1>. HIDE DEF row
<1>4. /\ ConfirmedRow(q) \in Interview
      /\ ConfirmedRow(q).row = row.row /\ ConfirmedRow(q).creator = row.creator
      /\ ConfirmedRow(q).interviewer = row.interviewer
      /\ ConfirmedRow(q).from = q.window.from /\ ConfirmedRow(q).to = q.window.to
  BY <1>1, <1>2, <1>3 DEF Interview, InterviewStatus
<1>. QED BY <1>4 DEF row

-----------------------------------------------------------------------------
(* What the handlers check *)

\* Staff cancel an interview, and set no other status by hand.
StaffOnlyCancel ==
    \A q \in Requests : q.op = "change" => q.body.status \in {Unset, "cancelled"}

\* They set a time, and do not clear it.
TimesStaySet == \A q \in Requests : q.op = "change" => q.body.from # NULL

\* What wanted takes of somebody's time is what it took before, or was free.
SameTime(loaded, wanted) ==
    /\ TakesTime(loaded)
    /\ wanted.interviewer = loaded.interviewer
    /\ wanted.from = loaded.from /\ wanted.to = loaded.to

Checked(id, loaded, wanted) ==
    TakesTime(wanted) =>
        /\ wanted.from < wanted.to
        /\ \/ SameTime(loaded, wanted)
           \/ Conflicts(wanted.interviewer, wanted.from, wanted.to, id) = {}

\* A time is not cleared, and without one only a cancellation changes the status.
KeepsInSight(loaded, wanted) ==
    /\ wanted.from = NULL => loaded.from = NULL
    /\ wanted.from = loaded.from => wanted.status \in {loaded.status, "cancelled"}

\* What a handler has made sure of when it has accepted its request.
Decides(id, loaded, wanted) ==
    /\ StaffOnlyCancel => Checked(id, loaded, wanted)
    /\ StaffOnlyCancel /\ TimesStaySet => KeepsInSight(loaded, wanted)

LEMMA BookDecides ==
    ASSUME InterviewsInv, NEW r \in Slots, NEW q \in Requests, Book(r, q)
    PROVE  /\ Accepted(r, q, lastId + 1, NoInterview, BookedRow(q))
           /\ Decides(lastId + 1, NoInterview, BookedRow(q))
<1>. DEFINE wanted == BookedRow(q)
<1>1. /\ q.op = "book" /\ AcceptNew(r, q, wanted)
      /\ Conflicts(q.interviewer, q.window.from, q.window.to, 0) = {}
  BY DEF Book, BookedRow
<1>2. /\ wanted \in Interview /\ Named(wanted) /\ wanted.row = "active"
      /\ wanted.interviewer = q.interviewer
      /\ wanted.from = q.window.from /\ wanted.to = q.window.to
  BY <1>1, BookedType
<1>3. wanted.from \in Time /\ wanted.from # NULL /\ wanted.from < wanted.to
  BY <1>1, <1>2, RequestTypes, InterviewAssumption DEF Window, Time
<1>. HIDE DEF wanted
<1>4. Conflicts(wanted.interviewer, wanted.from, wanted.to, lastId + 1) = {}
  <2>1. 0 \notin Ids
    BY DEF Ids
  <2>. QED BY <1>1, <1>2, <2>1 DEF Conflicts
<1>5. KeepsInSight(NoInterview, wanted)
  BY <1>3 DEF KeepsInSight, NoInterview
<1>6. Accepted(r, q, lastId + 1, NoInterview, wanted)
  BY <1>1, <1>2, NewIsAccepted
<1>. QED BY <1>3, <1>4, <1>5, <1>6 DEF Decides, Checked, wanted

LEMMA InviteDecides ==
    ASSUME InterviewsInv, NEW r \in Slots, NEW q \in Requests, Invite(r, q)
    PROVE  /\ Accepted(r, q, lastId + 1, NoInterview, InvitedRow(q))
           /\ Decides(lastId + 1, NoInterview, InvitedRow(q))
<1>. DEFINE wanted == InvitedRow(q)
<1>1. q.op = "invite" /\ AcceptNew(r, q, wanted)
  BY DEF Invite, InvitedRow
<1>2. now \in Nat
  BY DEF InterviewsInv, TypeOK, Time
<1>3. /\ wanted \in Interview /\ Named(wanted) /\ wanted.row = "active"
      /\ wanted.from = NULL /\ wanted.status = "offered"
  BY <1>1, <1>2, InvitedType
<1>. HIDE DEF wanted
<1>4. Accepted(r, q, lastId + 1, NoInterview, wanted)
  BY <1>1, <1>3, NewIsAccepted
<1>5. Decides(lastId + 1, NoInterview, wanted)
  BY <1>3 DEF Decides, Checked, TakesTime, KeepsInSight, NoInterview
<1>. QED BY <1>4, <1>5 DEF wanted

LEMMA ChangeDecides ==
    ASSUME InterviewsInv, NEW r \in Slots, NEW q \in Requests, Change(r, q)
    PROVE  \E wanted \in Interview :
              /\ Accepted(r, q, q.id, interviews[q.id], wanted)
              /\ Decides(q.id, interviews[q.id], wanted)
<1>. DEFINE row == interviews[q.id]
            b == q.body
            wanted == Patched(row, b)
            moves == \E f \in {"interviewer", "from", "to"} : b[f] # Unset
<1>1. /\ q.op = "change" /\ IsActive(row) /\ Accept(r, q, wanted)
      /\ wanted.from # NULL /\ wanted.to # NULL =>
            /\ wanted.from < wanted.to
            /\ moves => Conflicts(wanted.interviewer, wanted.from, wanted.to, q.id) = {}
  BY DEF Change
<1>2. q.id \in Ids /\ b \in ChangeBody
  BY <1>1, RequestTypes
<1>3. row \in Interview /\ Named(row) /\ row.row = "active"
  BY <1>1, <1>2 DEF InterviewsInv, TypeOK, IsActive
<1>4. /\ wanted \in Interview
      /\ wanted.row = row.row /\ wanted.creator = row.creator
      /\ wanted.interviewer = OrKeep(b.interviewer, row.interviewer)
      /\ wanted.from = OrKeep(b.from, row.from)
      /\ wanted.to = OrKeep(b.to, row.to)
      /\ wanted.status = OrKeep(b.status, row.status)
  BY <1>2, <1>3, PatchedType
<1>5. ~moves => b.interviewer = Unset /\ b.from = Unset /\ b.to = Unset
  OBVIOUS
<1>6. b.interviewer \in Staff \cup {Unset}
  BY <1>2 DEF ChangeBody
<1>7. StaffOnlyCancel => b.status \in {Unset, "cancelled"}
  BY <1>1 DEF StaffOnlyCancel
<1>8. TimesStaySet => b.from # NULL
  BY <1>1 DEF TimesStaySet
<1>. HIDE DEF wanted, moves, row, b
<1>9. Named(wanted)
  BY <1>3, <1>4, <1>6 DEF Named, OrKeep
<1>10. Accepted(r, q, q.id, row, wanted)
  BY <1>1, <1>2, <1>3, <1>4, <1>9, OldIsAccepted DEF row
<1>11. StaffOnlyCancel => Checked(q.id, row, wanted)
  <2> SUFFICES ASSUME StaffOnlyCancel, TakesTime(wanted), ~moves
               PROVE  SameTime(row, wanted)
    BY <1>1 DEF Checked, TakesTime
  <2>1. /\ wanted.interviewer = row.interviewer /\ wanted.from = row.from /\ wanted.to = row.to
    BY <1>4, <1>5 DEF OrKeep
  <2>2. row.status # "cancelled"
    BY <1>4, <1>7 DEF OrKeep, TakesTime
  <2>. QED BY <1>3, <1>4, <2>1, <2>2 DEF SameTime, TakesTime, IsActive
<1>12. StaffOnlyCancel /\ TimesStaySet => KeepsInSight(row, wanted)
  BY <1>4, <1>7, <1>8 DEF KeepsInSight, OrKeep
<1>. QED BY <1>4, <1>10, <1>11, <1>12 DEF Decides, row

LEMMA ConfirmDecides ==
    ASSUME InterviewsInv, NEW r \in Slots, NEW q \in Requests, Confirm(r, q)
    PROVE  /\ Accepted(r, q, q.id, interviews[q.id], ConfirmedRow(q))
           /\ Decides(q.id, interviews[q.id], ConfirmedRow(q))
<1>. DEFINE row == interviews[q.id]
            wanted == ConfirmedRow(q)
<1>1. /\ q.op = "confirm" /\ IsActive(row) /\ row.from = NULL
      /\ Conflicts(row.interviewer, q.window.from, q.window.to, q.id) = {}
      /\ Accept(r, q, wanted)
  BY DEF Confirm, IsOffer, ConfirmedRow
<1>2. q.id \in Ids /\ q.window \in Window
  BY <1>1, RequestTypes
<1>3. row \in Interview /\ Named(row) /\ row.row = "active"
  BY <1>1, <1>2 DEF InterviewsInv, TypeOK, IsActive
<1>4. /\ wanted \in Interview
      /\ wanted.row = row.row /\ wanted.creator = row.creator
      /\ wanted.interviewer = row.interviewer
      /\ wanted.from = q.window.from /\ wanted.to = q.window.to
  BY <1>1, <1>3, ConfirmedType
<1>5. wanted.from # NULL /\ wanted.from < wanted.to
  BY <1>2, <1>4, InterviewAssumption DEF Window, Time
<1>. HIDE DEF wanted, row
<1>6. Named(wanted)
  BY <1>3, <1>4 DEF Named
<1>7. Accepted(r, q, q.id, row, wanted)
  BY <1>1, <1>2, <1>3, <1>4, <1>6, OldIsAccepted DEF row
<1>8. Checked(q.id, row, wanted)
  BY <1>1, <1>4, <1>5 DEF Checked
<1>9. KeepsInSight(row, wanted)
  BY <1>1, <1>5 DEF KeepsInSight
<1>. QED BY <1>7, <1>8, <1>9 DEF Decides, row, wanted

LEMMA DeleteDecides ==
    ASSUME InterviewsInv, NEW r \in Slots, NEW q \in Requests, Delete(r, q)
    PROVE  \E wanted \in Interview :
              /\ Accepted(r, q, q.id, interviews[q.id], wanted)
              /\ Decides(q.id, interviews[q.id], wanted)
<1>. DEFINE row == interviews[q.id]
            wanted == [row EXCEPT !.row = "inactive"]
<1>1. q.op = "delete" /\ IsActive(row) /\ Accept(r, q, wanted)
  BY DEF Delete
<1>2. q.id \in Ids
  BY <1>1, RequestTypes
<1>3. row \in Interview /\ Named(row) /\ row.row = "active"
  BY <1>1, <1>2 DEF InterviewsInv, TypeOK, IsActive
<1>. HIDE DEF row
<1>4. /\ wanted \in Interview /\ wanted.row = "inactive"
      /\ wanted.interviewer = row.interviewer /\ wanted.creator = row.creator
      /\ wanted.from = row.from /\ wanted.status = row.status
  BY <1>3 DEF Interview, RowState
<1>. HIDE DEF wanted
<1>5. Named(wanted)
  BY <1>3, <1>4 DEF Named
<1>6. Accepted(r, q, q.id, row, wanted)
  BY <1>1, <1>2, <1>3, <1>4, <1>5, OldIsAccepted DEF row
<1>7. Decides(q.id, row, wanted)
  BY <1>4 DEF Decides, Checked, TakesTime, IsActive, KeepsInSight
<1>. QED BY <1>4, <1>6, <1>7 DEF row

\* Every handler that goes on hands its session a row it has checked.
LEMMA ArriveDecides ==
    ASSUME InterviewsInv, NEW r \in Slots, Arrive(r)
    PROVE  \E q \in Requests, id \in Ids, loaded \in Interview, wanted \in Interview :
              Accepted(r, q, id, loaded, wanted) /\ Decides(id, loaded, wanted)
<1>1. PICK q \in Requests :
         Book(r, q) \/ Invite(r, q) \/ Change(r, q) \/ Confirm(r, q) \/ Delete(r, q)
  BY DEF Arrive
<1>2. CASE Book(r, q)
  BY <1>2, BookDecides DEF Accepted
<1>3. CASE Invite(r, q)
  BY <1>3, InviteDecides DEF Accepted
<1>4. CASE Change(r, q)
  BY <1>4, ChangeDecides DEF Accepted
<1>5. CASE Confirm(r, q)
  BY <1>5, ConfirmDecides DEF Accepted
<1>6. CASE Delete(r, q)
  BY <1>6, DeleteDecides DEF Accepted
<1>. QED BY <1>1, <1>2, <1>3, <1>4, <1>5, <1>6

-----------------------------------------------------------------------------
(* Types are kept *)

\* A session goes on, or another request takes its slot.
LEMMA SessionGoesOn ==
    ASSUME InterviewsInv, NEW r \in Slots, NEW t \in Session, Go(r, t), Whole(t, interviews)
    PROVE  /\ session' \in [Slots -> Session]
           /\ \A x \in Slots : Whole(session'[x], interviews)
BY DEF InterviewsInv, TypeOK, Go

\* Rows are never taken out of the table.
LEMMA RowsStay ==
    ASSUME NEW s, NEW rows, NEW new, Whole(s, rows),
           \A i \in Ids : rows[i].row # "absent" => new[i].row # "absent"
    PROVE  Whole(s, new)
BY DEF Whole

LEMMA AcceptedTyped ==
    ASSUME InterviewsInv, NEW r \in Slots, NEW q, NEW id, NEW loaded, NEW wanted,
           Accepted(r, q, id, loaded, wanted)
    PROVE  /\ InterviewsInv'
           /\ session'[r] = [pc |-> "checked", request |-> q, number |-> sent + 1, id |-> id,
                             loaded |-> loaded, wanted |-> wanted]
           /\ \A x \in Slots \ {r} : session'[x] = session[x]
           /\ UNCHANGED <<interviews, live, queue, mails, notices, now, excused>>
<1>. DEFINE t == [pc |-> "checked", request |-> q, number |-> sent + 1, id |-> id,
                  loaded |-> loaded, wanted |-> wanted]
<1>1. /\ Go(r, t) /\ sent < MaxRequests /\ sent' = sent + 1
      /\ UNCHANGED <<interviews, live, queue, mails, notices, now, excused>>
  BY DEF Accepted, Begin
<1>2. sent + 1 \in 1..MaxRequests /\ sent' \in 0..MaxRequests
  BY <1>1, InterviewAssumption DEF InterviewsInv, TypeOK
<1>3. t \in Session
  <2>1. sent + 1 \in 0..MaxRequests
    BY <1>2
  <2>. QED BY <2>1 DEF Session, Accepted
<1>4. Whole(t, interviews)
  BY <1>2 DEF Accepted, Whole
<1>5. lastId' \in 0..MaxId
  BY DEF Accepted, InterviewsInv, TypeOK, Ids
<1>6. session \in [Slots -> Session]
  BY DEF InterviewsInv, TypeOK
<1>. HIDE DEF t
<1>7. session' \in [Slots -> Session] /\ \A x \in Slots : Whole(session'[x], interviews)
  BY <1>1, <1>3, <1>4, SessionGoesOn
<1>8. InterviewsInv'
  BY <1>1, <1>2, <1>5, <1>7 DEF InterviewsInv, TypeOK, Named
<1>9. session'[r] = t /\ \A x \in Slots \ {r} : session'[x] = session[x]
  BY <1>1, <1>6 DEF Go
<1>. QED BY <1>1, <1>8, <1>9 DEF t

\* The row a session leaves is one of the table, inserted and with its people.
LEMMA WrittenRow ==
    ASSUME InterviewsInv, NEW r \in Slots, session[r].pc # "idle"
    PROVE  /\ Written(r) \in Interview
           /\ Written(r).row # "absent" /\ Named(Written(r))
<1>. DEFINE s == session[r]
            current == interviews[s.id]
            m == Merge(s.loaded, s.wanted, current)
<1>1. /\ s \in Session /\ s.id \in Ids /\ s.wanted.row # "absent" /\ Named(s.wanted)
      /\ s.loaded = NoInterview \/ current.row # "absent"
  BY DEF InterviewsInv, TypeOK, Whole
<1>2. /\ s.loaded \in Interview /\ s.wanted \in Interview /\ current \in Interview
      /\ Named(current)
  BY <1>1 DEF Session, InterviewsInv, TypeOK
<1>3. m \in Interview
  BY <1>2, MergeType
<1>4. /\ m.row = IF s.wanted.row # s.loaded.row THEN s.wanted.row ELSE current.row
      /\ m.interviewer = IF s.wanted.interviewer # s.loaded.interviewer
                         THEN s.wanted.interviewer ELSE current.interviewer
      /\ m.creator = IF s.wanted.creator # s.loaded.creator
                     THEN s.wanted.creator ELSE current.creator
  BY <1>2, MergedColumn DEF Columns
<1>5. Written(r) = m
  BY DEF Written
<1>6. NULL \notin Staff
  BY InterviewAssumption
<1>. HIDE DEF m, s, current
<1>7. m.row # "absent" /\ Named(m)
  <2>1. CASE s.loaded = NoInterview
    BY <1>1, <1>4, <1>6, <2>1 DEF NoInterview, Named
  <2>2. CASE current.row # "absent"
    BY <1>1, <1>2, <1>4, <2>2 DEF Named
  <2>. QED BY <1>1, <2>1, <2>2
<1>. QED BY <1>3, <1>5, <1>7

LEMMA FlushTyped ==
    ASSUME InterviewsInv, NEW r \in Slots, Flush(r)
    PROVE  InterviewsInv'
<1>. DEFINE s == session[r]
            t == [s EXCEPT !.pc = "flushed"]
<1>1. /\ s \in Session /\ s.pc = "checked" /\ Go(r, t)
      /\ queue' = queue \cup {JobFor(k, s.id, s.number) : k \in TasksOf(Op(r), Written(r))}
      /\ UNCHANGED <<interviews, live, mails, notices, now, lastId, sent, excused>>
  BY DEF Flush, At, InterviewsInv, TypeOK
<1>2. Whole(s, interviews)
  BY DEF InterviewsInv
<1>3. s.request \in Requests /\ s.number \in 1..MaxRequests /\ s.id \in Ids
  BY <1>1, <1>2 DEF Whole
<1>4. queue' \subseteq Job
  <2>1. TasksOf(Op(r), Written(r)) \subseteq Task
    BY <1>3, RequestTypes DEF TasksOf, Op, Task
  <2>2. \A k \in Task : JobFor(k, s.id, s.number) \in Job
    BY <1>3, InterviewAssumption DEF JobFor, Job
  <2>. QED BY <1>1, <2>1, <2>2 DEF InterviewsInv, TypeOK
<1>5. t \in Session /\ Whole(t, interviews)
  BY <1>1, <1>2 DEF Session, Whole
<1>. HIDE DEF t
<1>6. session' \in [Slots -> Session] /\ \A x \in Slots : Whole(session'[x], interviews)
  BY <1>1, <1>5, SessionGoesOn
<1>. QED BY <1>1, <1>4, <1>6 DEF InterviewsInv, TypeOK, Named

LEMMA CommitTyped ==
    ASSUME InterviewsInv, NEW r \in Slots, Commit(r)
    PROVE  InterviewsInv'
<1>. DEFINE s == session[r]
            w == Written(r)
            told == ToldOnCommit(Op(r), w)
<1>1. /\ s.pc = "flushed" /\ interviews' = [interviews EXCEPT ![s.id] = w]
      /\ notices' = notices \cup {[id |-> s.id, to |-> x] : x \in told}
      /\ Go(r, Idle) /\ UNCHANGED <<live, queue, mails, now, lastId, sent>>
  BY DEF Commit, At
<1>2. w \in Interview /\ w.row # "absent" /\ Named(w)
  BY <1>1, WrittenRow
<1>3. s.request \in Requests /\ s.id \in Ids
  BY <1>1 DEF InterviewsInv, Whole
<1>4. told \subseteq Staff \cup {"candidate"}
  BY <1>2, <1>3, RequestTypes DEF ToldOnCommit, Op, Named
<1>10. excused' \subseteq Ids
  <2>1. excused' = excused \/ excused' = excused \cup {s.id}
    BY DEF Commit
  <2>. QED BY <1>3, <2>1 DEF InterviewsInv, TypeOK
<1>. HIDE DEF w, told
<1>5. notices' \subseteq [id : Ids, to : Staff \cup {"candidate"}]
  BY <1>1, <1>3, <1>4 DEF InterviewsInv, TypeOK
<1>6. interviews \in [Ids -> Interview]
  BY DEF InterviewsInv, TypeOK
<1>7. /\ interviews' \in [Ids -> Interview]
      /\ \A i \in Ids : Named(interviews'[i])
      /\ \A i \in Ids : interviews[i].row # "absent" => interviews'[i].row # "absent"
  BY <1>1, <1>2, <1>3, <1>6 DEF InterviewsInv
<1>8. session' \in [Slots -> Session] /\ \A x \in Slots : Whole(session'[x], interviews)
  BY <1>1, IdleType, SessionGoesOn DEF Whole
<1>9. \A x \in Slots : Whole(session'[x], interviews')
  BY <1>7, <1>8, RowsStay
<1>. QED BY <1>1, <1>5, <1>7, <1>8, <1>9, <1>10 DEF InterviewsInv, TypeOK

LEMMA BreakTyped ==
    ASSUME InterviewsInv, NEW r \in Slots, Break(r)
    PROVE  InterviewsInv'
<1>1. Go(r, Idle) /\ UNCHANGED <<interviews, live, queue, mails, notices, now, lastId, sent, excused>>
  BY DEF Break
<1>2. session' \in [Slots -> Session] /\ \A x \in Slots : Whole(session'[x], interviews)
  BY <1>1, IdleType, SessionGoesOn DEF Whole
<1>. QED BY <1>1, <1>2 DEF InterviewsInv, TypeOK

\* What a job may do to an interview: give it a meeting's link.
Linked(row) == [row EXCEPT !.link = "meeting"]

LEMMA LinkedRow ==
    ASSUME NEW row \in Interview
    PROVE  /\ Linked(row) \in Interview
           /\ \A f \in Columns \ {"link"} : Linked(row)[f] = row[f]
BY DEF Linked, Interview, Columns

LEMMA JobsOnlyLink ==
    ASSUME InterviewsInv, NEW j \in queue, Worker(j)
    PROVE  /\ UNCHANGED <<live, session, notices, now, lastId, sent>>
           /\ \/ UNCHANGED interviews
              \/ interviews' = [interviews EXCEPT ![j.id] = Linked(interviews[j.id])]
<1>1. j.id \in Ids /\ interviews \in [Ids -> Interview]
  BY DEF InterviewsInv, TypeOK, Job
<1>2. CASE StoreLink(j)
  BY <1>1, <1>2 DEF StoreLink, Linked
<1>3. CASE ~StoreLink(j)
  BY <1>3 DEF Worker, RunJob, StartMeeting, CallProvider, SendInvitation, SendOffer,
              NotifyConfirmed, Mail, JobFails, WorkerDies
<1>. QED BY <1>2, <1>3

LEMMA JobTyped ==
    ASSUME InterviewsInv, NEW j \in queue, Worker(j)
    PROVE  InterviewsInv'
<1>1. /\ j \in Job /\ j.id \in Ids /\ queue \subseteq Job /\ interviews \in [Ids -> Interview]
      /\ \A i \in Ids : Named(interviews[i])
      /\ \A r \in Slots : Whole(session[r], interviews)
  BY DEF InterviewsInv, TypeOK, Job
<1>2. /\ UNCHANGED <<live, session, notices, now, lastId, sent>>
      /\ \/ UNCHANGED interviews
         \/ interviews' = [interviews EXCEPT ![j.id] = Linked(interviews[j.id])]
  BY JobsOnlyLink
<1>3. /\ interviews' \in [Ids -> Interview]
      /\ \A i \in Ids : Named(interviews'[i])
      /\ \A i \in Ids : interviews[i].row # "absent" => interviews'[i].row # "absent"
  <2>1. CASE UNCHANGED interviews
    BY <1>1, <2>1
  <2>2. CASE interviews' = [interviews EXCEPT ![j.id] = Linked(interviews[j.id])]
    <3>1. /\ Linked(interviews[j.id]) \in Interview
          /\ Linked(interviews[j.id]).row = interviews[j.id].row
          /\ Linked(interviews[j.id]).interviewer = interviews[j.id].interviewer
          /\ Linked(interviews[j.id]).creator = interviews[j.id].creator
      BY <1>1, LinkedRow DEF Columns
    <3>2. Named(Linked(interviews[j.id]))
      BY <1>1, <3>1 DEF Named
    <3>. QED BY <1>1, <2>2, <3>1, <3>2
  <2>. QED BY <1>2, <2>1, <2>2
<1>4. queue' \subseteq Job
  <2>1. j.by \in 1..MaxRequests /\ j.tries \in 0..(MaxTries - 1) /\ MaxTries \in Nat \ {0}
    BY <1>1, InterviewAssumption DEF Job
  <2>2. ASSUME NEW k \in Task PROVE [j EXCEPT !.task = k] \in Job
    BY <1>1 DEF Job
  <2>3. {"call_provider", "store_link", "invite", "create_teams_meeting"} \subseteq Task
    BY DEF Task, MeetingStep
  <2>4. CASE StartMeeting(j)
    <3>. DEFINE n == [j EXCEPT !.task = "call_provider",
                               !.timed = interviews[j.id].from # NULL /\ interviews[j.id].to # NULL]
    <3>1. n \in Job
      BY <1>1, <2>3, Zenon DEF Job
    <3>2. queue' \subseteq queue \cup {n}
      BY <2>4 DEF StartMeeting, Becomes
    <3>. QED BY <1>1, <3>1, <3>2
  <2>5. CASE CallProvider(j)
    BY <1>1, <2>2, <2>3, <2>5 DEF CallProvider, Becomes
  <2>6. CASE StoreLink(j)
    BY <1>1, <2>2, <2>3, <2>6 DEF StoreLink, Becomes
  <2>7. CASE SendInvitation(j) \/ SendOffer(j) \/ NotifyConfirmed(j) \/ JobFails(j)
    BY <1>1, <2>7 DEF SendInvitation, SendOffer, NotifyConfirmed, JobFails, Mail, Becomes
  <2>8. CASE WorkerDies(j)
    <3>1. queue' \subseteq queue \/ (j.tries + 1 < MaxTries /\ queue' \subseteq queue \cup {Restarted(j)})
      BY <2>8 DEF WorkerDies, Becomes
    <3>2. ASSUME j.tries + 1 < MaxTries PROVE Restarted(j) \in Job
      <4>1. j.tries + 1 \in 0..(MaxTries - 1)
        BY <2>1, <3>2
      <4>. QED BY <1>1, <2>3, <4>1 DEF Restarted, Job
    <3>. QED BY <1>1, <3>1, <3>2
  <2>. QED BY <2>4, <2>5, <2>6, <2>7, <2>8 DEF Worker, RunJob
<1>5. excused' \subseteq Ids
  <2>1. excused' = excused \/ excused' = excused \cup {j.id}
    BY DEF Worker, RunJob, StartMeeting, CallProvider, StoreLink, SendInvitation, SendOffer,
           NotifyConfirmed, JobFails, WorkerDies, Excuse
  <2>. QED BY <1>1, <2>1 DEF InterviewsInv, TypeOK
<1>6. mails' \in [Ids -> SUBSET {"offer", "invitation"}]
  <2>1. mails \in [Ids -> SUBSET {"offer", "invitation"}]
    BY DEF InterviewsInv, TypeOK
  <2>2. CASE UNCHANGED mails
    BY <2>1, <2>2
  <2>3. ASSUME NEW sends, NEW kind \in {"offer", "invitation"},
               mails' = [mails EXCEPT ![j.id] = IF sends THEN @ \cup {kind} ELSE @]
        PROVE  mails' \in [Ids -> SUBSET {"offer", "invitation"}]
    BY <1>1, <2>1, <2>3
  <2>4. CASE SendInvitation(j)
    BY <2>3, <2>4 DEF SendInvitation, Mail
  <2>5. CASE SendOffer(j)
    BY <2>3, <2>5 DEF SendOffer, Mail
  <2>6. CASE ~SendInvitation(j) /\ ~SendOffer(j)
    BY <2>1, <2>6 DEF Worker, RunJob, StartMeeting, CallProvider, StoreLink, NotifyConfirmed,
                      JobFails, WorkerDies
  <2>. QED BY <2>4, <2>5, <2>6
<1>7. \A r \in Slots : Whole(session'[r], interviews')
  BY <1>1, <1>2, <1>3, RowsStay
<1>. QED BY <1>2, <1>3, <1>4, <1>5, <1>6, <1>7 DEF InterviewsInv, TypeOK

LEMMA InterviewsStart == Init => InterviewsInv
<1>1. Init => TypeOK
  <2> SUFFICES ASSUME Init PROVE TypeOK
    OBVIOUS
  <2>1. 0 \in Time /\ 0 \in 0..MaxId /\ 0 \in 0..MaxRequests
    BY InterviewAssumption DEF Time
  <2>. QED BY <2>1, NoRow, IdleType DEF Init, TypeOK
<1>. QED BY <1>1, NoRow, IdleType DEF Init, InterviewsInv, Named, Whole

LEMMA InterviewsKeep == InterviewsInv /\ [Next]_vars => InterviewsInv'
<1> SUFFICES ASSUME InterviewsInv, [Next]_vars PROVE InterviewsInv'
  OBVIOUS
<1>1. CASE UNCHANGED vars
  BY <1>1 DEF InterviewsInv, TypeOK, vars
<1>2. CASE \E r \in Slots : Arrive(r)
  BY <1>2, ArriveDecides, AcceptedTyped
<1>3. CASE \E r \in Slots : Flush(r) \/ Commit(r) \/ Break(r)
  BY <1>3, FlushTyped, CommitTyped, BreakTyped
<1>4. CASE \E j \in queue : Worker(j)
  BY <1>4, JobTyped
<1>5. CASE \E a \in Applications : Toggle(a)
  <2>1. PICK a \in Applications : Toggle(a)
    BY <1>5
  <2>2. live' \in [Applications -> BOOLEAN]
    BY <2>1 DEF InterviewsInv, TypeOK, Toggle
  <2>. QED BY <2>1, <2>2 DEF InterviewsInv, TypeOK, Toggle
<1>6. CASE Tick
  <2>1. now' \in Time
    BY <1>6, InterviewAssumption DEF InterviewsInv, TypeOK, Tick, Time
  <2>. QED BY <1>6, <2>1 DEF InterviewsInv, TypeOK, Tick
<1>. QED BY <1>1, <1>2, <1>3, <1>4, <1>5, <1>6 DEF Next

\* Every reachable row, session, job, meeting and mail is well typed, and a row
\* that was inserted names its interviewer and its creator, for any number of
\* sessions at once.
THEOREM InterviewsTypeCorrect == Spec => []TypeOK
<1>1. InterviewsInv => TypeOK
  BY DEF InterviewsInv
<1>. QED BY <1>1, InterviewsStart, InterviewsKeep, PTL DEF Spec

-----------------------------------------------------------------------------
(* In sight *)

\* Without a time an interview is still an offer, or it was cancelled.
RowStands(row) == row.from = NULL => row.status \in {"offered", "cancelled"}

SightInv ==
    /\ InterviewsInv
    /\ \A i \in Ids : RowStands(interviews[i])
    /\ \A r \in Slots :
          session[r].pc # "idle" => KeepsInSight(session[r].loaded, session[r].wanted)

\* What the session checked of the row it loaded holds of the row it meets.
LEMMA WrittenStands ==
    ASSUME SightInv, NEW r \in Slots, session[r].pc # "idle"
    PROVE  RowStands(Written(r))
<1>. DEFINE s == session[r]
            current == interviews[s.id]
            m == Merge(s.loaded, s.wanted, current)
<1>1. /\ s \in Session /\ s.id \in Ids /\ KeepsInSight(s.loaded, s.wanted)
  BY DEF SightInv, InterviewsInv, TypeOK, Whole
<1>2. /\ s.loaded \in Interview /\ s.wanted \in Interview /\ current \in Interview
      /\ RowStands(current)
  BY <1>1 DEF Session, SightInv, InterviewsInv, TypeOK
<1>3. /\ m.from = IF s.wanted.from # s.loaded.from THEN s.wanted.from ELSE current.from
      /\ m.status = IF s.wanted.status # s.loaded.status THEN s.wanted.status
                                                          ELSE current.status
  BY <1>2, MergedColumn DEF Columns
<1>4. Written(r) = m
  BY DEF Written
<1>. HIDE DEF m, s, current
<1>. QED BY <1>1, <1>2, <1>3, <1>4 DEF RowStands, KeepsInSight

LEMMA SightKept ==
    ASSUME StaffOnlyCancel, TimesStaySet, SightInv, [Next]_vars
    PROVE  SightInv'
<1>1. InterviewsInv /\ InterviewsInv'
  BY InterviewsKeep DEF SightInv
<1>2. CASE UNCHANGED <<interviews, session>>
  BY <1>1, <1>2 DEF SightInv
<1>3. ASSUME NEW r \in Slots, Arrive(r) PROVE SightInv'
  <2>1. PICK q \in Requests, id \in Ids, loaded \in Interview, wanted \in Interview :
           Accepted(r, q, id, loaded, wanted) /\ Decides(id, loaded, wanted)
    BY <1>1, <1>3, ArriveDecides
  <2>2. /\ session'[r] = [pc |-> "checked", request |-> q, number |-> sent + 1, id |-> id,
                          loaded |-> loaded, wanted |-> wanted]
        /\ \A x \in Slots \ {r} : session'[x] = session[x]
        /\ UNCHANGED interviews
    BY <1>1, <2>1, AcceptedTyped
  <2>3. KeepsInSight(loaded, wanted)
    BY <2>1 DEF Decides
  <2>. QED BY <1>1, <2>2, <2>3 DEF SightInv
<1>4. ASSUME NEW r \in Slots, Flush(r) \/ Break(r) PROVE SightInv'
  <2>1. UNCHANGED interviews /\ session \in [Slots -> Session]
    BY <1>1, <1>4 DEF Flush, Break, InterviewsInv, TypeOK
  <2>2. \A x \in Slots : session'[x].pc # "idle" =>
           /\ session[x].pc # "idle"
           /\ session'[x].loaded = session[x].loaded /\ session'[x].wanted = session[x].wanted
    BY <1>4, <2>1, IdleType DEF Flush, Break, Go, At, Session
  <2>. QED BY <1>1, <2>1, <2>2 DEF SightInv
<1>5. ASSUME NEW r \in Slots, Commit(r) PROVE SightInv'
  <2>1. /\ interviews' = [interviews EXCEPT ![session[r].id] = Written(r)]
        /\ session' = [session EXCEPT ![r] = Idle] /\ session[r].pc # "idle"
    BY <1>5 DEF Commit, Go, At
  <2>2. RowStands(Written(r))
    BY <2>1, WrittenStands
  <2>3. interviews \in [Ids -> Interview] /\ session \in [Slots -> Session]
    BY <1>1 DEF InterviewsInv, TypeOK
  <2>4. \A i \in Ids : RowStands(interviews'[i])
    BY <2>1, <2>2, <2>3 DEF SightInv
  <2>5. \A x \in Slots : session'[x].pc # "idle" => session'[x] = session[x]
    BY <2>1, <2>3, IdleType
  <2>. QED BY <1>1, <2>4, <2>5 DEF SightInv
<1>6. ASSUME NEW j \in queue, Worker(j) PROVE SightInv'
  <2>1. /\ UNCHANGED session
        /\ \/ UNCHANGED interviews
           \/ interviews' = [interviews EXCEPT ![j.id] = Linked(interviews[j.id])]
    BY <1>1, <1>6, JobsOnlyLink
  <2>2. j.id \in Ids /\ interviews \in [Ids -> Interview]
    BY <1>1 DEF InterviewsInv, TypeOK, Job
  <2>3. /\ Linked(interviews[j.id]).from = interviews[j.id].from
        /\ Linked(interviews[j.id]).status = interviews[j.id].status
    BY <2>2, LinkedRow DEF Columns
  <2>4. RowStands(Linked(interviews[j.id]))
    BY <2>2, <2>3 DEF SightInv, RowStands
  <2>5. \A i \in Ids : RowStands(interviews'[i])
    BY <2>1, <2>2, <2>4 DEF SightInv
  <2>. QED BY <1>1, <2>1, <2>5 DEF SightInv
<1>. QED BY <1>2, <1>3, <1>4, <1>5, <1>6 DEF Next, vars, Toggle, Tick

\* However many requests overlap, an interview that stands is on one of the
\* candidate's lists unless its offer ran out, and always in the staff's, on
\* exactly one side of any date (interviews_service.py,
\* list_scheduled_for_candidate; interviews_routes.py, list_all_interviews).
THEOREM StandingInterviewsAreInSight ==
    StaffOnlyCancel /\ TimesStaySet /\ Spec => []StandingIsInSight
<1>1. Init => SightInv
  BY InterviewsStart DEF Init, SightInv, RowStands, NoInterview, Idle
<1>2. StaffOnlyCancel /\ TimesStaySet /\ SightInv /\ [Next]_vars => SightInv'
  BY SightKept
<1>3. SightInv => StandingIsInSight
  <2> SUFFICES ASSUME SightInv, NEW i \in Ids,
                      IsActive(interviews[i]), interviews[i].status # "cancelled"
               PROVE  LET row == interviews[i]
                      IN  /\ InStaffList(row, NULL, NULL)
                          /\ row.from # NULL =>
                                \A t \in Time : InStaffList(row, t, NULL) # InStaffList(row, NULL, t)
                          /\ \/ IsOffer(row) \/ IsAppointment(row)
                             \/ row.status = "offered" /\ row.expires < now
    BY DEF StandingIsInSight
  <2>. DEFINE row == interviews[i]
  <2>1. /\ row.from \in Time \cup {NULL} /\ row.expires \in Nat \cup {NULL} /\ now \in Nat
        /\ RowStands(row)
    BY DEF SightInv, InterviewsInv, TypeOK, Interview, Time
  <2>2. IsActive(row) /\ row.status # "cancelled"
    OBVIOUS
  <2>. HIDE DEF row
  <2>3. InStaffList(row, NULL, NULL)
    BY <2>2 DEF InStaffList
  <2>4. ASSUME row.from # NULL, NEW t \in Time
        PROVE  InStaffList(row, t, NULL) # InStaffList(row, NULL, t)
    <3>1. t \in Nat /\ row.from \in Nat /\ t # NULL
      BY <2>1, <2>4, InterviewAssumption DEF Time
    <3>2. CASE row.from >= t
      <4>1. InStaffList(row, t, NULL) /\ ~InStaffList(row, NULL, t)
        BY <2>2, <2>4, <3>1, <3>2 DEF InStaffList
      <4>. QED BY <4>1
    <3>3. CASE row.from < t
      <4>1. ~InStaffList(row, t, NULL) /\ InStaffList(row, NULL, t)
        BY <2>2, <2>4, <3>1, <3>3 DEF InStaffList
      <4>. QED BY <4>1
    <3>. QED BY <3>1, <3>2, <3>3
  <2>5. \/ IsOffer(row) \/ IsAppointment(row)
        \/ row.status = "offered" /\ row.expires < now
    BY <2>1, <2>2 DEF IsOffer, IsAppointment, RowStands
  <2>. QED BY <2>3, <2>4, <2>5 DEF row
<1>4. StaffOnlyCancel /\ TimesStaySet => (StaffOnlyCancel /\ TimesStaySet)'
  BY DEF StaffOnlyCancel, TimesStaySet
<1>. QED BY <1>1, <1>2, <1>3, <1>4, PTL DEF Spec

-----------------------------------------------------------------------------
(* The abstract agenda *)

\* Every interview takes a window of somebody or none, and no two overlap: the
\* step that books one needs the ranges to name the row it leaves alone.
BookedInv ==
    /\ booked \in [Ids -> Agenda!Booking \cup {Agenda!Free}]
    /\ Agenda!NoDoubleBooking

\* A booking overlaps another one whichever of the two is looked at first.
LEMMA OverlapIsSymmetric ==
    ASSUME NEW a, NEW b, Agenda!Overlap(a, b)
    PROVE  Agenda!Overlap(b, a)
BY DEF Agenda!Overlap

\* Booking and releasing keep interviewers in one place.
LEMMA AgendaIsKept == BookedInv /\ [Agenda!Next]_booked => BookedInv'
<1> SUFFICES ASSUME BookedInv, [Agenda!Next]_booked PROVE BookedInv'
  OBVIOUS
<1>1. ASSUME NEW i \in Ids, Agenda!Book(i) PROVE BookedInv'
  <2>1. PICK b \in Agenda!Booking :
           /\ \A j \in Ids \ {i} : booked[j] # Agenda!Free => ~Agenda!Overlap(booked[j], b)
           /\ booked' = [booked EXCEPT ![i] = b]
    BY <1>1 DEF Agenda!Book
  <2>2. booked' \in [Ids -> Agenda!Booking \cup {Agenda!Free}]
    BY <2>1 DEF BookedInv
  <2>3. Agenda!NoDoubleBooking'
    <3> SUFFICES ASSUME NEW j \in Ids, NEW k \in Ids, j # k,
                        booked'[j] # Agenda!Free, booked'[k] # Agenda!Free
                 PROVE  ~Agenda!Overlap(booked'[j], booked'[k])
      BY DEF Agenda!NoDoubleBooking
    <3>1. CASE j = i
      <4>1. booked'[j] = b /\ booked'[k] = booked[k]
        BY <2>1, <3>1 DEF BookedInv
      <4>2. ~Agenda!Overlap(booked[k], b)
        BY <2>1, <3>1, <4>1
      <4>. QED BY <4>1, <4>2, OverlapIsSymmetric
    <3>2. CASE k = i
      <4>1. booked'[k] = b /\ booked'[j] = booked[j]
        BY <2>1, <3>2 DEF BookedInv
      <4>. QED BY <2>1, <3>2, <4>1
    <3>3. CASE j # i /\ k # i
      BY <2>1, <3>3 DEF BookedInv, Agenda!NoDoubleBooking
    <3>. QED BY <3>1, <3>2, <3>3
  <2>. QED BY <2>2, <2>3 DEF BookedInv
<1>2. ASSUME NEW i \in Ids, Agenda!Release(i) PROVE BookedInv'
  <2>1. booked' \in [Ids -> Agenda!Booking \cup {Agenda!Free}]
    BY <1>2 DEF Agenda!Release, BookedInv
  <2>2. Agenda!NoDoubleBooking'
    BY <1>2 DEF Agenda!Release, BookedInv, Agenda!NoDoubleBooking
  <2>. QED BY <2>1, <2>2 DEF BookedInv
<1>3. CASE UNCHANGED booked
  BY <1>3 DEF BookedInv, Agenda!NoDoubleBooking
<1>. QED BY <1>1, <1>2, <1>3 DEF Agenda!Next

\* Whatever implements the agenda never has somebody in two interviews at once.
LEMMA NobodyIsDoubleBooked == Agenda!Spec => []Agenda!NoDoubleBooking
<1>1. Agenda!Init => BookedInv
  BY DEF Agenda!Init, BookedInv, Agenda!NoDoubleBooking
<1>2. BookedInv => Agenda!NoDoubleBooking
  BY DEF BookedInv
<1>. QED BY <1>1, <1>2, AgendaIsKept, PTL DEF Agenda!Spec

-----------------------------------------------------------------------------
(* One request at a time, scheduling is the agenda *)

OneAtATime == \A r, x \in Slots : r = x

\* The same row, up to the link the background job may have put into it.
Alike(a, b) == \A f \in Columns \ {"link"} : a[f] = b[f]

\* What an open session loaded is what the table still says, and what it found
\* free is still free: the property alone forgets what was checked.
StillAsLoaded(s) ==
    s.pc # "idle" =>
        /\ Alike(interviews[s.id], s.loaded) /\ s.id <= lastId
        /\ Checked(s.id, s.loaded, s.wanted)

AgendaInv ==
    /\ InterviewsInv
    /\ \A i \in Ids : TakesTime(interviews[i]) => interviews[i].from < interviews[i].to
    /\ \A i \in Ids : i > lastId => Alike(interviews[i], NoInterview)
    /\ \A r \in Slots : StillAsLoaded(session[r])

\* The link says nothing about anybody's time.
LEMMA AlikeTakesTime ==
    ASSUME NEW a, NEW b, Alike(a, b)
    PROVE  /\ TakesTime(a) = TakesTime(b)
           /\ a.row = b.row /\ a.status = b.status
           /\ a.interviewer = b.interviewer /\ a.from = b.from /\ a.to = b.to
<1>1. /\ a["row"] = b["row"] /\ a["status"] = b["status"]
      /\ a["interviewer"] = b["interviewer"] /\ a["from"] = b["from"] /\ a["to"] = b["to"]
  BY DEF Alike, Columns
<1>2. /\ a.row = b.row /\ a.status = b.status
      /\ a.interviewer = b.interviewer /\ a.from = b.from /\ a.to = b.to
  BY <1>1
<1>3. TakesTime(a) = TakesTime(b)
  BY <1>2 DEF TakesTime, IsActive
<1>. QED BY <1>2, <1>3

\* What an interview takes of the agenda.
Taken(row) ==
    IF TakesTime(row) THEN [who |-> row.interviewer, from |-> row.from, to |-> row.to]
                      ELSE Agenda!Free

LEMMA BookedIsTaken == booked = [i \in Ids |-> Taken(interviews[i])]
BY DEF booked, Taken, Agenda!Free

\* Rows that changed nothing but links.
LEMMA LinksLeaveTheAgenda ==
    ASSUME \A i \in Ids : Alike(interviews'[i], interviews[i])
    PROVE  /\ booked' = booked
           /\ \A u, from, to, i : Conflicts(u, from, to, i)' = Conflicts(u, from, to, i)
<1>1. ASSUME NEW i \in Ids
      PROVE  /\ TakesTime(interviews'[i]) = TakesTime(interviews[i])
             /\ interviews'[i].interviewer = interviews[i].interviewer
             /\ interviews'[i].from = interviews[i].from
             /\ interviews'[i].to = interviews[i].to
  BY AlikeTakesTime
<1>2. \A i \in Ids : Taken(interviews'[i]) = Taken(interviews[i])
  BY <1>1 DEF Taken
<1>3. booked' = [i \in Ids |-> Taken(interviews'[i])]
  BY DEF booked, Taken, Agenda!Free
<1>4. booked' = booked
  BY <1>2, <1>3, BookedIsTaken
<1>5. ASSUME NEW u, NEW from, NEW to, NEW i
      PROVE  Conflicts(u, from, to, i)' = Conflicts(u, from, to, i)
  BY <1>1 DEF Conflicts
<1>. QED BY <1>4, <1>5

\* Nobody else wrote in between: the row is the wanted one, up to the link.
LEMMA WrittenAlone ==
    ASSUME AgendaInv, NEW r \in Slots, session[r].pc # "idle"
    PROVE  Alike(Written(r), session[r].wanted)
<1>. DEFINE s == session[r]
            current == interviews[s.id]
            m == Merge(s.loaded, s.wanted, current)
<1>1. s \in Session /\ s.id \in Ids /\ Alike(current, s.loaded)
  BY DEF AgendaInv, StillAsLoaded, InterviewsInv, TypeOK, Whole
<1>2. s.loaded \in Interview /\ s.wanted \in Interview /\ current \in Interview
  BY <1>1 DEF Session, AgendaInv, InterviewsInv, TypeOK
<1>3. \A f \in Columns : m[f] = IF s.wanted[f] # s.loaded[f] THEN s.wanted[f] ELSE current[f]
  BY <1>2, MergedColumn
<1>4. Written(r) = m
  BY DEF Written
<1>. HIDE DEF m, s, current
<1>5. Alike(m, s.wanted)
  BY <1>1, <1>3 DEF Alike
<1>. QED BY <1>4, <1>5 DEF s

\* A commit books one interview's time, releases it, or leaves it.
LEMMA CommitIsAgendaStep ==
    ASSUME AgendaInv, NEW r \in Slots, Commit(r)
    PROVE  [Agenda!Next]_booked
<1>. DEFINE s == session[r]
            w == Written(r)
            id == s.id
<1>1. /\ s.pc # "idle" /\ interviews' = [interviews EXCEPT ![id] = w]
  BY DEF Commit, At
<1>2. id \in Ids /\ interviews \in [Ids -> Interview] /\ w \in Interview /\ Named(w)
  BY <1>1, WrittenRow DEF AgendaInv, InterviewsInv, TypeOK, Whole
<1>3. /\ TakesTime(w) = TakesTime(s.wanted) /\ w.interviewer = s.wanted.interviewer
      /\ w.from = s.wanted.from /\ w.to = s.wanted.to
  BY <1>1, WrittenAlone, AlikeTakesTime
<1>4. Checked(id, s.loaded, s.wanted) /\ Alike(interviews[id], s.loaded)
  BY <1>1 DEF AgendaInv, StillAsLoaded
<1>. HIDE DEF w, id
<1>5. booked' = [booked EXCEPT ![id] = Taken(w)]
  <2>1. booked' = [i \in Ids |-> Taken(interviews'[i])]
    BY DEF booked, Taken, Agenda!Free
  <2>2. \A i \in Ids : interviews'[i] = IF i = id THEN w ELSE interviews[i]
    BY <1>1, <1>2
  <2>3. booked = [i \in Ids |-> Taken(interviews[i])]
    BY BookedIsTaken
  <2>. QED BY <1>2, <2>1, <2>2, <2>3
<1>6. CASE ~TakesTime(w)
  BY <1>2, <1>5, <1>6 DEF Taken, Agenda!Next, Agenda!Release
<1>7. CASE TakesTime(w) /\ SameTime(s.loaded, s.wanted)
  <2>1. Taken(w) = Taken(interviews[id])
    BY <1>3, <1>4, <1>7, AlikeTakesTime DEF SameTime, Taken
  <2>2. booked[id] = Taken(interviews[id])
    BY <1>2, BookedIsTaken
  <2>3. booked' = booked
    BY <1>5, <2>1, <2>2, BookedIsTaken
  <2>. QED BY <2>3
<1>8. CASE /\ TakesTime(w)
           /\ Conflicts(s.wanted.interviewer, s.wanted.from, s.wanted.to, id) = {}
  <2>1. Taken(w) \in Agenda!Booking
    <3>1. w.from < w.to
      BY <1>3, <1>4, <1>8 DEF Checked
    <3>2. w.from \in 0..MaxTime /\ w.to \in 0..MaxTime /\ w.interviewer \in Staff
      BY <1>2, <1>8 DEF Interview, TakesTime, IsActive, Time, Named
    <3>. QED BY <1>8, <3>1, <3>2 DEF Taken, Agenda!Booking
  <2>2. ASSUME NEW j \in Ids \ {id}, booked[j] # Agenda!Free
        PROVE  ~Agenda!Overlap(booked[j], Taken(w))
    <3>1. booked[j] = Taken(interviews[j])
      BY BookedIsTaken
    <3>2. TakesTime(interviews[j])
      BY <2>2, <3>1 DEF Taken
    <3>3. ~(/\ interviews[j].interviewer = w.interviewer
            /\ interviews[j].from < w.to
            /\ interviews[j].to > w.from)
      BY <1>3, <1>8, <3>2 DEF Conflicts
    <3>4. /\ interviews[j].from \in Nat /\ interviews[j].to \in Nat
          /\ w.from \in Nat /\ w.to \in Nat
      BY <1>2, <1>8, <3>2 DEF Interview, TakesTime, Time
    <3>. QED BY <1>8, <3>1, <3>2, <3>3, <3>4 DEF Taken, Agenda!Overlap
  <2>3. Agenda!Book(id)
    BY <1>5, <2>1, <2>2 DEF Agenda!Book
  <2>. QED BY <1>2, <2>3 DEF Agenda!Next
<1>. QED BY <1>3, <1>4, <1>6, <1>7, <1>8 DEF Checked

\* Steps that write no row but a link.
LEMMA OtherStepsKeepAgenda ==
    ASSUME AgendaInv, InterviewsInv', lastId' = lastId,
           \A i \in Ids : Alike(interviews'[i], interviews[i]),
           \A r \in Slots : session'[r].pc # "idle" =>
              /\ session[r].pc # "idle" /\ session'[r].id = session[r].id
              /\ session'[r].loaded = session[r].loaded
              /\ session'[r].wanted = session[r].wanted
    PROVE  AgendaInv' /\ booked' = booked
<1>1. booked' = booked /\ \A u, from, to, i : Conflicts(u, from, to, i)' = Conflicts(u, from, to, i)
  BY LinksLeaveTheAgenda
<1>2. \A i \in Ids : TakesTime(interviews'[i]) => interviews'[i].from < interviews'[i].to
  BY AlikeTakesTime DEF AgendaInv
<1>3. \A i \in Ids : i > lastId' => Alike(interviews'[i], NoInterview)
  BY DEF AgendaInv, Alike
<1>4. ASSUME NEW r \in Slots PROVE StillAsLoaded(session[r])'
  <2> SUFFICES ASSUME session'[r].pc # "idle"
               PROVE  /\ Alike(interviews'[session'[r].id], session'[r].loaded)
                      /\ session'[r].id <= lastId'
                      /\ Checked(session[r].id, session[r].loaded, session[r].wanted)'
    BY DEF StillAsLoaded
  <2>1. /\ session[r].pc # "idle" /\ session'[r].id = session[r].id
        /\ session'[r].loaded = session[r].loaded /\ session'[r].wanted = session[r].wanted
    OBVIOUS
  <2>2. /\ session[r].id \in Ids /\ Alike(interviews[session[r].id], session[r].loaded)
        /\ session[r].id <= lastId
        /\ Checked(session[r].id, session[r].loaded, session[r].wanted)
    BY <2>1 DEF AgendaInv, StillAsLoaded, InterviewsInv, Whole
  <2>3. Alike(interviews'[session[r].id], session[r].loaded)
    BY <2>2 DEF Alike
  <2>4. Checked(session[r].id, session[r].loaded, session[r].wanted)'
    BY <1>1, <2>1, <2>2 DEF Checked
  <2>. QED BY <2>1, <2>2, <2>3, <2>4
<1>. QED BY <1>1, <1>2, <1>3, <1>4 DEF AgendaInv

LEMMA ArriveKeepsAgenda ==
    ASSUME StaffOnlyCancel, OneAtATime, AgendaInv, NEW r \in Slots, Arrive(r)
    PROVE  AgendaInv' /\ booked' = booked
<1>1. InterviewsInv
  BY DEF AgendaInv
<1>2. PICK q \in Requests, id \in Ids, loaded \in Interview, wanted \in Interview :
         Accepted(r, q, id, loaded, wanted) /\ Decides(id, loaded, wanted)
  BY <1>1, ArriveDecides
<1>3. /\ InterviewsInv' /\ UNCHANGED interviews
      /\ session'[r].id = id /\ session'[r].loaded = loaded /\ session'[r].wanted = wanted
  <2>1. /\ InterviewsInv' /\ UNCHANGED interviews
        /\ session'[r] = [pc |-> "checked", request |-> q, number |-> sent + 1, id |-> id,
                          loaded |-> loaded, wanted |-> wanted]
    BY <1>1, <1>2, AcceptedTyped
  <2>. QED BY <2>1
<1>4. Checked(id, loaded, wanted)
  BY <1>2 DEF Decides
<1>5. lastId \in Nat /\ id \in Nat /\ lastId' \in Nat
  BY <1>1, <1>3 DEF InterviewsInv, TypeOK, Ids
<1>6. id <= lastId' /\ lastId <= lastId' /\ Alike(interviews[id], loaded)
  <2>1. CASE lastId' = lastId /\ loaded = interviews[id] /\ loaded.row = "active"
    <3>1. ~Alike(interviews[id], NoInterview)
      BY <2>1, AlikeTakesTime, NoRow
    <3>. QED BY <1>5, <2>1, <3>1 DEF AgendaInv, Alike
  <2>2. CASE lastId < id /\ lastId' = id /\ loaded = NoInterview
    BY <1>5, <2>2 DEF AgendaInv
  <2>. QED BY <1>2, <2>1, <2>2 DEF Accepted
<1>7. booked' = booked /\ \A u, from, to, i : Conflicts(u, from, to, i)' = Conflicts(u, from, to, i)
  BY <1>3, LinksLeaveTheAgenda DEF Alike
<1>8. Checked(id, loaded, wanted)'
  BY <1>4, <1>7 DEF Checked
<1>9. \A x \in Slots : StillAsLoaded(session[x])'
  <2>1. \A x \in Slots : x = r
    BY DEF OneAtATime
  <2>2. Checked(session[r].id, session[r].loaded, session[r].wanted)'
    BY <1>3, <1>8
  <2>3. StillAsLoaded(session[r])'
    BY <1>3, <1>6, <2>2 DEF StillAsLoaded
  <2>. QED BY <2>1, <2>3
<1>10. \A i \in Ids : i > lastId' => i > lastId
  BY <1>5, <1>6 DEF Ids
<1>. QED BY <1>3, <1>7, <1>9, <1>10 DEF AgendaInv

LEMMA CommitKeepsAgenda ==
    ASSUME OneAtATime, AgendaInv, NEW r \in Slots, Commit(r)
    PROVE  AgendaInv'
<1>. DEFINE s == session[r]
            w == Written(r)
<1>1. /\ s.pc # "idle" /\ interviews' = [interviews EXCEPT ![s.id] = w]
      /\ session' = [session EXCEPT ![r] = Idle] /\ lastId' = lastId
  BY DEF Commit, At, Go
<1>2. /\ InterviewsInv' /\ s.id \in Ids /\ interviews \in [Ids -> Interview]
      /\ session \in [Slots -> Session] /\ s.id <= lastId
  BY <1>1, CommitTyped DEF AgendaInv, InterviewsInv, TypeOK, Whole, StillAsLoaded
<1>3. /\ TakesTime(w) = TakesTime(s.wanted) /\ w.from = s.wanted.from /\ w.to = s.wanted.to
  BY <1>1, WrittenAlone, AlikeTakesTime
<1>4. TakesTime(w) => w.from < w.to
  BY <1>1, <1>3 DEF AgendaInv, StillAsLoaded, Checked
<1>. HIDE DEF w
<1>5. \A i \in Ids : TakesTime(interviews'[i]) => interviews'[i].from < interviews'[i].to
  BY <1>1, <1>2, <1>4 DEF AgendaInv
<1>6. \A i \in Ids : i > lastId' => Alike(interviews'[i], NoInterview)
  <2>1. lastId \in Nat /\ s.id \in Nat
    BY <1>2 DEF Ids, AgendaInv, InterviewsInv, TypeOK
  <2>. QED BY <1>1, <1>2, <2>1 DEF AgendaInv, Ids
<1>7. \A x \in Slots : session'[x].pc = "idle"
  BY <1>1, <1>2, IdleType DEF OneAtATime
<1>. QED BY <1>2, <1>5, <1>6, <1>7 DEF AgendaInv, StillAsLoaded

LEMMA AgendaStep ==
    ASSUME StaffOnlyCancel, OneAtATime, AgendaInv, [Next]_vars
    PROVE  AgendaInv' /\ [Agenda!Next]_booked
<1>1. InterviewsInv /\ InterviewsInv'
  BY InterviewsKeep DEF AgendaInv
<1>2. CASE UNCHANGED <<interviews, session, lastId>>
  BY <1>1, <1>2, OtherStepsKeepAgenda DEF Alike
<1>3. ASSUME NEW r \in Slots, Arrive(r) PROVE AgendaInv' /\ [Agenda!Next]_booked
  BY <1>3, ArriveKeepsAgenda
<1>4. ASSUME NEW r \in Slots, Flush(r) \/ Break(r) PROVE AgendaInv' /\ [Agenda!Next]_booked
  <2>1. UNCHANGED <<interviews, lastId>> /\ session \in [Slots -> Session]
    BY <1>1, <1>4 DEF Flush, Break, InterviewsInv, TypeOK
  <2>2. \A x \in Slots : session'[x].pc # "idle" =>
           /\ session[x].pc # "idle" /\ session'[x].id = session[x].id
           /\ session'[x].loaded = session[x].loaded /\ session'[x].wanted = session[x].wanted
    BY <1>4, <2>1, IdleType DEF Flush, Break, Go, At, Session
  <2>. QED BY <1>1, <2>1, <2>2, OtherStepsKeepAgenda DEF Alike
<1>5. ASSUME NEW r \in Slots, Commit(r) PROVE AgendaInv' /\ [Agenda!Next]_booked
  BY <1>5, CommitKeepsAgenda, CommitIsAgendaStep
<1>6. ASSUME NEW j \in queue, Worker(j) PROVE AgendaInv' /\ [Agenda!Next]_booked
  <2>1. /\ UNCHANGED <<session, lastId>>
        /\ \/ UNCHANGED interviews
           \/ interviews' = [interviews EXCEPT ![j.id] = Linked(interviews[j.id])]
    BY <1>1, <1>6, JobsOnlyLink
  <2>2. j.id \in Ids /\ interviews \in [Ids -> Interview]
    BY <1>1 DEF InterviewsInv, TypeOK, Job
  <2>3. \A i \in Ids : Alike(interviews'[i], interviews[i])
    BY <2>1, <2>2, LinkedRow DEF Alike
  <2>. QED BY <1>1, <2>1, <2>3, OtherStepsKeepAgenda
<1>. QED BY <1>2, <1>3, <1>4, <1>5, <1>6 DEF Next, vars, Toggle, Tick

\* One request at a time, with offers and background jobs in between
\* and sessions that break, every step is a step of the abstract agenda: what
\* _assert_no_double_booking asks is enough (interviews_service.py).
THEOREM SchedulingKeepsTheAgenda == StaffOnlyCancel /\ OneAtATime /\ Spec => KeepsTheAgenda
<1>1. Init => AgendaInv
  BY InterviewsStart, NoRow, IdleType
  DEF Init, AgendaInv, Alike, StillAsLoaded, TakesTime, IsActive
<1>2. Init => Agenda!Init
  <2> SUFFICES ASSUME Init PROVE booked = [i \in Ids |-> Agenda!Free]
    BY DEF Agenda!Init
  <2>1. \A i \in Ids : Taken(interviews[i]) = Agenda!Free
    BY NoRow DEF Init, Taken, TakesTime, IsActive
  <2>. QED BY <2>1, BookedIsTaken
<1>3. StaffOnlyCancel /\ OneAtATime /\ AgendaInv /\ [Next]_vars
         => AgendaInv' /\ [Agenda!Next]_booked
  BY AgendaStep
<1>4. StaffOnlyCancel /\ OneAtATime => (StaffOnlyCancel /\ OneAtATime)'
  BY DEF StaffOnlyCancel, OneAtATime
<1>. QED BY <1>1, <1>2, <1>3, <1>4, PTL DEF Spec, KeepsTheAgenda, Agenda!Spec

\* So nobody is in two interviews at once (interviews_service.py,
\* _assert_no_double_booking).
THEOREM InterviewersAreInOnePlace ==
    StaffOnlyCancel /\ OneAtATime /\ Spec => []Agenda!NoDoubleBooking
<1>1. KeepsTheAgenda => []Agenda!NoDoubleBooking
  BY NobodyIsDoubleBooked DEF KeepsTheAgenda
<1>. QED BY <1>1, SchedulingKeepsTheAgenda, PTL
=============================================================================
