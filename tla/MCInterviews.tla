---------------------------- MODULE MCInterviews ----------------------------
(***************************************************************************)
(* Instances of Interviews for TLC: one application, two interviewers and  *)
(* a day of two hours.                                                     *)
(***************************************************************************)
EXTENDS Interviews, TLC

CONSTANTS a1, u1, u2, r1, r2

Hours(from, to) == [from |-> from, to |-> to]

NoField ==
    [interviewer |-> Unset, from |-> Unset, to |-> Unset, status |-> Unset,
     offered |-> Unset, link |-> Unset]

BookFor(u, window, link) ==
    [op |-> "book", application |-> a1, interviewer |-> u, actor |-> u1, window |-> window,
     status |-> "scheduled", link |-> link]
InviteFor(actor, offered) ==
    [op |-> "invite", application |-> a1, interviewer |-> u1, actor |-> actor,
     offered |-> offered]
ChangeOf(i, body) == [op |-> "change", id |-> i, body |-> body]
ConfirmOf(i, window) == [op |-> "confirm", id |-> i, window |-> window]
DeleteOf(i) == [op |-> "delete", id |-> i]

GiveTo(u) == [NoField EXCEPT !.interviewer = u]
MoveTo(window) == [NoField EXCEPT !.from = window.from, !.to = window.to]
StartAt(t) == [NoField EXCEPT !.from = t]
Cancel == [NoField EXCEPT !.status = "cancelled"]
LinkBy(link) == [NoField EXCEPT !.link = link]

\* Every kind of request (changes and deletes of the first interview only: the
\* two differ by nothing else); staff cancel interviews and do not put them back.
DayRequests ==
    {BookFor(u2, Hours(0, 2), "none"), BookFor(u1, Hours(1, 2), "given"),
     InviteFor(u2, {Hours(0, 1), Hours(1, 2)})}
        \cup {ChangeOf(1, b) : b \in {GiveTo(u1), MoveTo(Hours(0, 1)), StartAt(0), Cancel,
                                     LinkBy("none")}}
        \cup {ConfirmOf(1, Hours(1, 2)), ConfirmOf(2, Hours(1, 2)), DeleteOf(1)}
=============================================================================
