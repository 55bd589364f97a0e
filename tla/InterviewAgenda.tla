--------------------------- MODULE InterviewAgenda ---------------------------
(***************************************************************************)
(* What scheduling promises about an interviewer's time, whatever happens  *)
(* to offers, meetings and notices: interviews take and free windows of    *)
(* an interviewer, and nobody is in two interviews at once.  It abstracts  *)
(* interviews_service.py; Interviews implements it.                        *)
(***************************************************************************)
EXTENDS Naturals

CONSTANTS
    Ids,      \* interviews
    Staff,    \* interviewers
    MaxTime   \* bound on the instants of a day

VARIABLE booked  \* the time an interview takes, if it takes any

Free == [who |-> "nobody", from |-> 0, to |-> 0]
Booking == {b \in [who : Staff, from : 0..MaxTime, to : 0..MaxTime] : b.from < b.to}

\* existing.scheduled_at < end AND existing.ends_at > start, same interviewer.
Overlap(a, b) == a.who = b.who /\ a.from < b.to /\ b.from < a.to

Init == booked = [i \in Ids |-> Free]

\* An interview is scheduled, confirmed or moved.
Book(i) ==
    \E b \in Booking :
        /\ \A j \in Ids \ {i} : booked[j] # Free => ~Overlap(booked[j], b)
        /\ booked' = [booked EXCEPT ![i] = b]

\* It is cancelled or deleted.
Release(i) == booked' = [booked EXCEPT ![i] = Free]

Next == \E i \in Ids : Book(i) \/ Release(i)

Spec == Init /\ [][Next]_booked

\* No interviewer has two interviews at once (interviews_service.py,
\* InterviewDoubleBookingError).
NoDoubleBooking ==
    \A i, j \in Ids :
        i # j /\ booked[i] # Free /\ booked[j] # Free => ~Overlap(booked[i], booked[j])
=============================================================================
