-------------------------- MODULE MCAvailableSlots --------------------------
(***************************************************************************)
(* Two days of four minutes, half a minute to the tick, and local time two *)
(* minutes behind UTC: a window lies before, at or after UTC midnight.     *)
(***************************************************************************)
EXTENDS AvailableSlots, TLC

CONSTANTS i1, i2

BodyOf(day, start, end, duration, buffer) ==
    [day |-> day, start |-> start, end |-> end, duration |-> duration, buffer |-> buffer]

\* One slot, slots with a break, a window that its slots do not fill.
SomeBodies == {BodyOf(0, 0, 3, 1, 1), BodyOf(0, 1, 3, 2, 0), BodyOf(1, 0, 3, 2, 0)}

NoField ==
    [day |-> Unset, start |-> Unset, end |-> Unset, duration |-> Unset, buffer |-> Unset]
SomeChanges ==
    {[NoField EXCEPT !.day = 1], [NoField EXCEPT !.start = 2],
     [NoField EXCEPT !.duration = 1, !.buffer = 0]}

\* Bookings in ticks: late in a local day, over local midnight and ending
\* between two minutes, over both midnights, and shorter than a minute.
SomeBookings ==
    {[from |-> x[1], to |-> x[2]] : x \in {<<8, 10>>, <<10, 15>>, <<6, 18>>, <<5, 6>>}}

Symmetry == Permutations(Availabilities)
=============================================================================
