--------------------------- MODULE AvailableSlots ---------------------------
(***************************************************************************)
(* The slots an interviewer can be offered for: weekly availability rows   *)
(* in Ecuador local time, interviews booked at UTC instants, and the free  *)
(* starting times computed from both.  Instants are ticks (seconds) from   *)
(* an arbitrary UTC midnight; the algorithm counts minutes.                *)
(*                                                                         *)
(* One interviewer, within one week, so that a date is its weekday.        *)
(* Availability times have no seconds.                                     *)
(***************************************************************************)
EXTENDS Rows, Integers

CONSTANTS
    Availabilities,   \* ids of recruitment.interviewer_availability
    Days,             \* number of days
    MinutesPerDay,
    TicksPerMinute,
    Offset,           \* minutes that local time is behind UTC (EC_TZ)
    Bodies,           \* bodies of POST /interviewer-availability
    Changes,          \* bodies of PATCH
    Bookings          \* interviews that other requests book

Dates == 0..(Days - 1)
DayTicks == MinutesPerDay * TicksPerMinute
Instants == 0..(Days * DayTicks + Offset * TicksPerMinute)
Minutes == 0..(MinutesPerDay - 1)
Interval == [from : Nat, to : Nat]

Fields ==
    [day : Dates, start : Minutes, end : Minutes, duration : Minutes \ {0}, buffer : Minutes]
Change ==
    [day : Dates \cup {Unset}, start : Minutes \cup {Unset}, end : Minutes \cup {Unset},
     duration : (Minutes \ {0}) \cup {Unset}, buffer : Minutes \cup {Unset}]

ASSUME SlotAssumption ==
    /\ Days \in 1..7
    /\ MinutesPerDay \in Nat \ {0, 1} /\ TicksPerMinute \in Nat \ {0}
    /\ Offset \in Minutes
    /\ Bodies \subseteq Fields
    /\ Changes \subseteq Change
    /\ Bookings \subseteq Interval
    /\ \A b \in Bookings : b.from < b.to
    /\ Unset \notin Int

VARIABLES
    windows,  \* recruitment.interviewer_availability
    booked,   \* windows of the active interviews that are not cancelled
    now

vars == <<windows, booked, now>>

Window ==
    [row : RowState, day : Dates, start : Minutes, end : Minutes,
     duration : Minutes \ {0}, buffer : Minutes]

NoWindow == [row |-> "absent", day |-> 0, start |-> 0, end |-> 0, duration |-> 1, buffer |-> 0]

TypeOK ==
    /\ windows \in [Availabilities -> Window]
    /\ booked \subseteq Interval
    /\ now \in Instants

Init ==
    /\ windows = [i \in Availabilities |-> NoWindow]
    /\ booked = {}
    /\ now = 0

-----------------------------------------------------------------------------
(* From instants to local time and back *)

Local(t) == t - Offset * TicksPerMinute
DateOf(t) == Local(t) \div DayTicks
TimeOf(t) == Local(t) % DayTicks
ToUtc(day, minute) == day * DayTicks + (minute + Offset) * TicksPerMinute
ToMin(time) == time \div TicksPerMinute

Overlap(a, b) == a.from < b.to /\ b.from < a.to

-----------------------------------------------------------------------------
(* Free starting times *)

\* Mutant of BookedOn: the query takes the UTC day for the local one.
MutBookedOnUtcDay(day) ==
    {b \in booked : b.from < (day + 1) * DayTicks /\ b.to > day * DayTicks}

\* What the interviewer has on the local day.
BookedOn(day) == {b \in booked : b.from < ToUtc(day + 1, 0) /\ b.to > ToUtc(day, 0)}

\* Those bookings in local time, cut at both midnights (23:59:59 is the last
\* tick of a day).
BookedTimes(day) ==
    LET cut == {[from |-> IF DateOf(b.from) = day THEN TimeOf(b.from) ELSE 0,
                 to |-> IF DateOf(b.to) = day THEN TimeOf(b.to) ELSE DayTicks - 1] :
                   b \in {x \in BookedOn(day) : DateOf(x.from) <= day /\ day <= DateOf(x.to)}}
    IN  {t \in cut : t.from < t.to}

\* Mutant of Blocks: a booking that only touches the slot blocks it.
MutBlocksTouching(time, m, duration) ==
    m <= ToMin(time.to) /\ ToMin(time.from) <= m + duration

\* max(slot_start, b_start) < min(slot_end, b_end), in minutes.
Blocks(time, m, duration) ==
    /\ m < ToMin(time.to)
    /\ ToMin(time.from) < m + duration
    /\ ToMin(time.from) < ToMin(time.to)

\* generate_slots_for_window: one slot and its buffer after the other.
FreeMinutes(w, times) ==
    {m \in w.start..w.end :
        /\ (m - w.start) % (w.duration + w.buffer) = 0
        /\ m + w.duration <= w.end
        /\ \A t \in times : ~Blocks(t, m, w.duration)}

WindowsOn(day) == {windows[i] : i \in {j \in Availabilities :
                                          IsActive(windows[j]) /\ windows[j].day = day}}

\* get_available_slots: today's slots that have started are gone.
FreeStarts(day) ==
    {m \in UNION {FreeMinutes(w, BookedTimes(day)) : w \in WindowsOn(day)} :
        DateOf(now) = day => ToUtc(day, m) > now}

\* GET /interviews/available-slots gives each start the duration of a window
\* that contains it, whichever the query returns first.
OfferedSlots(day) ==
    UNION {{[from |-> ToUtc(day, m), to |-> ToUtc(day, m + w.duration)] :
               w \in {x \in WindowsOn(day) : x.start <= m /\ m < x.end}} : m \in FreeStarts(day)}

\* Mutant of AgendaBounds: the two days begin at UTC midnight.
MutAgendaBoundsUtc(day) == [from |-> day * DayTicks, to |-> (day + 2) * DayTicks]

\* get_agenda: today and tomorrow on local clocks, as instants.
AgendaBounds(day) == [from |-> ToUtc(day, 0), to |-> ToUtc(day + 2, 0)]

OnAgenda(b) ==
    LET bounds == AgendaBounds(DateOf(now)) IN bounds.from <= b.from /\ b.from < bounds.to

\* The day the agenda prints next to an interview.
AgendaDay(b) == IF DateOf(b.from) = DateOf(now) THEN "today" ELSE "tomorrow"

-----------------------------------------------------------------------------
(* Requests, one at a time: each touches one row *)

\* POST /interviewer-availability.
CreateAvailability(i, b) ==
    /\ windows[i].row = "absent"
    /\ b.start < b.end
    /\ windows' = [windows EXCEPT ![i] =
          [row |-> "active", day |-> b.day, start |-> b.start, end |-> b.end,
           duration |-> b.duration, buffer |-> b.buffer]]
    /\ UNCHANGED <<booked, now>>

Patched(w, c) ==
    [w EXCEPT !.day = OrKeep(c.day, @), !.start = OrKeep(c.start, @), !.end = OrKeep(c.end, @),
              !.duration = OrKeep(c.duration, @), !.buffer = OrKeep(c.buffer, @)]

\* PATCH /interviewer-availability/{id}.
UpdateAvailability(i, c) ==
    LET w == Patched(windows[i], c)
    IN  /\ IsActive(windows[i])
        /\ w.start < w.end
        /\ windows' = [windows EXCEPT ![i] = w]
        /\ UNCHANGED <<booked, now>>

\* DELETE /interviewer-availability/{id}.
DeleteAvailability(i) ==
    /\ IsActive(windows[i])
    /\ windows' = [windows EXCEPT ![i].row = "inactive"]
    /\ UNCHANGED <<booked, now>>

\* An interview is booked, in an offered slot or at a time of its own; the
\* agenda refuses an overlap (_assert_no_double_booking).
Book(b) ==
    /\ \A x \in booked : ~Overlap(x, b)
    /\ booked' = booked \cup {b}
    /\ UNCHANGED <<windows, now>>

\* It is cancelled or deleted.
Cancel(b) ==
    /\ booked' = booked \ {b}
    /\ UNCHANGED <<windows, now>>

Tick ==
    /\ now + 1 \in Instants
    /\ now' = now + 1
    /\ UNCHANGED <<windows, booked>>

AvailabilityRequest ==
    \E i \in Availabilities :
        \/ \E b \in Bodies : CreateAvailability(i, b)
        \/ \E c \in Changes : UpdateAvailability(i, c)
        \/ DeleteAvailability(i)

Next ==
    \/ AvailabilityRequest
    \/ \E day \in Dates : \E b \in OfferedSlots(day) : Book(b)
    \/ \E b \in Bookings : Book(b)
    \/ \E b \in booked : Cancel(b)
    \/ Tick

Spec == Init /\ [][Next]_vars

-----------------------------------------------------------------------------
(* Properties *)

\* Staff keep the windows of a day apart (nothing in the code does).
Apart(day) ==
    \A v, w \in WindowsOn(day) : v # w => v.end <= w.start \/ w.end <= v.start

\* All that the local, minute-wise computation loses of the UTC agenda is the
\* seconds: a slot on offer that would be refused as a double booking is
\* overlapped by a booking that is over within the slot's first minute, or is
\* shorter than a minute; also around the two midnights
\* (slot_generation_service.py, get_available_slots).
OffersLoseOnlySeconds ==
    \A day \in Dates : Apart(day) =>
        \A s \in OfferedSlots(day), b \in booked :
            Overlap(s, b) => \/ b.to - s.from < TicksPerMinute
                            \/ b.to - b.from < TicksPerMinute

\* And none is lost: a place of a window's timetable that nothing booked
\* overlaps, and that has not started, is on offer.
FreeTimesAreOffered ==
    \A day \in Dates : \A w \in WindowsOn(day) : \A k \in Minutes :
        LET m == w.start + k * (w.duration + w.buffer)
            s == [from |-> ToUtc(day, m), to |-> ToUtc(day, m + w.duration)]
        IN  /\ m + w.duration <= w.end
            /\ s.from > now
            /\ \A b \in booked : ~Overlap(s, b)
            => s \in OfferedSlots(day)

\* The agenda of the staff is the two days it says, on the clocks of the office,
\* at every instant around both midnights: it prints nothing else, prints each
\* interview under its day, and misses none that holds a slot of these days back
\* (interviews_routes.py, get_agenda).
AgendaIsTwoDays ==
    \A b \in booked :
        /\ OnAgenda(b) <=> DateOf(b.from) \in {DateOf(now), DateOf(now) + 1}
        /\ OnAgenda(b) /\ AgendaDay(b) = "tomorrow" => b.from >= ToUtc(DateOf(now) + 1, 0)
        /\ OnAgenda(b) /\ AgendaDay(b) = "today" => b \in BookedOn(DateOf(now))
        /\ b \in BookedOn(DateOf(now) + 1) /\ ~OnAgenda(b) => b.from < ToUtc(DateOf(now), 0)
=============================================================================
