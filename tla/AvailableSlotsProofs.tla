------------------------ MODULE AvailableSlotsProofs ------------------------
(***************************************************************************)
(* For any length of a day and of a minute, any offset from UTC and any    *)
(* availability: the slots on offer are the places that the bookings leave *)
(* free, and the agenda of the staff is the two days it says.              *)
(***************************************************************************)
EXTENDS AvailableSlots, TLAPS

-----------------------------------------------------------------------------
(* Division: a quotient is known by the multiples around it *)

LEMMA Division ==
    ASSUME NEW a \in Int, NEW d \in Nat \ {0}
    PROVE  /\ a \div d \in Int /\ a % d \in 0..(d - 1)
           /\ a = (a \div d) * d + (a % d)
  OBVIOUS

LEMMA QuotientBelow ==
    ASSUME NEW a \in Int, NEW d \in Nat \ {0}, NEW q \in Int
    PROVE  a \div d < q <=> a < q * d
  OBVIOUS

LEMMA Multiple ==
    ASSUME NEW k \in Int, NEW d \in Nat \ {0}
    PROVE  (k * d) % d = 0
  OBVIOUS

LEMMA Scaled ==
    ASSUME NEW p \in Int, NEW q \in Int, NEW d \in Nat \ {0}
    PROVE  /\ p * d \in Int
           /\ p < q <=> p * d < q * d
           /\ p <= q <=> p * d <= q * d
           /\ (p + 1) * d = p * d + d
           /\ (p + q) * d = p * d + q * d
           /\ (p - q) * d = p * d - q * d
           /\ p >= 0 => p * d >= 0
  OBVIOUS

-----------------------------------------------------------------------------
(* Clocks *)

Ticks(m) == m * TicksPerMinute
Midnight(day) == ToUtc(day, 0)

LEMMA MinuteTicks ==
    ASSUME NEW p \in Int, NEW q \in Int
    PROVE  /\ Ticks(p) \in Int
           /\ p < q <=> Ticks(p) < Ticks(q)
           /\ Ticks(p + 1) = Ticks(p) + TicksPerMinute
           /\ Ticks(p + q) = Ticks(p) + Ticks(q)
           /\ p >= 0 => Ticks(p) >= 0
  BY SlotAssumption, Scaled DEF Ticks

LEMMA TicksOrder ==
    ASSUME NEW p \in Int, NEW q \in Int
    PROVE  /\ Ticks(p) \in Int /\ Ticks(q) \in Int
           /\ p < q <=> Ticks(p) < Ticks(q)
           /\ p >= 0 => Ticks(p) >= 0
  BY MinuteTicks

LEMMA DayLength ==
    /\ DayTicks \in Nat \ {0} /\ TicksPerMinute \in Nat \ {0} /\ MinutesPerDay \in Nat \ {0}
    /\ DayTicks = Ticks(MinutesPerDay) /\ Ticks(0) = 0
    /\ Offset \in Nat /\ Ticks(Offset) \in Nat
<1>1. /\ TicksPerMinute \in Nat \ {0} /\ MinutesPerDay \in Nat \ {0} /\ Offset \in Nat
      /\ DayTicks = MinutesPerDay * TicksPerMinute
  BY SlotAssumption DEF Minutes, DayTicks
<1>2. DayTicks \in Nat \ {0}
  BY <1>1
<1>3. Ticks(Offset) \in Nat
  BY <1>1 DEF Ticks
<1>. QED BY <1>1, <1>2, <1>3 DEF Ticks

\* Whole days, from the UTC midnight that instants are counted from.
DayStart(day) == day * DayTicks

LEMMA DayStarts ==
    ASSUME NEW day \in Int
    PROVE  /\ DayStart(day) \in Int
           /\ DayStart(day + 1) = DayStart(day) + DayTicks
           /\ day >= 0 => DayStart(day) >= 0
  BY DayLength, Scaled DEF DayStart

LEMMA Midnights ==
    ASSUME NEW day \in Int
    PROVE  /\ Midnight(day) \in Int
           /\ Midnight(day) = DayStart(day) + Ticks(Offset)
           /\ Midnight(day + 1) = Midnight(day) + DayTicks
           /\ day >= 0 => Midnight(day) >= 0
<1>1. \A d \in Int : Midnight(d) = DayStart(d) + Ticks(Offset)
  BY DayLength DEF Midnight, ToUtc, Ticks, DayStart
<1>2. day + 1 \in Int
  OBVIOUS
<1>. QED BY <1>1, <1>2, DayStarts, DayLength

\* A minute of a day, from its local midnight.
LEMMA OnTheClock ==
    ASSUME NEW day \in Int, NEW m \in Int
    PROVE  ToUtc(day, m) = Midnight(day) + Ticks(m)
<1>1. ToUtc(day, m) = DayStart(day) + Ticks(m + Offset)
  BY DEF ToUtc, Ticks, DayStart
<1>2. Ticks(m + Offset) = Ticks(m) + Ticks(Offset)
  BY DayLength, MinuteTicks
<1>3. Ticks(m) \in Int
  BY MinuteTicks
<1>. QED BY <1>1, <1>2, <1>3, DayStarts, DayLength, Midnights

\* The date of an instant is the day between whose midnights it lies.
LEMMA DateBelow ==
    ASSUME NEW t \in Int, NEW day \in Int
    PROVE  /\ DateOf(t) \in Int
           /\ DateOf(t) < day <=> t < Midnight(day)
<1>1. Local(t) \in Int /\ Local(t) = t - Ticks(Offset)
  BY DayLength DEF Local, Ticks
<1>2. DateOf(t) \in Int /\ (DateOf(t) < day <=> Local(t) < DayStart(day))
  BY <1>1, DayLength, Division, QuotientBelow DEF DateOf, DayStart
<1>. QED BY <1>1, <1>2, DayStarts, DayLength, Midnights

LEMMA DateIs ==
    ASSUME NEW t \in Int, NEW day \in Int
    PROVE  /\ DateOf(t) <= day <=> t < Midnight(day) + DayTicks
           /\ DateOf(t) = day <=> Midnight(day) <= t /\ t < Midnight(day) + DayTicks
           /\ DateOf(t) = day => TimeOf(t) = t - Midnight(day)
<1>1. /\ DayTicks \in Int /\ Midnight(day) \in Int
      /\ Midnight(day + 1) = Midnight(day) + DayTicks
  BY DayLength, Midnights
<1>2. /\ DateOf(t) \in Int
      /\ DateOf(t) < day <=> t < Midnight(day)
      /\ DateOf(t) < day + 1 <=> t < Midnight(day + 1)
  BY DateBelow
<1>3. DateOf(t) = day => TimeOf(t) = t - Midnight(day)
  <2>1. Local(t) \in Int /\ Local(t) = t - Ticks(Offset)
    BY DayLength DEF Local, Ticks
  <2>2. Local(t) = DayStart(DateOf(t)) + TimeOf(t) /\ TimeOf(t) \in Int
    <3>1. /\ Local(t) = (Local(t) \div DayTicks) * DayTicks + (Local(t) % DayTicks)
          /\ Local(t) % DayTicks \in 0..(DayTicks - 1)
      BY <2>1, DayLength, Division
    <3>. QED BY <1>1, <3>1 DEF TimeOf, DateOf, DayStart
  <2>. QED BY <2>1, <2>2, DayStarts, DayLength, Midnights
<1>. QED BY <1>1, <1>2, <1>3

LEMMA MinuteBelow ==
    ASSUME NEW time \in Int, NEW m \in Int
    PROVE  /\ ToMin(time) \in Int
           /\ ToMin(time) < m <=> time < Ticks(m)
  BY DayLength, Division, QuotientBelow DEF ToMin, Ticks

-----------------------------------------------------------------------------
(* Types *)

\* Bookings end after they begin.
Lasting == \A b \in booked : b.from < b.to

SlotsInv == TypeOK /\ Lasting

LEMMA WindowsTyped ==
    ASSUME TypeOK, NEW day \in Dates, NEW w \in WindowsOn(day)
    PROVE  w \in Window /\ w.day = day /\ IsActive(w)
  BY DEF TypeOK, WindowsOn

LEMMA PlaceTyped ==
    ASSUME NEW day \in Dates, NEW m \in Nat, NEW e \in Nat, m < e
    PROVE  ToUtc(day, m) \in Nat /\ ToUtc(day, e) \in Nat /\ ToUtc(day, m) < ToUtc(day, e)
<1>1. day \in Nat
  BY SlotAssumption DEF Dates
<1>2. ToUtc(day, m) = Midnight(day) + Ticks(m) /\ ToUtc(day, e) = Midnight(day) + Ticks(e)
  BY <1>1, OnTheClock
<1>3. Midnight(day) \in Nat
  BY <1>1, Midnights
<1>4. Ticks(m) \in Nat /\ Ticks(e) \in Nat /\ Ticks(m) < Ticks(e)
  BY MinuteTicks
<1>. QED BY <1>2, <1>3, <1>4

\* What is offered lies after UTC midnight of the first day, and lasts.
LEMMA OfferedTyped ==
    ASSUME TypeOK, NEW day \in Dates, NEW s \in OfferedSlots(day)
    PROVE  \E w \in WindowsOn(day), m \in FreeStarts(day) :
              /\ m \in Minutes /\ w.start <= m /\ m < w.end
              /\ s = [from |-> ToUtc(day, m), to |-> ToUtc(day, m + w.duration)]
              /\ s \in Interval /\ s.from < s.to
<1>1. PICK m \in FreeStarts(day), w \in WindowsOn(day) :
         /\ w.start <= m /\ m < w.end
         /\ s = [from |-> ToUtc(day, m), to |-> ToUtc(day, m + w.duration)]
  BY DEF OfferedSlots
<1>2. w \in Window /\ w.duration \in Minutes \ {0} /\ w.end \in Minutes /\ w.start \in Minutes
  BY WindowsTyped DEF Window
<1>3. PICK x \in WindowsOn(day) : m \in x.start..x.end
  BY DEF FreeStarts, FreeMinutes
<1>4. x.start \in Minutes /\ x.end \in Minutes
  BY WindowsTyped DEF Window
<1>5. m \in Minutes
  BY <1>3, <1>4, SlotAssumption DEF Minutes
<1>6. m \in Nat /\ w.duration \in Nat /\ w.duration > 0
  BY <1>2, <1>5, SlotAssumption DEF Minutes
<1>7. m + w.duration \in Nat /\ m < m + w.duration
  BY <1>6
<1>8. /\ ToUtc(day, m) \in Nat /\ ToUtc(day, m + w.duration) \in Nat
      /\ ToUtc(day, m) < ToUtc(day, m + w.duration)
  BY <1>6, <1>7, PlaceTyped
<1>9. s \in Interval /\ s.from < s.to
  BY <1>1, <1>8 DEF Interval
<1>. QED BY <1>1, <1>5, <1>9

LEMMA OrKeeps ==
    ASSUME NEW S, NEW x \in S \cup {Unset}, NEW y \in S
    PROVE  OrKeep(x, y) \in S
  BY DEF OrKeep

LEMMA InitSlots == Init => SlotsInv
<1>1. 0 \in Dates /\ 0 \in Minutes /\ 1 \in Minutes
  BY SlotAssumption DEF Dates, Minutes
<1>2. NoWindow \in Window
  BY <1>1 DEF NoWindow, Window, RowState
<1>3. 0 \in Instants
  <2>1. DateOf(0) \in Int /\ Days * DayTicks \in Nat /\ Offset * TicksPerMinute \in Nat
    BY DayLength, DateBelow, SlotAssumption DEF Ticks
  <2>. QED BY <2>1 DEF Instants
<1>. QED BY <1>2, <1>3 DEF Init, SlotsInv, TypeOK, Lasting

LEMMA AvailabilitySlots ==
    ASSUME SlotsInv, AvailabilityRequest
    PROVE  SlotsInv'
<1>1. windows' \in [Availabilities -> Window]
  <2>1. PICK i \in Availabilities : \/ \E b \in Bodies : CreateAvailability(i, b)
                                    \/ \E c \in Changes : UpdateAvailability(i, c)
                                    \/ DeleteAvailability(i)
    BY DEF AvailabilityRequest
  <2>2. windows \in [Availabilities -> Window] /\ windows[i] \in Window
    BY DEF SlotsInv, TypeOK
  <2>3. CASE \E b \in Bodies : CreateAvailability(i, b)
    <3>1. PICK b \in Bodies : CreateAvailability(i, b)
      BY <2>3
    <3>2. b \in Fields
      BY SlotAssumption
    <3>3. [row |-> "active", day |-> b.day, start |-> b.start, end |-> b.end,
           duration |-> b.duration, buffer |-> b.buffer] \in Window
      BY <3>2 DEF Fields, Window, RowState
    <3>. QED BY <2>2, <3>1, <3>3 DEF CreateAvailability
  <2>4. CASE \E c \in Changes : UpdateAvailability(i, c)
    <3>1. PICK c \in Changes : UpdateAvailability(i, c)
      BY <2>4
    <3>2. c \in Change
      BY SlotAssumption
    <3>3. Patched(windows[i], c) \in Window
      BY <2>2, <3>2 DEF Patched, Change, Window, OrKeep
    <3>. QED BY <2>2, <3>1, <3>3 DEF UpdateAvailability
  <2>5. CASE DeleteAvailability(i)
    BY <2>2, <2>5 DEF DeleteAvailability, Window, RowState
  <2>. QED BY <2>1, <2>3, <2>4, <2>5
<1>2. UNCHANGED <<booked, now>>
  BY DEF AvailabilityRequest, CreateAvailability, UpdateAvailability, DeleteAvailability
<1>. QED BY <1>1, <1>2 DEF SlotsInv, TypeOK, Lasting

LEMMA NextSlots == SlotsInv /\ [Next]_vars => SlotsInv'
<1> SUFFICES ASSUME SlotsInv, [Next]_vars PROVE SlotsInv'
  OBVIOUS
<1>1. CASE AvailabilityRequest
  BY <1>1, AvailabilitySlots
<1>2. ASSUME NEW b \in Interval, b.from < b.to, Book(b)
      PROVE  SlotsInv'
  BY <1>2 DEF Book, SlotsInv, TypeOK, Lasting
<1>3. CASE \E day \in Dates : \E b \in OfferedSlots(day) : Book(b)
  <2>0. PICK day \in Dates : \E b \in OfferedSlots(day) : Book(b)
    BY <1>3
  <2>1. PICK b \in OfferedSlots(day) : Book(b)
    BY <2>0
  <2>2. b \in Interval /\ b.from < b.to
    BY OfferedTyped DEF SlotsInv
  <2>. QED BY <1>2, <2>1, <2>2
<1>4. CASE \E b \in Bookings : Book(b)
  BY <1>2, <1>4, SlotAssumption
<1>5. CASE \E b \in booked : Cancel(b)
  BY <1>5 DEF Cancel, SlotsInv, TypeOK, Lasting
<1>6. CASE Tick
  BY <1>6 DEF Tick, SlotsInv, TypeOK, Lasting
<1>7. CASE UNCHANGED vars
  BY <1>7 DEF vars, SlotsInv, TypeOK, Lasting
<1>. QED BY <1>1, <1>3, <1>4, <1>5, <1>6, <1>7 DEF Next

LEMMA SlotsInvariant == Spec => []SlotsInv
  BY InitSlots, NextSlots, PTL DEF Spec

\* Windows, bookings and the clock keep their types, also when
\* windows overlap and what is offered runs past the window it begins in
\* (interviewer_availability, interviews).
THEOREM SlotsTypeCorrect == Spec => []TypeOK
  BY SlotsInvariant, PTL DEF SlotsInv

-----------------------------------------------------------------------------
(* The agenda is two days *)

LEMMA AgendaInState == SlotsInv => AgendaIsTwoDays
<1> SUFFICES ASSUME SlotsInv, NEW b \in booked
             PROVE  /\ OnAgenda(b) <=> DateOf(b.from) \in {DateOf(now), DateOf(now) + 1}
                    /\ OnAgenda(b) /\ AgendaDay(b) = "tomorrow" => b.from >= ToUtc(DateOf(now) + 1, 0)
                    /\ OnAgenda(b) /\ AgendaDay(b) = "today" => b \in BookedOn(DateOf(now))
                    /\ b \in BookedOn(DateOf(now) + 1) /\ ~OnAgenda(b) =>
                          b.from < ToUtc(DateOf(now), 0)
  BY DEF AgendaIsTwoDays
<1>1. b.from \in Int /\ b.to \in Int /\ b.from < b.to /\ now \in Int
  BY DayLength DEF SlotsInv, TypeOK, Lasting, Interval, Instants
<1>. DEFINE d == DateOf(now)
<1>2. d \in Int
  BY <1>1, DateBelow
<1>. HIDE DEF d
<1>3. /\ DayTicks \in Int /\ DayTicks > 0 /\ Midnight(d) \in Int
      /\ Midnight(d + 1) = Midnight(d) + DayTicks
      /\ Midnight(d + 2) = Midnight(d + 1) + DayTicks
  <2>1. d + 1 \in Int /\ (d + 1) + 1 = d + 2
    BY <1>2
  <2>. QED BY <1>2, <2>1, DayLength, Midnights
<1>4. /\ DateOf(b.from) \in Int
      /\ DateOf(b.from) < d <=> b.from < Midnight(d)
      /\ DateOf(b.from) < d + 1 <=> b.from < Midnight(d + 1)
      /\ DateOf(b.from) < d + 2 <=> b.from < Midnight(d + 2)
  BY <1>1, <1>2, DateBelow
<1>5. OnAgenda(b) <=> Midnight(d) <= b.from /\ b.from < Midnight(d + 2)
  BY DEF OnAgenda, AgendaBounds, Midnight, d
<1>6. AgendaDay(b) = "today" <=> DateOf(b.from) = d
  BY DEF AgendaDay, d
<1>7. AgendaDay(b) = "tomorrow" <=> DateOf(b.from) # d
  BY DEF AgendaDay, d
<1>8. /\ b \in BookedOn(d) <=> b.from < Midnight(d + 1) /\ b.to > Midnight(d)
      /\ b \in BookedOn(d + 1) => b.from < Midnight(d + 2)
  <2>1. (d + 1) + 1 = d + 2
    BY <1>2
  <2>. QED BY <2>1 DEF BookedOn, Midnight
<1>9. OnAgenda(b) <=> DateOf(b.from) \in {d, d + 1}
  BY <1>1, <1>2, <1>3, <1>4, <1>5
<1>10. OnAgenda(b) /\ AgendaDay(b) = "tomorrow" => b.from >= Midnight(d + 1)
  BY <1>1, <1>2, <1>3, <1>4, <1>5, <1>7
<1>11. OnAgenda(b) /\ AgendaDay(b) = "today" => b \in BookedOn(d)
  BY <1>1, <1>2, <1>3, <1>4, <1>5, <1>6, <1>8
<1>12. b \in BookedOn(d + 1) /\ ~OnAgenda(b) => b.from < Midnight(d)
  BY <1>1, <1>3, <1>5, <1>8
<1>. QED BY <1>9, <1>10, <1>11, <1>12 DEF d, Midnight

\* The agenda lists exactly what begins today or tomorrow on the clocks of the
\* office, under its day, and misses nothing that takes a place of these days
\* unless it began before them, for any length of a day and any offset from UTC
\* (interviews_routes.py, get_agenda).
THEOREM AgendasAreTwoDays == Spec => []AgendaIsTwoDays
  BY SlotsInvariant, AgendaInState, PTL

-----------------------------------------------------------------------------
(* Slots and bookings *)

Place(day, m, e) == [from |-> ToUtc(day, m), to |-> ToUtc(day, e)]

\* A booking in local time, cut at the midnights of the day.
Cut(b, day) ==
    [from |-> IF DateOf(b.from) = day THEN TimeOf(b.from) ELSE 0,
     to |-> IF DateOf(b.to) = day THEN TimeOf(b.to) ELSE DayTicks - 1]

Touches(b, day) == b \in BookedOn(day) /\ DateOf(b.from) <= day /\ day <= DateOf(b.to)

LEMMA CutTimes ==
    ASSUME NEW day \in Dates
    PROVE  BookedTimes(day) =
              {t \in {Cut(b, day) : b \in {x \in booked : Touches(x, day)}} : t.from < t.to}
  BY DEF BookedTimes, Cut, Touches, BookedOn

\* What the cut keeps of a booking.
LEMMA CutFields ==
    ASSUME SlotsInv, NEW day \in Dates, NEW b \in booked,
           DateOf(b.from) <= day, day <= DateOf(b.to)
    PROVE  /\ b.from \in Int /\ b.to \in Int /\ b.from < b.to /\ Midnight(day) \in Int
           /\ b.from < Midnight(day) + DayTicks /\ b.to >= Midnight(day)
           /\ Cut(b, day).from \in Int /\ Cut(b, day).to \in Int
           /\ Cut(b, day).from =
                 IF b.from >= Midnight(day) THEN b.from - Midnight(day) ELSE 0
           /\ Cut(b, day).to = IF b.to < Midnight(day) + DayTicks THEN b.to - Midnight(day)
                                                                  ELSE DayTicks - 1
<1>1. b.from \in Int /\ b.to \in Int /\ b.from < b.to /\ day \in Int
  BY SlotAssumption DEF SlotsInv, TypeOK, Lasting, Interval, Dates
<1>2. Midnight(day) \in Int /\ DayTicks \in Int
  BY <1>1, Midnights, DayLength
<1>3. /\ DateOf(b.from) \in Int /\ DateOf(b.to) \in Int
      /\ DateOf(b.from) < day <=> b.from < Midnight(day)
      /\ DateOf(b.to) < day <=> b.to < Midnight(day)
  BY <1>1, DateBelow
<1>4. /\ DateOf(b.from) <= day <=> b.from < Midnight(day) + DayTicks
      /\ DateOf(b.from) = day => TimeOf(b.from) = b.from - Midnight(day)
      /\ DateOf(b.to) <= day <=> b.to < Midnight(day) + DayTicks
      /\ DateOf(b.to) = day => TimeOf(b.to) = b.to - Midnight(day)
  BY <1>1, DateIs
<1>5. /\ Cut(b, day).from = IF DateOf(b.from) = day THEN TimeOf(b.from) ELSE 0
      /\ Cut(b, day).to = IF DateOf(b.to) = day THEN TimeOf(b.to) ELSE DayTicks - 1
  BY DEF Cut
<1>6. /\ DateOf(b.from) = day <=> b.from >= Midnight(day)
      /\ DateOf(b.to) = day <=> b.to < Midnight(day) + DayTicks
  BY <1>1, <1>2, <1>3, <1>4
<1>7. b.from < Midnight(day) + DayTicks /\ b.to >= Midnight(day)
  BY <1>1, <1>2, <1>3, <1>4
<1>. QED BY <1>1, <1>2, <1>4, <1>5, <1>6, <1>7

LEMMA PlaceFields ==
    ASSUME NEW day \in Dates, NEW m \in Nat, NEW e \in Nat, m < e, e < MinutesPerDay
    PROVE  /\ Place(day, m, e).from = Midnight(day) + Ticks(m)
           /\ Place(day, m, e).to = Midnight(day) + Ticks(e)
           /\ Midnight(day) \in Int /\ Ticks(m) \in Int /\ Ticks(e) \in Int
           /\ 0 <= Ticks(m) /\ Ticks(m) < Ticks(e) /\ Ticks(e) < DayTicks
<1>1. day \in Int /\ MinutesPerDay \in Int
  BY SlotAssumption DEF Dates
<1>2. /\ Place(day, m, e).from = Midnight(day) + Ticks(m)
      /\ Place(day, m, e).to = Midnight(day) + Ticks(e)
  BY <1>1, OnTheClock DEF Place
<1>3. /\ Ticks(m) \in Int /\ Ticks(e) \in Int /\ 0 <= Ticks(m) /\ Ticks(m) < Ticks(e)
      /\ Ticks(e) < Ticks(MinutesPerDay)
  BY <1>1, TicksOrder
<1>. QED BY <1>1, <1>2, <1>3, DayLength, Midnights

\* What blocks a place overlaps it.
LEMMA BlockedIsOverlapped ==
    ASSUME SlotsInv, NEW day \in Dates, NEW b \in booked,
           DateOf(b.from) <= day, day <= DateOf(b.to),
           NEW m \in Nat, NEW n \in Nat, NEW e \in Nat, e = m + n, m < e, e < MinutesPerDay,
           Blocks(Cut(b, day), m, n)
    PROVE  Overlap(Place(day, m, e), b)
<1>. DEFINE t == Cut(b, day)
<1>1. /\ b.from \in Int /\ b.to \in Int /\ b.from < b.to /\ Midnight(day) \in Int
      /\ b.from < Midnight(day) + DayTicks /\ b.to >= Midnight(day)
      /\ t.from \in Int /\ t.to \in Int
      /\ t.from = IF b.from >= Midnight(day) THEN b.from - Midnight(day) ELSE 0
      /\ t.to = IF b.to < Midnight(day) + DayTicks THEN b.to - Midnight(day) ELSE DayTicks - 1
  BY CutFields
<1>2. m < ToMin(t.to) /\ ToMin(t.from) < e
  BY DEF Blocks
<1>. HIDE DEF t
<1>3. /\ Place(day, m, e).from = Midnight(day) + Ticks(m)
      /\ Place(day, m, e).to = Midnight(day) + Ticks(e)
      /\ Ticks(m) \in Int /\ Ticks(e) \in Int
      /\ 0 <= Ticks(m) /\ Ticks(m) < Ticks(e) /\ Ticks(e) < DayTicks
  BY PlaceFields
<1>4. t.to > Ticks(m)
  <2>1. m + 1 \in Int /\ ToMin(t.to) \in Int /\ ~(ToMin(t.to) < m + 1)
    BY <1>1, <1>2, MinuteBelow
  <2>2. ~(t.to < Ticks(m + 1))
    BY <1>1, <2>1, MinuteBelow
  <2>3. Ticks(m + 1) = Ticks(m) + TicksPerMinute
    BY MinuteTicks
  <2>. QED BY <1>1, <1>3, <2>2, <2>3, DayLength
<1>5. t.from < Ticks(e)
  BY <1>1, <1>2, MinuteBelow
<1>6. b.to > Midnight(day) + Ticks(m)
  BY <1>1, <1>3, <1>4, DayLength
<1>7. b.from < Midnight(day) + Ticks(e)
  BY <1>1, <1>3, <1>5, DayLength
<1>. QED BY <1>3, <1>6, <1>7 DEF Overlap

\* A place of a window's timetable that nothing overlaps is on offer.
LEMMA FreePlaceIsOffered ==
    ASSUME SlotsInv, NEW day \in Dates, NEW w \in WindowsOn(day), NEW m \in Nat,
           w.start <= m, (m - w.start) % (w.duration + w.buffer) = 0,
           m + w.duration <= w.end, ToUtc(day, m) > now,
           \A b \in booked : ~Overlap(Place(day, m, m + w.duration), b)
    PROVE  Place(day, m, m + w.duration) \in OfferedSlots(day)
<1>1. /\ w.start \in Nat /\ w.end \in Nat /\ w.duration \in Nat /\ w.duration > 0
      /\ w.end < MinutesPerDay /\ MinutesPerDay \in Nat
  BY WindowsTyped, SlotAssumption DEF SlotsInv, Window, Minutes
<1>. DEFINE e == m + w.duration
<1>2. e \in Nat /\ m < e /\ e < MinutesPerDay /\ m < w.end /\ m \in w.start..w.end
  BY <1>1
<1>3. \A t \in BookedTimes(day) : ~Blocks(t, m, w.duration)
  <2>. SUFFICES ASSUME NEW b \in booked, Touches(b, day), Blocks(Cut(b, day), m, w.duration)
                PROVE  FALSE
    BY CutTimes
  <2>1. Overlap(Place(day, m, e), b)
    BY <1>1, <1>2, BlockedIsOverlapped DEF Touches
  <2>. QED BY <2>1
<1>4. m \in FreeMinutes(w, BookedTimes(day))
  BY <1>2, <1>3 DEF FreeMinutes
<1>5. m \in FreeStarts(day)
  BY <1>4 DEF FreeStarts
<1>. QED BY <1>2, <1>5 DEF OfferedSlots, Place

LEMMA FreeInState == SlotsInv => FreeTimesAreOffered
<1> SUFFICES ASSUME SlotsInv, NEW day \in Dates, NEW w \in WindowsOn(day), NEW k \in Minutes
             PROVE  LET m == w.start + k * (w.duration + w.buffer)
                        s == [from |-> ToUtc(day, m), to |-> ToUtc(day, m + w.duration)]
                    IN  /\ m + w.duration <= w.end
                        /\ s.from > now
                        /\ \A b \in booked : ~Overlap(s, b)
                        => s \in OfferedSlots(day)
  BY DEF FreeTimesAreOffered
<1>1. /\ w.start \in Nat /\ w.duration \in Nat /\ w.duration > 0 /\ w.buffer \in Nat /\ k \in Nat
      /\ w.duration + w.buffer \in Nat \ {0}
  BY WindowsTyped, SlotAssumption DEF SlotsInv, Window, Minutes
<1>. DEFINE m == w.start + k * (w.duration + w.buffer)
<1>2. k * (w.duration + w.buffer) \in Nat
  BY <1>1
<1>3. m \in Nat /\ w.start <= m /\ m - w.start = k * (w.duration + w.buffer)
  BY <1>1, <1>2
<1>. HIDE DEF m
<1>4. (m - w.start) % (w.duration + w.buffer) = 0
  <2>1. (k * (w.duration + w.buffer)) % (w.duration + w.buffer) = 0
    BY <1>1, Multiple
  <2>. QED BY <1>3, <2>1
<1>. SUFFICES ASSUME m + w.duration <= w.end, ToUtc(day, m) > now,
                     \A b \in booked : ~Overlap(Place(day, m, m + w.duration), b)
              PROVE  Place(day, m, m + w.duration) \in OfferedSlots(day)
  BY DEF m, Place
<1>. QED BY <1>3, <1>4, FreePlaceIsOffered

\* No place of an availability window is lost to a booking that does not
\* overlap it, for any windows and bookings, to the second, around both
\* midnights (slot_generation_service.py, generate_slots_for_window).
THEOREM FreePlacesAreOffered == Spec => []FreeTimesAreOffered
  BY SlotsInvariant, FreeInState, PTL

-----------------------------------------------------------------------------
(* What the slots on offer lose of the bookings *)

\* A booking that lasts a minute and overlaps a place of the day past its first
\* one is found by the query and blocks it.
LEMMA OverlapIsBlocked ==
    ASSUME SlotsInv, NEW day \in Dates, NEW b \in booked,
           NEW m \in Nat, NEW n \in Nat, NEW e \in Nat, e = m + n, m < e, e < MinutesPerDay,
           Overlap(Place(day, m, e), b),
           b.to - Place(day, m, e).from >= TicksPerMinute, b.to - b.from >= TicksPerMinute
    PROVE  /\ Touches(b, day)
           /\ Cut(b, day).from < Cut(b, day).to
           /\ Blocks(Cut(b, day), m, n)
<1>. DEFINE t == Cut(b, day)
<1>1. /\ Place(day, m, e).from = Midnight(day) + Ticks(m)
      /\ Place(day, m, e).to = Midnight(day) + Ticks(e)
      /\ Midnight(day) \in Int /\ Ticks(m) \in Int /\ Ticks(e) \in Int
      /\ 0 <= Ticks(m) /\ Ticks(m) < Ticks(e) /\ Ticks(e) < DayTicks
  BY PlaceFields
<1>2. /\ b.from \in Int /\ b.to \in Int /\ b.from < b.to /\ day \in Int
      /\ DayTicks \in Int /\ TicksPerMinute \in Int /\ TicksPerMinute > 0
      /\ MinutesPerDay \in Int
  BY SlotAssumption, DayLength DEF SlotsInv, TypeOK, Lasting, Interval, Dates
<1>3. b.to > Midnight(day) + Ticks(m) /\ b.from < Midnight(day) + Ticks(e)
  BY <1>1 DEF Overlap
<1>4. b.to > Midnight(day) /\ b.from < Midnight(day) + DayTicks
  BY <1>1, <1>2, <1>3
<1>5. Touches(b, day)
  <2>1. b \in BookedOn(day)
    BY <1>2, <1>4, Midnights DEF BookedOn, Midnight
  <2>2. DateOf(b.from) <= day
    BY <1>2, <1>4, DateIs
  <2>3. day <= DateOf(b.to)
    BY <1>1, <1>2, <1>4, DateBelow
  <2>. QED BY <2>1, <2>2, <2>3 DEF Touches
<1>6. /\ t.from \in Int /\ t.to \in Int
      /\ t.from = IF b.from >= Midnight(day) THEN b.from - Midnight(day) ELSE 0
      /\ t.to = IF b.to < Midnight(day) + DayTicks THEN b.to - Midnight(day) ELSE DayTicks - 1
  BY <1>5, CutFields DEF Touches
<1>. HIDE DEF t
<1>7. t.from < Ticks(e)
  BY <1>1, <1>2, <1>3, <1>6
\* The cut ends at least a minute after it begins, or with the last tick of the day.
<1>8. CASE b.to < Midnight(day) + DayTicks
  <2>1. t.to = b.to - Midnight(day)
    BY <1>6, <1>8
  <2>2. t.to >= Ticks(m) + TicksPerMinute
    BY <1>1, <1>2, <2>1
  <2>3. t.to - t.from >= TicksPerMinute
    BY <1>1, <1>2, <1>6, <2>1, <2>2
  <2>4. m + 1 \in Int /\ Ticks(m + 1) = Ticks(m) + TicksPerMinute
    BY MinuteTicks
  <2>5. m < ToMin(t.to) /\ ToMin(t.to) \in Int
    <3>1. /\ ToMin(t.to) \in Int
          /\ ToMin(t.to) < m + 1 <=> t.to < Ticks(m + 1)
      BY <1>6, <2>4, MinuteBelow
    <3>. QED BY <1>1, <1>2, <1>6, <2>2, <2>4, <3>1
  <2>6. ToMin(t.from) < e /\ ToMin(t.from) \in Int
    BY <1>6, <1>7, MinuteBelow
  <2>7. ToMin(t.from) < ToMin(t.to)
    <3>. DEFINE q == ToMin(t.from)
    <3>1. q \in Int /\ q + 1 \in Int
      BY <2>6
    <3>. HIDE DEF q
    <3>2. Ticks(q + 1) = Ticks(q) + TicksPerMinute /\ Ticks(q) \in Int
      BY <3>1, MinuteTicks
    <3>3. ~(t.from < Ticks(q))
      <4>1. ToMin(t.from) < q <=> t.from < Ticks(q)
        BY <1>6, <3>1, MinuteBelow
      <4>. QED BY <3>1, <4>1 DEF q
    <3>4. ~(t.to < Ticks(q + 1))
      BY <1>2, <1>6, <2>3, <3>2, <3>3
    <3>5. ToMin(t.to) < q + 1 <=> t.to < Ticks(q + 1)
      BY <1>6, <3>1, MinuteBelow
    <3>6. q < ToMin(t.to)
      BY <2>5, <3>1, <3>4, <3>5
    <3>. QED BY <3>6 DEF q
  <2>8. t.from < t.to
    BY <1>2, <1>6, <2>3
  <2>. QED BY <1>5, <2>5, <2>6, <2>7, <2>8 DEF Blocks, t
<1>9. CASE ~(b.to < Midnight(day) + DayTicks)
  <2>1. MinutesPerDay - 1 \in Int /\ MinutesPerDay = (MinutesPerDay - 1) + 1
    BY <1>2
  <2>2. DayTicks = Ticks(MinutesPerDay - 1) + TicksPerMinute /\ Ticks(MinutesPerDay - 1) \in Int
    BY <2>1, DayLength, MinuteTicks
  <2>3. ~(t.to < Ticks(MinutesPerDay - 1))
    BY <1>2, <1>6, <1>9, <2>2
  <2>4. ToMin(t.to) \in Int /\ ToMin(t.to) >= MinutesPerDay - 1
    BY <1>6, <2>1, <2>3, MinuteBelow
  <2>5. ToMin(t.to) >= e /\ m < ToMin(t.to)
    BY <1>2, <2>4
  <2>6. ToMin(t.from) \in Int /\ ToMin(t.from) < e
    BY <1>6, <1>7, MinuteBelow
  <2>7. t.from < t.to
    <3>1. e <= MinutesPerDay - 1
      BY <1>2
    <3>2. Ticks(e) <= Ticks(MinutesPerDay - 1)
      BY <2>1, <2>2, <3>1, <1>1, TicksOrder
    <3>. QED BY <1>1, <1>2, <1>6, <1>7, <2>2, <2>3, <3>2
  <2>. QED BY <1>5, <2>4, <2>5, <2>6, <2>7 DEF Blocks, t
<1>. QED BY <1>8, <1>9

LEMMA OfferedInState == SlotsInv => OffersLoseOnlySeconds
<1> SUFFICES ASSUME SlotsInv, NEW day \in Dates, Apart(day),
                    NEW s \in OfferedSlots(day), NEW b \in booked, Overlap(s, b),
                    ~(b.to - s.from < TicksPerMinute), ~(b.to - b.from < TicksPerMinute)
             PROVE  FALSE
  BY DEF OffersLoseOnlySeconds
<1>1. PICK w \in WindowsOn(day), m \in FreeStarts(day) :
         /\ m \in Minutes /\ w.start <= m /\ m < w.end
         /\ s = [from |-> ToUtc(day, m), to |-> ToUtc(day, m + w.duration)]
  BY OfferedTyped DEF SlotsInv
<1>2. PICK x \in WindowsOn(day) : m \in FreeMinutes(x, BookedTimes(day))
  BY DEF FreeStarts
<1>3. /\ w.start \in Nat /\ w.end \in Nat /\ x.start \in Nat /\ x.end \in Nat
      /\ x.duration \in Nat /\ x.duration > 0 /\ x.end < MinutesPerDay
      /\ MinutesPerDay \in Nat /\ m \in Nat
  BY <1>1, WindowsTyped, SlotAssumption DEF SlotsInv, Window, Minutes
<1>4. /\ x.start <= m /\ m + x.duration <= x.end
      /\ \A t \in BookedTimes(day) : ~Blocks(t, m, x.duration)
  BY <1>2, <1>3 DEF FreeMinutes
<1>5. w = x
  BY <1>1, <1>3, <1>4 DEF Apart
<1>. DEFINE e == m + x.duration
<1>6. e \in Nat /\ m < e /\ e < MinutesPerDay
  BY <1>3, <1>4
<1>7. s = Place(day, m, e)
  BY <1>1, <1>5 DEF Place
<1>10. b.to - s.from >= TicksPerMinute /\ b.to - b.from >= TicksPerMinute
  <2>1. b.to \in Int /\ b.from \in Int /\ TicksPerMinute \in Int
    BY DayLength DEF SlotsInv, TypeOK, Interval
  <2>2. s.from \in Int
    BY <1>1, <1>3, <1>6, <1>7, PlaceFields
  <2>. QED BY <2>1, <2>2
<1>8. /\ Touches(b, day)
      /\ Cut(b, day).from < Cut(b, day).to
      /\ Blocks(Cut(b, day), m, x.duration)
  BY <1>3, <1>6, <1>7, <1>10, OverlapIsBlocked
<1>9. Cut(b, day) \in BookedTimes(day)
  BY <1>8, CutTimes
<1>. QED BY <1>4, <1>8, <1>9

\* A slot on offer that would be refused as a double booking is overlapped for
\* less than a minute, for any windows that staff keep apart, any offset from
\* UTC and any bookings, also over either midnight (slot_generation_service.py
\* and available_slots_service.py against _assert_no_double_booking).
THEOREM OffersLoseSeconds == Spec => []OffersLoseOnlySeconds
  BY SlotsInvariant, OfferedInState, PTL
=============================================================================
