CONSTANTS
    i1 = i1
    i2 = i2
    Availabilities = {i1, i2}
    Days = 2
    MinutesPerDay = 4
    TicksPerMinute = 2
    Offset = 2
    Bodies <- SomeBodies
    Changes <- SomeChanges
    Bookings <- SomeBookings
    Unset = Unset
SPECIFICATION Spec
INVARIANTS
    OffersLoseOnlySeconds
    
    AgendaIsTwoDays
SYMMETRY Symmetry
