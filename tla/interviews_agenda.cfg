CONSTANTS
    a1 = a1
    u1 = u1
    u2 = u2
    r1 = r1
    r2 = r2
    MaxId = 2
    Applications = {a1}
    Staff = {u1, u2}
    MaxTime = 2
    OfferLife = 1
    Graph = TRUE
    Slots = {r1}
    Requests <- DayRequests
    MaxRequests = 3
    MaxTries = 2
    NULL = NULL
    Unset = Unset
SPECIFICATION FairSpec
INVARIANTS
    StandingIsInSight
PROPERTIES
    KeepsTheAgenda
    MeetingIsSent
    StoredLinkStays
