CONSTANTS
    t1 = t1
    t2 = t2
    t3 = t3
    Slots = {t1, t2, t3}
    AccessTTL = 2
    RefreshTTL = 3
    Skew = 1
    LinkTTL = 2
    MaxLinks = 1
    MaxFailures = 3
    Window = 2
    Lockout = 2
    Parallel = 2
    MaxBreaks = 1
SPECIFICATION SessionsSpec
INVARIANTS
    EndedStaysEnded
    OneTokenPerLogin
    LinksWorkOnce
    GuessesAreFew
SYMMETRY Symmetry
CONSTRAINT Focus
