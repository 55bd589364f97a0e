CONSTANTS
    Mirrored = {m1}
    Locals = {k1}
    Contacts = {t1}
    Processes = {p1}
    Slots = {r1, r2}
    NULL = NULL
    Unset = Unset
    MaxEdits = 3
    MaxTroubles = 1
SPECIFICATION FairSpec
INVARIANTS
    LocalClientsKeepTheirContacts
PROPERTIES
    MirrorCatchesUp
