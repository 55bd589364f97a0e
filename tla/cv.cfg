CONSTANTS
    c1 = c1
    c2 = c2
    Cvs = {c1, c2}
    Size <- Sizes
    MaxSize = 1
    MaxCount = 1
    MaxTotal = 1
    Uploaders = 2
    Slots = {1, 2}
    MaxTries = 2
    NULL = NULL
    Unset = Unset
SPECIFICATION CvFairSpec
INVARIANTS
    QuotaHolds
    AnswersAreOfLinkedCvs
PROPERTIES
    WithdrawnKeepsItsScore
    TasksEnd
