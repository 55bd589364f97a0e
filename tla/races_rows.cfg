CONSTANTS
    p1 = p1
    s1 = s1
    s2 = s2
    s3 = s3
    v1 = v1
    c1 = c1
    c2 = c2
    r1 = r1
    r2 = r2
    Vacancies = {v1}
    Candidates = {c1}
    Processes = {p1}
    Stages = {s1, s2, s3}
    StageProcess <- MCStageProcess
    StageOrder <- MCStageOrder
    StageRole <- MCStageRole
    MaxOpenings = 1
    NULL = NULL
    Unset = Unset
    Slots = {r1, r2}
    Requests <- AllRequests
    MaxRequests = 3
    MaxFailures = 1
SPECIFICATION Spec
INVARIANTS
    RejectionHasReason
PROPERTIES
    WithdrawnComesBackByApplying
    UntouchedColumnsSurvive
CHECK_DEADLOCK FALSE
