CONSTANTS
    p1 = p1
    s1 = s1
    s2 = s2
    s3 = s3
    v1 = v1
    c1 = c1
    c2 = c2
    r1 = r1
    r2 = r2
    Vacancies = {v1}
    Candidates = {c1, c2}
    Processes = {p1}
    Stages = {s1, s2, s3}
    StageProcess <- MCStageProcess
    StageOrder <- MCStageOrder
    StageRole <- MCStageRole
    MaxOpenings = 1
    NULL = NULL
    Unset = Unset
    Slots = {r1, r2}
    Requests <- StayingRequests
    MaxRequests = 3
    MaxFailures = 0
SPECIFICATION FairSpec
PROPERTIES
    EveryRequestEnds
    RejectedIsEventuallyTold
CHECK_DEADLOCK FALSE
