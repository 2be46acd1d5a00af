\* Ingestion by two workers, check-out by two requests, payment with two transactions.
SPECIFICATION LiveSpec
CONSTANTS
    m = m
    l = l
    s1 = s1
    s2 = s2
    f0 = f0
    f1 = f1
    firm1 = firm1
    o1 = o1
    t1 = t1
    t2 = t2
    h1 = h1
    h2 = h2
    w1 = w1
    w2 = w2
    d1 = d1
    d2 = d2
    Documents = {d1, d2}
    Workers = {w1, w2}
    MaxChunks = 2
    Confidences = {79}
    None = None
    c1 = c1
    c2 = c2
    Gone = Gone
    Failed = Failed
    Refused = Refused
    Threshold = 80
    RowInScope = TRUE
    WorkersCrash = FALSE
PROPERTIES
    ProcessingEnds
    LocksAndRequestsEnd
    PaidIsActivated
    StatusesArrive
CHECK_DEADLOCK FALSE
