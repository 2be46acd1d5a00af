\* Two firms, orders, transactions and webhook requests; a founder, two more ids, two requests of managers;
\* a manager, a lawyer and a paralegal on a case of two documents; two workers that may die.
SPECIFICATION FirmSpec
CONSTANTS
    a1 = a1
    a2 = a2
    b1 = b1
    b2 = b2
    t1 = t1
    t2 = t2
    u1 = u1
    m = m
    l = l
    p = p
    Ids = {u1, a1, a2}
    EmailOf <- TwoAddresses
    Founders = {u1}
    Requests = {b1, b2}
    Nobody = None
    ProviderFails = TRUE
    RequestsCrash = TRUE
    Firms = {a1, a2}
    Orders = {b1, b2}
    Transactions = {t1, t2}
    Good = {t1}
    Handlers = {b1, b2}
    Nothing = None
    HandlersCrash = TRUE
    Managers = {m}
    Lawyers = {l}
    Others = {p}
    Sources = {a1, a2}
    Outputs = {t1}
    Kinds = {"document", "case", "assistant"}
    NoUser = NoUser
    CreatorInScope = TRUE
    Documents = {a1, a2}
    Workers = {b1, b2}
    MaxChunks = 2
    Confidences = {79, 80}
    Threshold = 80
    None = None
    RowInScope = TRUE
    WorkersCrash = TRUE
SYMMETRY Interchangeable
INVARIANTS
    ActiveIsPaid
    ProcessedOnce
    SubscribedIsServed
    AccountsMatchProfiles
    ManagerRemains
    ReadyIsComplete
    ChunksKeepText
    ReleasedIsApproved
    FlagInherited
PROPERTIES
    KeepsLifecycle
    ApproverEntitled
CHECK_DEADLOCK FALSE
