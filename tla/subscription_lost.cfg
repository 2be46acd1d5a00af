\* A webhook request that dies after its first statement.
SPECIFICATION FairPaymentSpec
CONSTANTS
    f1 = f1
    o1 = o1
    t1 = t1
    h1 = h1
    Firms = {f1}
    Orders = {o1}
    Transactions = {t1}
    Good = {t1}
    Handlers = {h1}
    Nothing = Nothing
    HandlersCrash = TRUE
PROPERTY
    PaidIsActivated
CHECK_DEADLOCK FALSE
