\* One invoice, two lawyers, three folders of two cases, two documents and two contacts.
SPECIFICATION PracticeSpec
CONSTANTS
    r1 = r1
    r2 = r2
    m1 = m1
    c1 = c1
    c2 = c2
    n1 = n1
    n2 = n2
    Root = Root
    Keep = Keep
    NoFolder = NoFolder
    Invoices = {i1}
    Requests = {r1, r2}
    Lawyers = {r1, r2}
    Managers = {m1}
    Staff = {}
    CaseTeam = {}
    Callers = {m1}
    Ids = {c1, c2}
    Times = {0, 1, 2}
    Lengths = {1, 2}
    Patches <- OneField
    Bookings = {n1, n2}
    Folders = {f1, f2, f3}
    Cases = {c1, c2}
    Names = {n1, n2}
    Filings = {r1, r2}
    Documents = {r1, r2}
    Contacts = {c1, c2}
    Sharings = {n1, n2}
    Prices = {50}
    MaxLines = 2
    Rates = {0, 10}
    Discounts = {0, 20}
    Amounts = {40, 100}
    MaxPaid = 140
    None = None
    NotSet = NotSet
    Assignees = {u1}
    Partners = {u2}
    Deadlines = {d}
    Tasks = {t}
    Suggestions = {d}
    LeadPoints = {0, 1}
    EscalationDays = 1
    LastDay = 2
    MaxChanges = 2
    Passes = {r1, r2}
    NoDate = NoDate
    d = d
    Hearings = {n1, n2}
    Leads = {0, 1}
    LastHearingDay = 2
    MaxEdits = 3
    NoHearing = NoHearing
    RequestsCrash = TRUE
SYMMETRY Interchangeable
INVARIANTS
    PaidIsCovered
    NoOtherDoubleBooking
    Forest
    NeverSharedWhileConfidential
    LogKeepsUp
    InertUntilConfirmed
PROPERTIES
    StatusFollows
    HandledOnce
    RemindedOnce
CHECK_DEADLOCK FALSE
