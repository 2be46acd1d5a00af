\* Two booking requests of a manager at a time.
SPECIFICATION BookingSpec
CONSTANTS
    l1 = l1
    m1 = m1
    a1 = a1
    a2 = a2
    r1 = r1
    r2 = r2
    Lawyers = {l1}
    Managers = {m1}
    Staff = {}
    CaseTeam = {}
    Callers = {m1}
    Ids = {a1, a2}
    Times = {0}
    Lengths = {1}
    Bookings = {r1, r2}
    NotSet = NotSet
    Patches <- Move
SYMMETRY Interchangeable
INVARIANT
    NoDoubleBooking
CHECK_DEADLOCK FALSE
