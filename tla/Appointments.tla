------------------------------ MODULE Appointments ------------------------------
(***************************************************************************)
(* Booking and changing appointments (backend/app/api/appointments.py,     *)
(* migration 0023).                                                        *)
(*                                                                         *)
(* A request looks for an overlapping appointment of the lawyer and then   *)
(* writes, in two statements; row-level security hides appointments from   *)
(* the first that are not the caller's business.  There is no exclusion    *)
(* constraint in the database (0023:26).                                   *)
(***************************************************************************)
EXTENDS Integers

CONSTANTS
    Lawyers,     \* users who can be booked
    Managers,    \* users with role partner_manager
    Staff,       \* other users who book: paralegals, secretaries
    CaseTeam,    \* users assigned to the case appointments may be about
    Callers,     \* users who send requests
    Ids,         \* ids of rows of table appointments
    Times,       \* values of scheduled_at
    Lengths,     \* values of duration_minutes
    Patches,     \* bodies of update_appointment
    Bookings,    \* requests that may be served at the same time
    NotSet         \* no user, no id, a field a body leaves out

OfficeUsers == Lawyers \cup Managers \cup Staff

(* status: "on" is scheduled, confirmed or in_progress, "over" is          *)
(* completed or cancelled.                                                 *)
Slots == [lawyer : Lawyers, start : Times, length : Lengths, status : {"on", "over"},
          case : BOOLEAN, by : OfficeUsers]
NoSlot == [status |-> "absent"]

AllPatches ==
    [lawyer : Lawyers \cup {NotSet}, start : Times \cup {NotSet}, length : Lengths \cup {NotSet},
     status : {"on", "over", NotSet}, case : BOOLEAN \cup {NotSet}]

ASSUME TimesAssumption == Times \subseteq Int /\ Lengths \subseteq Nat
ASSUME CallersAssumption == Callers \subseteq OfficeUsers
ASSUME PatchesAssumption == Patches \subseteq AllPatches

VARIABLES
    appointment, \* id -> its row
    active,      \* users with status active
    booking,     \* request -> what it does
    raced        \* history: a request wrote what another had decided without

bookingVars == <<appointment, active, booking, raced>>

NoPatch == [lawyer |-> NotSet, start |-> NotSet, length |-> NotSet, status |-> NotSet, case |-> NotSet]
NoBooking == [step |-> "idle", by |-> NotSet, id |-> NotSet, patch |-> NoPatch, row |-> NoSlot]

BookingTypeOK ==
    /\ appointment \in [Ids -> Slots \cup {NoSlot}]
    /\ active \subseteq OfficeUsers
    /\ booking \in [Bookings ->
           {NoBooking}
           \cup [step : {"check", "insert", "update"}, by : Callers, id : Ids,
                 patch : Patches \cup {NoPatch}, row : Slots]]
    /\ raced \in BOOLEAN

BookingInit ==
    /\ appointment = [a \in Ids |-> NoSlot]
    /\ active = OfficeUsers
    /\ booking = [r \in Bookings |-> NoBooking]
    /\ raced = FALSE
-------------------------------------------------------------------------------
Exists(a) == appointment[a] # NoSlot

(* appointments_manager, appointments_staff_select and _write              *)
Sees(u, a) ==
    /\ Exists(a)
    /\ \/ u \in Managers
       \/ appointment[a].lawyer = u \/ appointment[a].by = u
       \/ appointment[a].case /\ u \in CaseTeam

(* tstzrange(...) && tstzrange(...), which leave out their ends.           *)
Overlaps(v, w) == v.start < w.start + w.length /\ w.start < v.start + v.length

Collide(v, w) ==
    v.status = "on" /\ w.status = "on" /\ v.lawyer = w.lawyer /\ Overlaps(v, w)

(* _assert_no_conflict for a row that is or will be appointment a, and is  *)
(* on: only such rows are checked.                                         *)
Clashes(u, a, row) ==
    \E b \in Ids \ {a} : Sees(u, b) /\ Collide(appointment[b], row)

Book(r, state) == booking' = [booking EXCEPT ![r] = state] /\ UNCHANGED active

SetLawyerStatus(u) ==
    /\ active' = IF u \in active THEN active \ {u} ELSE active \cup {u}
    /\ UNCHANGED <<appointment, booking, raced>>

(* create_appointment: the lawyer must be active.                          *)
BeginBooking(r, u, a, row) ==
    /\ booking[r] = NoBooking
    /\ appointment[a] = NoSlot /\ \A q \in Bookings : booking[q].id # a
    /\ row.lawyer \in active /\ row.status = "on" /\ row.by = u
    /\ Book(r, [step |-> "check", by |-> u, id |-> a, patch |-> NoPatch, row |-> row])
    /\ UNCHANGED <<appointment, raced>>

(* Mutant: a change of the state is not checked.                           *)
NeedsNoCheckOfStatus(row, patch) ==
    row.status = "over" \/ <<patch.lawyer, patch.start, patch.length>> = <<NotSet, NotSet, NotSet>>

(* Of a change only the case, or what makes the appointment be over, goes  *)
(* without a check.                                                        *)
NeedsNoCheck(row, patch) ==
    \/ row.status = "over"
    \/ patch = [NoPatch EXCEPT !.case = patch.case]

(* A row with the fields a body names.                                     *)
Patched(row, patch) ==
    [lawyer |-> IF patch.lawyer = NotSet THEN row.lawyer ELSE patch.lawyer,
     start |-> IF patch.start = NotSet THEN row.start ELSE patch.start,
     length |-> IF patch.length = NotSet THEN row.length ELSE patch.length,
     status |-> IF patch.status = NotSet THEN row.status ELSE patch.status,
     case |-> IF patch.case = NotSet THEN row.case ELSE patch.case,
     by |-> row.by]

(* update_appointment: the row as read, with the fields that change.       *)
BeginRebooking(r, u, a, patch) ==
    LET row == Patched(appointment[a], patch)
    IN  /\ booking[r] = NoBooking /\ patch # NoPatch
        /\ Sees(u, a)
        /\ Book(r, [step |-> IF NeedsNoCheck(row, patch) THEN "update" ELSE "check",
                    by |-> u, id |-> a, patch |-> patch, row |-> row])
        /\ UNCHANGED <<appointment, raced>>

Decided(q, step) == [step |-> step, by |-> q.by, id |-> q.id, patch |-> q.patch, row |-> q.row]

(* _assert_no_conflict: 409, or on to the write.                           *)
Check(r) ==
    LET q == booking[r]
    IN  /\ q.step = "check"
        /\ Book(r, IF Clashes(q.by, q.id, q.row) THEN NoBooking
                   ELSE Decided(q, IF q.patch = NoPatch THEN "insert" ELSE "update"))
        /\ UNCHANGED <<appointment, raced>>

(* Somebody else has read the row that r writes, or has looked for         *)
(* appointments of its lawyer.                                             *)
Surprises(r) ==
    \E q \in Bookings \ {r} :
        \/ booking[q].id = booking[r].id
        \/ /\ booking[q].step \in {"insert", "update"}
           /\ booking[q].row.lawyer = booking[r].row.lawyer

Insert(r) ==
    /\ booking[r].step = "insert"
    /\ appointment' = [appointment EXCEPT ![booking[r].id] = booking[r].row]
    /\ Book(r, NoBooking)
    /\ raced' = (raced \/ Surprises(r))

(* UPDATE ... SET the fields that change, if the row is still there.       *)
Update(r) ==
    LET q == booking[r]
    IN  /\ q.step = "update"
        /\ appointment' = IF Sees(q.by, q.id)
                          THEN [appointment EXCEPT ![q.id] = Patched(@, q.patch)]
                          ELSE appointment
        /\ Book(r, NoBooking)
        /\ raced' = (raced \/ Surprises(r))

(* delete_appointment: not for paralegals, whom Staff does not tell apart. *)
Delete(u, a) ==
    /\ Sees(u, a)
    /\ appointment' = [appointment EXCEPT ![a] = NoSlot]
    /\ UNCHANGED <<active, booking, raced>>

BookingNext ==
    \/ \E u \in Lawyers : SetLawyerStatus(u)
    \/ \E r \in Bookings, u \in Callers, a \in Ids :
           \/ \E row \in Slots : BeginBooking(r, u, a, row)
           \/ \E patch \in Patches : BeginRebooking(r, u, a, patch)
    \/ \E r \in Bookings : Check(r) \/ Insert(r) \/ Update(r)
    \/ \E u \in Callers, a \in Ids : Delete(u, a)

BookingSpec == BookingInit /\ [][BookingNext]_bookingVars
-------------------------------------------------------------------------------
(* "Time-slot conflict detection prevents 100% of double-booking attempts  *)
(* without" an override (SC-109): no two appointments of a lawyer that are *)
(* on overlap.                                                             *)
NoDoubleBooking == \A a, b \in Ids : a # b => ~Collide(appointment[a], appointment[b])

(* SC-109 does hold of managers, whom no appointment is hidden from, until *)
(* a request writes while another that has read the same row, or looked    *)
(* for appointments of the same lawyer, has yet to write: the checks on    *)
(* creation, on every change and on reopening leave no other gap           *)
(* (appointments.py:60-240).                                               *)
NoOtherDoubleBooking == Callers \subseteq Managers /\ ~raced => NoDoubleBooking
===============================================================================
