---------------------------- MODULE MCAppointments ----------------------------
(* A lawyer whom a manager's requests book for Appointments.                 *)
EXTENDS Appointments, TLC

CONSTANTS l1, m1, a1, a2, r1, r2

Interchangeable == Permutations(Ids) \cup Permutations(Bookings)

(* A body that moves the appointment.                                        *)
Move == {[NoPatch EXCEPT !.start = x] : x \in Times}
===============================================================================
