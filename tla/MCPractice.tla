-------------------------------- MODULE MCPractice -------------------------------
(***************************************************************************)
(* The business of the office: invoices, appointments, folders, shared     *)
(* documents, and the two parts of the daily pass that send messages, for  *)
(* deadlines and tasks and for hearings.  They share no state and are      *)
(* checked one at a time: a behaviour picks its scene at the start.        *)
(*   invoices        two requests at a time, which may die                 *)
(*   appointments    one request of a manager at a time                    *)
(*   bookings        two at a time, for one lawyer and two times           *)
(*   folders         two requests at a time, until a folder is below itself *)
(*   sharing         two requests at a time, while others unshare          *)
(*   items           a suggestion and a task over two days, two processes  *)
(*                   that take turns, of which one may die once            *)
(*   deadlines       a suggestion over three days, nothing dies; until two *)
(*                   processes run at the same time                        *)
(*   hearings        two hearings that stay on their days, over three      *)
(*                   days; a worker that may die, and answers that are     *)
(*                   lost, where one reminder may go out unnoticed         *)
(*   hearingsMoved   one hearing that is put off, the worker may die       *)
(* In the last three the log takes the rows or, as the code is, refuses    *)
(* them.                                                                   *)
(***************************************************************************)
EXTENDS Invoices, Appointments, FolderTree, DocumentSharing, Reminders, HearingReminders, TLC

CONSTANTS r1, r2, c1, c2, n1, n2,   \* requests; cases; names
          m1,                       \* a manager
          d                         \* the suggestion

VARIABLE scene

officeVars == <<vars, bookingVars, filingVars, sharingVars>>

(* One field at a time.                                                    *)
OneField ==
    UNION {{[NoPatch EXCEPT !.lawyer = x] : x \in Lawyers}, {[NoPatch EXCEPT !.start = x] : x \in Times},
           {[NoPatch EXCEPT !.length = x] : x \in Lengths}, {[NoPatch EXCEPT !.status = x] : x \in {"on", "over"}}}

PracticeInit ==
    /\ scene \in {"invoices", "appointments", "bookings", "folders", "sharing", "items", "deadlines", "hearings",
                  "hearingsMoved"}
    /\ Init /\ BookingInit /\ FilingInit /\ SharingInit /\ ReminderInit /\ HearingInit
    /\ scene # "deadlines" => \A i \in Items : due[i] # 2
    /\ scene \notin {"items", "deadlines"} => \A i \in Items : due[i] # 1
    /\ firmInLog => scene \in {"items", "deadlines"}
    /\ scene = "items" => firmInLog
    /\ firmInRow => scene \in {"hearings", "hearingsMoved"}

Invoicing ==
    /\ scene = "invoices" /\ Next
    /\ UNCHANGED <<scene, bookingVars, filingVars, sharingVars, reminderVars, hearingVars>>

(* Rows without a case, which hides nothing from managers; in bookings     *)
(* they are of one lawyer, and each of one hour.                           *)
Few(lawyers, starts, lengths) ==
    [lawyer : lawyers, start : starts, length : lengths, status : {"on", "over"}, case : {FALSE}, by : {m1}]

Within(rows) ==
    /\ \A a \in Ids : appointment'[a] \in rows \cup {NoSlot}
    /\ \A r \in Bookings : booking'[r].row \in rows \cup {NoSlot}

Appoint ==
    /\ scene \in {"appointments", "bookings"} /\ BookingNext
    /\ \/ /\ scene = "appointments" /\ Within(Few(Lawyers, Times, Lengths))
          /\ Cardinality({r \in Bookings : booking'[r] # NoBooking}) < 2
       \/ scene = "bookings" /\ \E l \in Lawyers : Within(Few({l}, {0, 1}, {1}))
    /\ UNCHANGED <<scene, vars, filingVars, sharingVars, reminderVars, hearingVars>>

(* A PATCH names one field, and a folder below itself ends the behaviour.  *)
File ==
    /\ scene = "folders" /\ ~looped /\ FilingNext
    /\ \A r \in Filings :
           filing'[r].step = "update" => Keep \in {filing'[r].parent, filing'[r].name}
    /\ UNCHANGED <<scene, vars, bookingVars, sharingVars, reminderVars, hearingVars>>

Share ==
    /\ scene = "sharing" /\ SharingNext
    /\ UNCHANGED <<scene, vars, bookingVars, filingVars, reminderVars, hearingVars>>

(* One process at a time, until one begins while another runs.             *)
Remind ==
    /\ scene \in {"items", "deadlines"} /\ ~overlapped /\ ReminderNext
    /\ \/ /\ scene = "items" /\ today' < 2 /\ \A i \in Items : due'[i] # 2
          /\ ~overlapped' /\ deaths' < 2
       \/ scene = "deadlines" /\ deaths' = 0 /\ \A t \in Tasks : due'[t] = NoDate
    /\ UNCHANGED <<scene, officeVars, hearingVars>>

RemindOfHearings ==
    /\ scene \in {"hearings", "hearingsMoved"} /\ HearingNext
    /\ \/ scene = "hearings" /\ putOff' = {} /\ edits' < 3 /\ Cardinality(unsure') < 2
       \/ scene = "hearingsMoved" /\ Cardinality({h \in Hearings : date'[h] # NoHearing}) < 2
    /\ UNCHANGED <<scene, officeVars, reminderVars>>

PracticeNext == Invoicing \/ Appoint \/ File \/ Share \/ Remind \/ RemindOfHearings

PracticeSpec == PracticeInit /\ [][PracticeNext]_<<scene, officeVars, reminderVars, hearingVars>>

(* The configuration gives one pair of values to the requests on invoices  *)
(* and folders, to the lawyers and to the documents, one to the cases, the *)
(* appointments and the contacts, and one to the names, the requests on    *)
(* appointments and documents and the hearings: no scene uses two of a     *)
(* kind, and the same permutations serve all scenes.                       *)
Interchangeable ==
    Permutations({r1, r2}) \cup Permutations({c1, c2}) \cup Permutations({n1, n2})
===============================================================================
