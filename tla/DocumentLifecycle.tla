--------------------------- MODULE DocumentLifecycle ---------------------------
(***************************************************************************)
(* The life of an uploaded document as backend/app/api/                    *)
(* documents_lifecycle.py declares it: pending, then processing, then one  *)
(* final status it never leaves.  Nothing is said of who moves it.         *)
(***************************************************************************)
CONSTANT Documents

VARIABLE status

Statuses == {"absent", "pending", "processing", "ready", "low_confidence", "failed"}

(* LEGAL_TRANSITIONS, and the INSERT that creates a document as pending.   *)
LegalTransitions(s) ==
    CASE s = "absent"     -> {"pending"}
      [] s = "pending"    -> {"processing"}
      [] s = "processing" -> {"ready", "low_confidence", "failed"}
      [] OTHER            -> {}

Init == status = [d \in Documents |-> "absent"]

Advance(d) ==
    \E s \in LegalTransitions(status[d]) : status' = [status EXCEPT ![d] = s]

Next == \E d \in Documents : Advance(d)

Spec == Init /\ [][Next]_status
===============================================================================
