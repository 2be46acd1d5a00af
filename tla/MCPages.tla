--------------------------------- MODULE MCPages ---------------------------------
(***************************************************************************)
(* Four pages of the browser, who is signed in there, and the clients'     *)
(* portal, checked one at a time: a behaviour picks its scene, and the     *)
(* variables of the others stay at a first state.  The page of the case is *)
(* there for a lawyer and for a manager; the portal as if the field of its *)
(* login page were understood.                                             *)
(***************************************************************************)
EXTENDS Pages, Session, PortalScreens, TLC

CONSTANTS a1, a2, b1, b2     \* b1 belongs to a1, and b2 to a2

VARIABLE scene

pageVars == <<usersVars, docVars, caseVars, dmsVars>>

Belonging == (b1 :> a1) @@ (b2 :> a2)

CaseOfManager == INSTANCE CaseScreen WITH Manager <- TRUE, People <- {b1}, MaxLoads <- 1

(* Two accounts, and pages for managers, and for managers and lawyers.     *)
TwoRoles == (b1 :> "partner_manager") @@ (b2 :> "lawyer")
TwoGuards == {{"partner_manager"}, {"partner_manager", "lawyer"}}

PagesInit ==
    /\ scene \in {"users", "documents", "case", "caseOfManager", "panel", "session", "portal"}
    /\ UsersInit /\ (scene # "users" => accounts[a2] = [role |-> draft, status |-> "active"] /\ draft = "lawyer")
    /\ DocInit /\ (scene # "documents" => \A d \in Docs : status[d] = 0)
    /\ IF scene = "caseOfManager" THEN CaseOfManager!CaseInit
       ELSE CaseInit /\ (scene # "case" => case = [fields |-> a1, team |-> {Viewer}])
    /\ DmsInit /\ (scene # "panel" => holder = None)
    /\ SessionInit /\ (scene # "session" => session = None /\ \A t \in Tabs : location[t] = Login)
    /\ PortalInit

MindUsers ==
    /\ scene = "users" /\ UsersNext
    /\ UNCHANGED <<scene, docVars, caseVars, dmsVars, sessionVars, portalVars>>

MindDocuments ==
    /\ scene = "documents" /\ DocNext
    /\ UNCHANGED <<scene, usersVars, caseVars, dmsVars, sessionVars, portalVars>>

MindCase ==
    /\ \/ scene = "case" /\ CaseNext
       \/ scene = "caseOfManager" /\ CaseOfManager!CaseNext
    /\ UNCHANGED <<scene, usersVars, docVars, dmsVars, sessionVars, portalVars>>

MindDocument ==
    /\ scene = "panel" /\ DmsNext
    /\ UNCHANGED <<scene, usersVars, docVars, caseVars, sessionVars, portalVars>>

Visit ==
    /\ \/ scene = "session" /\ SessionNext /\ UNCHANGED portalVars
       \/ scene = "portal" /\ PortalNext /\ UNCHANGED sessionVars
    /\ UNCHANGED <<scene, pageVars>>

PagesNext == MindUsers \/ MindDocuments \/ MindCase \/ MindDocument \/ Visit

MCSpec == PagesInit /\ [][PagesNext]_<<scene, pageVars, sessionVars, portalVars>>
===============================================================================
