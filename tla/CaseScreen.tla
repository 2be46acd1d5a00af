------------------------------- MODULE CaseScreen -------------------------------
(***************************************************************************)
(* The page of one case: its fields, which are edited in place, its team,  *)
(* and its deletion.  The page holds one copy of the case.  A load puts    *)
(* another in its place, and so does a saved edit, which builds it from    *)
(* the answer and the copy the edit was sent from.  When a load fails the  *)
(* page shows the error alone, and what was open on it is lost.            *)
(***************************************************************************)
EXTENDS Browser

CONSTANTS Contents,      \* what the fields of the case may hold
          People,        \* the active users of the firm
          Viewer, Manager,   \* the user of the page; whether a manager or a lawyer
          MaxLoads,      \* bound on the loads in flight
          MaxCalls       \* bound on the other calls in flight

VARIABLES
    detail,      \* the page's copy: fields and team; None before it comes
    broken,      \* the page shows an error alone
    editing, form,
    selected,    \* who is picked for the team
    people,      \* the users to pick from; None before they come
    busy,        \* which of "save", "assign" and "delete" are under way
    loads,       \* loads in flight: None until they are read
    calls,       \* the other calls in flight
    place,       \* "here", or "gone" to the list of cases
    case,        \* the case on the server, Gone once deleted
    crossed      \* a load came during a save, two loads or saves crossed, or an answer was lost

caseVars == <<detail, broken, editing, form, selected, people, busy, loads, calls, place, case, crossed>>

CaseCopy == [fields : Contents, team : SUBSET People]

ASSUME CaseAssumption ==
    /\ {None, Gone, Failed, Refused} \cap CaseCopy = {}
    /\ "made" \notin {None, Failed, Refused}
    /\ None \notin Contents

(* The server lets the case's team and managers see and change it.         *)
Allowed == case # Gone /\ (Manager \/ Viewer \in case.team)

(* canEdit and canManageAssignments, by the page's copy.                   *)
CanChange == detail # None /\ (Manager \/ Viewer \in detail.team)

Usable == place = "here" /\ ~broken /\ detail # None
-------------------------------------------------------------------------------
CaseInit ==
    /\ detail = None /\ broken = FALSE /\ editing = FALSE /\ form = None
    /\ selected = None /\ people = None /\ busy = {}
    /\ loads = <<None>> /\ calls = <<>> /\ place = "here"
    /\ case \in {c \in CaseCopy : Viewer \in c.team}
    /\ crossed = FALSE

ReadCase(i) ==
    /\ loads[i] = None
    /\ \E a \in {IF Allowed THEN case ELSE Failed, Failed} : loads' = [loads EXCEPT ![i] = a]
    /\ UNCHANGED <<detail, broken, editing, form, selected, people, busy, calls, place, case, crossed>>

(* The parts of the page are taken down with it; a call they made is heard *)
(* of by nobody but the page.                                              *)
TakeCase(i) ==
    /\ loads[i] # None
    /\ loads' = RemoveAt(loads, i)
    /\ IF loads[i] = Failed
       THEN /\ broken' = TRUE
            /\ editing' = FALSE /\ form' = None /\ selected' = None /\ people' = None
            /\ busy' = busy \ {"save", "assign"}
            /\ calls' = [j \in DOMAIN calls |-> [calls[j] EXCEPT !.live = FALSE]]
            /\ UNCHANGED detail
       ELSE /\ detail' = loads[i] /\ broken' = FALSE
            /\ UNCHANGED <<editing, form, selected, people, busy, calls>>
    /\ crossed' = (crossed \/ i > 1 \/ \E j \in DOMAIN calls : calls[j].kind = "save")
    /\ UNCHANGED <<place, case>>

Reload ==
    /\ Len(loads) < MaxLoads
    /\ loads' = Append(loads, None)

LoadPeople ==
    /\ Usable /\ CanChange /\ people = None
    /\ people' = People
    /\ UNCHANGED <<detail, broken, editing, form, selected, busy, loads, calls, place, case, crossed>>

StartEdit ==
    /\ Usable /\ CanChange /\ ~editing
    /\ editing' = TRUE /\ form' = detail.fields
    /\ UNCHANGED <<detail, broken, selected, people, busy, loads, calls, place, case, crossed>>

TypeField(v) ==
    /\ Usable /\ editing /\ v # form
    /\ form' = v
    /\ UNCHANGED <<detail, broken, editing, selected, people, busy, loads, calls, place, case, crossed>>

(* While the edit is being saved, too.                                     *)
CancelEdit ==
    /\ Usable /\ editing
    /\ editing' = FALSE
    /\ UNCHANGED <<detail, broken, form, selected, people, busy, loads, calls, place, case, crossed>>

Candidates == IF people = None THEN {} ELSE people \ detail.team

Select(p) ==
    /\ Usable /\ CanChange /\ p \in Candidates /\ p # selected
    /\ selected' = p
    /\ UNCHANGED <<detail, broken, editing, form, people, busy, loads, calls, place, case, crossed>>

(* A call remembers the copy it was made from.                             *)
Call(kind, what) ==
    /\ Len(calls) < MaxCalls
    /\ calls' = Append(calls, [kind |-> kind, what |-> what, from |-> detail, live |-> TRUE, answer |-> None])

SaveFields ==
    /\ Usable /\ editing /\ "save" \notin busy
    /\ Call("save", form)
    /\ busy' = busy \cup {"save"}
    /\ crossed' = (crossed \/ \E i \in DOMAIN calls : calls[i].kind = "save")
    /\ UNCHANGED <<detail, broken, editing, form, selected, people, loads, place, case>>

AssignSelected ==
    /\ Usable /\ CanChange /\ "assign" \notin busy /\ selected # None
    /\ Call("assign", selected)
    /\ busy' = busy \cup {"assign"}
    /\ UNCHANGED <<detail, broken, editing, form, selected, people, loads, place, case, crossed>>

(* Nothing keeps a member from being taken off twice.                      *)
Unassign(p) ==
    /\ Usable /\ CanChange /\ p \in detail.team
    /\ Call("unassign", p)
    /\ UNCHANGED <<detail, broken, editing, form, selected, people, busy, loads, place, case, crossed>>

Delete ==
    /\ Usable /\ Manager /\ "delete" \notin busy
    /\ Call("delete", None)
    /\ busy' = busy \cup {"delete"}
    /\ UNCHANGED <<detail, broken, editing, form, selected, people, loads, place, case, crossed>>
-------------------------------------------------------------------------------
(* The case after a call, or Refused.  Nobody can be assigned: a statement *)
(* has not as many arguments as it is given (assignments.py:49-64).        *)
Result(c) ==
    CASE Allowed /\ c.kind = "save" -> [case EXCEPT !.fields = c.what]
      [] Allowed /\ c.kind = "unassign" /\ c.what \in case.team -> [case EXCEPT !.team = @ \ {c.what}]
      [] Allowed /\ c.kind = "delete" -> Gone
      [] OTHER -> Refused

(* The server's answer may be lost, and so may the call itself.            *)
Serve(i) ==
    /\ calls[i].answer = None
    /\ \E answer \in {IF Result(calls[i]) = Refused THEN Refused ELSE "made", Failed} :
           /\ calls' = [calls EXCEPT ![i].answer = answer]
           /\ \/ answer # "made" /\ UNCHANGED <<case, crossed>>
              \/ /\ Result(calls[i]) # Refused /\ case' = Result(calls[i])
                 /\ crossed' = (crossed \/ answer = Failed)
    /\ UNCHANGED <<detail, broken, editing, form, selected, people, busy, loads, place>>

Over(i, kind) == busy' = IF calls[i].live THEN busy \ {kind} ELSE busy

(* The saved fields go into the copy they were sent from.                  *)
HearSave(i) ==
    /\ calls[i].kind = "save" /\ calls[i].answer # None
    /\ calls' = RemoveAt(calls, i) /\ Over(i, "save")
    /\ IF calls[i].answer # "made" THEN UNCHANGED <<detail, editing>>
       ELSE /\ detail' = [calls[i].from EXCEPT !.fields = calls[i].what]
            /\ editing' = (editing /\ ~calls[i].live)
    /\ crossed' = (crossed \/ \E j \in DOMAIN loads : loads[j] # None)
    /\ UNCHANGED <<broken, form, selected, people, loads, place, case>>

HearTeam(i) ==
    /\ calls[i].kind \in {"assign", "unassign"} /\ calls[i].answer # None
    /\ calls' = RemoveAt(calls, i)
    /\ IF calls[i].answer # "made" THEN UNCHANGED <<loads, selected>>
       ELSE /\ Reload
            /\ selected' = IF calls[i].kind = "assign" /\ calls[i].live THEN None ELSE selected
    /\ IF calls[i].kind = "assign" THEN Over(i, "assign") ELSE UNCHANGED busy
    /\ UNCHANGED <<detail, broken, editing, form, people, place, case, crossed>>

HearDelete(i) ==
    /\ calls[i].kind = "delete" /\ calls[i].answer # None
    /\ calls' = RemoveAt(calls, i)
    /\ IF calls[i].answer # "made" THEN busy' = busy \ {"delete"} /\ UNCHANGED place
       ELSE place' = "gone" /\ UNCHANGED busy
    /\ UNCHANGED <<detail, broken, editing, form, selected, people, loads, case, crossed>>

CaseNext ==
    \/ \E i \in DOMAIN loads : ReadCase(i) \/ TakeCase(i)
    \/ LoadPeople \/ StartEdit \/ CancelEdit \/ SaveFields \/ AssignSelected \/ Delete
    \/ \E v \in Contents : TypeField(v)
    \/ \E p \in People : Select(p) \/ Unassign(p)
    \/ \E i \in DOMAIN calls : Serve(i) \/ HearSave(i) \/ HearTeam(i) \/ HearDelete(i)

CaseSpec == CaseInit /\ [][CaseNext]_caseVars
-------------------------------------------------------------------------------
CaseTypeOK ==
    /\ detail \in CaseCopy \cup {None} /\ case \in CaseCopy \cup {Gone}
    /\ form \in Contents \cup {None} /\ selected \in People \cup {None}
    /\ broken \in BOOLEAN /\ editing \in BOOLEAN /\ crossed \in BOOLEAN
    /\ busy \subseteq {"save", "assign", "delete"} /\ place \in {"here", "gone"}
    /\ loads \in Seq({None, Failed} \cup CaseCopy)
    /\ \A i \in DOMAIN calls : calls[i].answer \in {None, "made", Refused, Failed}

(* Once everything is answered the page shows the case as it is, a team    *)
(* that was changed while its fields were edited included, unless a load   *)
(* and a save or two of either crossed (cases/[id]/page.tsx:602), or the   *)
(* answer to a change was lost.                                            *)
SettledCaseIsCurrent ==
    Usable /\ loads = <<>> /\ calls = <<>> /\ ~crossed => detail = case
===============================================================================
