------------------------------- MODULE UsersScreen -------------------------------
(***************************************************************************)
(* A manager's page of the firm's users: the table, the role that is       *)
(* edited in its row, the dialog that asks before an account is closed or  *)
(* opened, and the form of a new user.  A dialog covers the page, but not  *)
(* the answers that come in under it: the role and the status of one user  *)
(* may be under way at the same time, and each answer is the whole user.   *)
(***************************************************************************)
EXTENDS Browser

CONSTANTS Ids, Roles

VARIABLES
    users,       \* the table; None before the first answer
    loadError,
    load,        \* the load in flight: Gone for none, None until it is read
    dialog,      \* "none", "create" or "status"
    editingRole, \* editingRoleId
    draft,       \* roleDraft
    target,      \* statusTarget: id and status as they were on opening
    underWay,    \* which of "role", "status" and "create" have a call in flight
    requests,    \* those requests, in the order of the clicks
    accounts,    \* the users on the server
    missed,      \* history: users changed without an answer that neither a table read since
                 \*   nor a later answer about the user shows
    mixed        \* a user was created under a load, or answers of one user overtook

usersVars == <<users, loadError, load, dialog, editingRole, draft, target, underWay, requests, accounts,
              missed, mixed>>

Statuses == {"active", "inactive"}

User == [role : Roles, status : Statuses]

ASSUME UsersAssumption ==
    /\ {None, Gone, Refused} \cap User = {}
    /\ \A S \in SUBSET Ids : {None, Gone, Failed} \cap [S -> User] = {}
    /\ None \notin [id : Ids, status : Statuses]

Existing == [id \in {i \in Ids : accounts[i] # Gone} |-> accounts[id]]
-------------------------------------------------------------------------------
UsersInit ==
    /\ users = None /\ loadError = FALSE /\ load = None
    /\ dialog = "none" /\ editingRole = None /\ target = None /\ underWay = {} /\ requests = <<>>
    /\ draft \in Roles
    /\ \E new \in Ids, r \in Roles :
           accounts = [i \in Ids |-> IF i = new THEN Gone ELSE [role |-> r, status |-> "active"]]
    /\ missed = {} /\ mixed = FALSE

ReadUsers ==
    /\ load = None
    /\ load' \in {Existing, Failed}
    /\ missed' = {}
    /\ UNCHANGED <<users, loadError, dialog, editingRole, draft, target, underWay, requests, accounts, mixed>>

ShowUsers ==
    /\ load \notin {None, Gone}
    /\ load' = Gone
    /\ IF load = Failed THEN loadError' = TRUE /\ UNCHANGED users
       ELSE users' = load /\ UNCHANGED loadError
    /\ UNCHANGED <<dialog, editingRole, draft, target, underWay, requests, accounts, missed, mixed>>

(* The button that loads again is part of the error.                       *)
TryAgain ==
    /\ loadError /\ dialog = "none"
    /\ users' = None /\ loadError' = FALSE /\ load' = None
    /\ mixed' = (mixed \/ requests # <<>>)
    /\ UNCHANGED <<dialog, editingRole, draft, target, underWay, requests, accounts, missed>>

InTable(id) == users # None /\ id \in DOMAIN users

(* Another row may be edited while the role of one is being saved.         *)
EditRole(id) ==
    /\ dialog = "none" /\ InTable(id) /\ editingRole # id
    /\ editingRole' = id /\ draft' = users[id].role
    /\ UNCHANGED <<users, loadError, load, dialog, target, underWay, requests, accounts, missed, mixed>>

PickRole(r) ==
    /\ dialog = "none" /\ InTable(editingRole) /\ "role" \notin underWay /\ r # draft
    /\ draft' = r
    /\ UNCHANGED <<users, loadError, load, dialog, editingRole, target, underWay, requests, accounts, missed, mixed>>

CancelRole ==
    /\ dialog = "none" /\ InTable(editingRole) /\ "role" \notin underWay
    /\ editingRole' = None
    /\ UNCHANGED <<users, loadError, load, dialog, draft, target, underWay, requests, accounts, missed, mixed>>

Request(kind, id, change) ==
    /\ underWay' = underWay \cup {kind}
    /\ requests' = Append(requests, [kind |-> kind, id |-> id, change |-> change, answer |-> None])

(* saveRole: the role the row already has is not sent.                     *)
SaveRole ==
    /\ dialog = "none" /\ InTable(editingRole) /\ "role" \notin underWay
    /\ IF draft = users[editingRole].role THEN editingRole' = None /\ UNCHANGED <<underWay, requests>>
       ELSE Request("role", editingRole, draft) /\ UNCHANGED editingRole
    /\ UNCHANGED <<users, loadError, load, dialog, draft, target, accounts, missed, mixed>>

OpenStatus(id) ==
    /\ dialog = "none" /\ InTable(id)
    /\ dialog' = "status" /\ target' = [id |-> id, status |-> users[id].status]
    /\ UNCHANGED <<users, loadError, load, editingRole, draft, underWay, requests, accounts, missed, mixed>>

(* confirmStatusToggle: the opposite of what the dialog was opened with.   *)
ConfirmStatus ==
    /\ dialog = "status" /\ "status" \notin underWay
    /\ Request("status", target.id, IF target.status = "active" THEN "inactive" ELSE "active")
    /\ UNCHANGED <<users, loadError, load, dialog, editingRole, draft, target, accounts, missed, mixed>>

OpenCreate ==
    /\ dialog = "none"
    /\ dialog' = "create"
    /\ UNCHANGED <<users, loadError, load, editingRole, draft, target, underWay, requests, accounts, missed, mixed>>

CreateUser(id, r) ==
    /\ dialog = "create" /\ "create" \notin underWay
    /\ accounts[id] = Gone
    /\ Request("create", id, r)
    /\ UNCHANGED <<users, loadError, load, dialog, editingRole, draft, target, accounts, missed, mixed>>

(* Neither dialog can be left while its call is in flight.                 *)
CloseDialog ==
    /\ dialog # "none" /\ dialog \notin underWay
    /\ dialog' = "none" /\ target' = None
    /\ UNCHANGED <<users, loadError, load, editingRole, draft, underWay, requests, accounts, missed, mixed>>
-------------------------------------------------------------------------------
Made(c) ==
    CASE c.kind = "create" -> [role |-> c.change, status |-> "active"]
      [] c.kind = "role" -> [accounts[c.id] EXCEPT !.role = c.change]
      [] c.kind = "status" -> [accounts[c.id] EXCEPT !.status = c.change]

(* The server makes the change or refuses it.  The answer may be lost,     *)
(* which the page cannot tell from a refusal.                              *)
AnswerRequest(i) ==
    LET c == requests[i]
        Reply(a) == requests' = [requests EXCEPT ![i].answer = a]
    IN  /\ c.answer = None
        /\ \/ /\ accounts' = [accounts EXCEPT ![c.id] = Made(c)]
              /\ \/ Reply(Made(c)) /\ UNCHANGED missed
                 \/ Reply(Refused) /\ missed' = missed \cup {c.id}
           \/ Reply(Refused) /\ UNCHANGED <<accounts, missed>>
        /\ UNCHANGED <<users, loadError, load, dialog, editingRole, draft, target, underWay, mixed>>

(* Mutant: the answer is not put into the table.                           *)
WithoutAnswer(c) == users

(* replaceUser changes a row that is there; a created one is added, to an  *)
(* empty table if the page has none.                                       *)
WithUser(c) ==
    CASE users = None /\ c.kind # "create" -> None
      [] users = None /\ c.kind = "create" -> [i \in {c.id} |-> c.answer]
      [] users # None /\ c.kind = "create" -> [i \in DOMAIN users \cup {c.id} |-> IF i = c.id THEN c.answer ELSE users[i]]
      [] OTHER -> [i \in DOMAIN users |-> IF i = c.id THEN c.answer ELSE users[i]]

(* The page hears of a call: the row is replaced, and what was open for    *)
(* this kind of change is closed; a refusal leaves it open.                *)
HearRequest(i) ==
    LET c == requests[i]
    IN  /\ c.answer # None
        /\ requests' = RemoveAt(requests, i) /\ underWay' = underWay \ {c.kind}
        /\ IF c.answer = Refused THEN UNCHANGED <<users, editingRole, dialog, target, missed>>
           ELSE /\ users' = WithUser(c) /\ missed' = missed \ {c.id}
                /\ editingRole' = IF c.kind = "role" THEN None ELSE editingRole
                /\ dialog' = IF c.kind = "role" THEN dialog ELSE "none"
                /\ target' = IF c.kind = "status" THEN None ELSE target
        /\ mixed' = \/ mixed
                    \/ c.kind = "create" /\ users = None
                    \/ \E j \in DOMAIN requests \ {i} : requests[j].id = c.id /\ requests[j].answer # None
    /\ UNCHANGED <<loadError, load, draft, accounts>>

UsersNext ==
    \/ ReadUsers \/ ShowUsers \/ TryAgain
    \/ \E id \in Ids : EditRole(id) \/ OpenStatus(id)
    \/ \E r \in Roles : PickRole(r)
    \/ CancelRole \/ SaveRole \/ ConfirmStatus \/ OpenCreate \/ CloseDialog
    \/ \E id \in Ids, r \in Roles : CreateUser(id, r)
    \/ \E i \in DOMAIN requests : AnswerRequest(i) \/ HearRequest(i)

UsersSpec == UsersInit /\ [][UsersNext]_usersVars
-------------------------------------------------------------------------------
UsersTypeOK ==
    /\ users # None => users \in [DOMAIN users -> User] /\ DOMAIN users \subseteq Ids
    /\ dialog \in {"none", "create", "status"} /\ editingRole \in Ids \cup {None} /\ draft \in Roles
    /\ (target # None) = (dialog = "status")
    /\ accounts \in [Ids -> User \cup {Gone}] /\ missed \subseteq Ids
    /\ underWay = {requests[i].kind : i \in DOMAIN requests} /\ Len(requests) <= 3

(* A table nothing is awaited for shows the users as they are, but for     *)
(* those changed without an answer: unless one was created before the      *)
(* table came or two answers about a user crossed.                         *)
SettledTableIsCurrent ==
    users # None /\ load = Gone /\ requests = <<>> /\ ~mixed =>
        \A id \in Ids \ missed :
            IF InTable(id) THEN users[id] = accounts[id] ELSE accounts[id] = Gone
===============================================================================
