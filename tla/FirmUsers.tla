------------------------------- MODULE FirmUsers -------------------------------
(***************************************************************************)
(* The users of a firm and their accounts at the authentication provider   *)
(* (backend/app/api/users.py).                                             *)
(*                                                                         *)
(* The provider, GoTrue, owns the credentials, table users the profiles.   *)
(* A request of a manager changes one after the other; what it checks it   *)
(* has read in a statement before.  An account is named by the id GoTrue   *)
(* gives it, which is users.auth_user_id.                                  *)
(***************************************************************************)
CONSTANTS
    Ids,            \* ids GoTrue gives to accounts
    EmailOf,        \* id -> the address the account is opened for
    Founders,       \* managers the firm starts with, of different addresses
    Requests,       \* requests that are served at the same time
    Nobody,         \* no user
    ProviderFails,  \* may calls to GoTrue fail, or their answers be lost?
    RequestsCrash   \* may the API process die during a request?

ASSUME FoundersAssumption == Founders \subseteq Ids /\ Founders # {}
ASSUME NobodyAssumption == Nobody \notin Ids

VARIABLES
    user,        \* id -> its row in users
    account,     \* id -> its account at GoTrue
    referenced,  \* users with tasks or deadlines
    request,     \* request -> what it does
    unfinished,  \* auxiliary: users whose creation or deletion was broken off
    overlapped   \* auxiliary: has a request begun while another was being served?

userVars == <<user, account, referenced, request, unfinished, overlapped>>

Manager == "partner_manager"
UserRoles == {Manager, "lawyer"}
Statuses == {"active", "inactive"}

NoProfile == [role |-> "none", status |-> "none"]
UserRows == [role : UserRoles, status : Statuses]

UserSteps == {"provision", "insert", "cleanup", "update", "ban", "references", "delete", "remove"}
NoRequest == [step |-> "idle", id |-> Nobody, role |-> "none", status |-> "none", seen |-> "none"]

UsersTypeOK ==
    /\ user \in [Ids -> UserRows \cup {NoProfile}]
    /\ account \in [Ids -> {"none", "open", "banned", "gone"}]
    /\ referenced \subseteq {a \in Ids : user[a] # NoProfile}
    /\ request \in [Requests ->
           [step : UserSteps, id : Ids, role : UserRoles \cup {"none"}, status : Statuses \cup {"none"},
            seen : Statuses \cup {"none"}] \cup {NoRequest}]
    /\ unfinished \subseteq Ids /\ overlapped \in BOOLEAN

UsersInit ==
    /\ user = [a \in Ids |-> IF a \in Founders THEN [role |-> Manager, status |-> "active"] ELSE NoProfile]
    /\ account = [a \in Ids |-> IF a \in Founders THEN "open" ELSE "none"]
    /\ referenced = {}
    /\ request = [r \in Requests |-> NoRequest]
    /\ unfinished = {} /\ overlapped = FALSE
-------------------------------------------------------------------------------
(* A request goes on with what its later statements use.                   *)
Later(q, step) ==
    IF step = "idle" THEN NoRequest
    ELSE [step |-> step, id |-> q.id, role |-> IF step = "insert" THEN q.role ELSE "none",
          status |-> q.status, seen |-> "none"]

Proceed(r, step) ==
    /\ request' = [request EXCEPT ![r] = Later(@, step)]
    /\ UNCHANGED <<referenced, overlapped>>

ActiveManagers == {m \in Ids : user[m] = [role |-> Manager, status |-> "active"]}

(* The caller is authenticated and its role checked when a request begins, *)
(* and never again.                                                        *)
Enter(r, state) ==
    /\ request[r] = NoRequest
    /\ ActiveManagers # {}
    /\ request' = [request EXCEPT ![r] = state]
    /\ overlapped' = (overlapped \/ \E q \in Requests : request[q] # NoRequest)
    /\ UNCHANGED <<user, account, referenced, unfinished>>

Unfinished(a) == unfinished' = unfinished \cup {a}

(* GoTrue's account is deleted, or the call fails.                         *)
DeleteAccount(a) ==
    \/ account' = [account EXCEPT ![a] = "gone"] /\ UNCHANGED unfinished
    \/ ProviderFails /\ Unfinished(a) /\ UNCHANGED account
-------------------------------------------------------------------------------
(* create_user: GoTrue gives the account an id of its own.                 *)
BeginCreate(r, a, role) ==
    /\ account[a] = "none" /\ \A q \in Requests : request[q].id # a
    /\ Enter(r, [step |-> "provision", id |-> a, role |-> role, status |-> "none", seen |-> "none"])

Registered(email) == \E b \in Ids : EmailOf[b] = email /\ account[b] \in {"open", "banned"}

(* 409 for an address that is registered; 502 for a call that fails or     *)
(* whose answer is lost.                                                   *)
Provision(r) ==
    LET a == request[r].id
    IN  /\ request[r].step = "provision"
        /\ IF Registered(EmailOf[a])
           THEN UNCHANGED <<account, unfinished>> /\ Proceed(r, "idle")
           ELSE \/ /\ account' = [account EXCEPT ![a] = "open"] /\ UNCHANGED unfinished
                   /\ Proceed(r, "insert")
                \/ /\ ProviderFails /\ Unfinished(a)
                   /\ account' \in {account, [account EXCEPT ![a] = "open"]}
                   /\ Proceed(r, "idle")
        /\ UNCHANGED user

(* Mutant: a profile that is refused ends the request.                     *)
InsertUserOrGiveUp(r) ==
    LET a == request[r].id
    IN  /\ request[r].step = "insert"
        /\ \/ user' = [user EXCEPT ![a] = [role |-> request[r].role, status |-> "active"]]
           \/ UNCHANGED user
        /\ Proceed(r, "idle")
        /\ UNCHANGED <<account, unfinished>>

(* The profile; its phone or its address may be refused as taken.          *)
InsertUser(r) ==
    LET a == request[r].id
        taken == \E b \in Ids : user[b] # NoProfile /\ EmailOf[b] = EmailOf[a]
    IN  /\ request[r].step = "insert"
        /\ \/ /\ ~taken
              /\ user' = [user EXCEPT ![a] = [role |-> request[r].role, status |-> "active"]]
              /\ Proceed(r, "idle")
           \/ UNCHANGED user /\ Proceed(r, "cleanup")
        /\ UNCHANGED <<account, unfinished>>

Cleanup(r) ==
    /\ request[r].step = "cleanup"
    /\ DeleteAccount(request[r].id)
    /\ Proceed(r, "idle")
    /\ UNCHANGED user
-------------------------------------------------------------------------------
(* Mutant: managers may deactivate and demote themselves.                  *)
BeginUpdateOfAnyone(r, a, role, status) ==
    /\ user[a] # NoProfile
    /\ Enter(r, [step |-> "update", id |-> a, role |-> role, status |-> status, seen |-> user[a].status])

(* update_user reads the row; a role or a status of "none" is left as it   *)
(* is (other fields are not modelled).  Managers may neither deactivate    *)
(* nor demote themselves.                                                  *)
BeginUpdate(r, a, role, status) ==
    /\ user[a] # NoProfile /\ {role, status} # {"none"}
    /\ status = "inactive" \/ role \in UserRoles \ {Manager} => ActiveManagers \ {a} # {}
    /\ Enter(r, [step |-> "update", id |-> a, role |-> role, status |-> status, seen |-> user[a].status])

(* The new status is mirrored to GoTrue if it is not the one read before.  *)
Update(r) ==
    LET q == request[r]
    IN  /\ q.step = "update"
        /\ user' = [user EXCEPT ![q.id] =
               IF @ = NoProfile THEN NoProfile
               ELSE [role |-> IF q.role = "none" THEN @.role ELSE q.role,
                     status |-> IF q.status = "none" THEN @.status ELSE q.status]]
        /\ Proceed(r, IF user[q.id] = NoProfile \/ q.status \in {"none", q.seen} THEN "idle" ELSE "ban")
        /\ UNCHANGED <<account, unfinished>>

(* _gotrue_set_ban: an account that is gone stays gone.                    *)
SetBan(r) ==
    LET a == request[r].id
    IN  /\ request[r].step = "ban"
        /\ \/ /\ account[a] # "gone"
              /\ account' = [account EXCEPT ![a] = IF request[r].status = "inactive" THEN "banned" ELSE "open"]
           \/ (account[a] = "gone" \/ ProviderFails) /\ UNCHANGED account
        /\ Proceed(r, "idle")
        /\ UNCHANGED <<user, unfinished>>
-------------------------------------------------------------------------------
(* delete_user, by another manager.                                        *)
BeginDelete(r, a) ==
    /\ user[a] # NoProfile /\ ActiveManagers \ {a} # {}
    /\ Enter(r, [step |-> "references", id |-> a, role |-> "none", status |-> "none", seen |-> "none"])

CheckReferences(r) ==
    /\ request[r].step = "references"
    /\ Proceed(r, IF request[r].id \in referenced THEN "idle" ELSE "delete")
    /\ UNCHANGED <<user, account, unfinished>>

(* A reference that has come since makes the DELETE fail.                  *)
DeleteUser(r) ==
    /\ request[r].step = "delete"
    /\ IF request[r].id \in referenced
       THEN UNCHANGED user /\ Proceed(r, "idle")
       ELSE user' = [user EXCEPT ![request[r].id] = NoProfile] /\ Proceed(r, "remove")
    /\ UNCHANGED <<account, unfinished>>

(* _gotrue_delete                                                          *)
RemoveAccount(r) ==
    /\ request[r].step = "remove"
    /\ DeleteAccount(request[r].id)
    /\ Proceed(r, "idle")
    /\ UNCHANGED user

(* A task or a deadline is given to a user that was active when read.      *)
Refer(a) ==
    /\ user[a] # NoProfile
    /\ referenced' = referenced \cup {a}
    /\ UNCHANGED <<user, account, request, unfinished, overlapped>>

DieServing(r) ==
    /\ RequestsCrash /\ request[r] # NoRequest
    /\ IF request[r].step \in {"insert", "cleanup", "remove"}
       THEN Unfinished(request[r].id) ELSE UNCHANGED unfinished
    /\ Proceed(r, "idle")
    /\ UNCHANGED <<user, account>>

UsersNext ==
    \/ \E r \in Requests :
          \/ \E a \in Ids, role \in UserRoles : BeginCreate(r, a, role)
          \/ \E a \in Ids, role \in UserRoles \cup {"none"}, status \in Statuses \cup {"none"} :
                 BeginUpdate(r, a, role, status)
          \/ \E a \in Ids : BeginDelete(r, a)
          \/ Provision(r) \/ InsertUser(r) \/ Cleanup(r)
          \/ Update(r) \/ SetBan(r)
          \/ CheckReferences(r) \/ DeleteUser(r) \/ RemoveAccount(r)
          \/ DieServing(r)
    \/ \E a \in Ids : Refer(a)

UsersSpec == UsersInit /\ [][UsersNext]_userVars
-------------------------------------------------------------------------------
Settled(a) == \A r \in Requests : request[r].id # a

(* Every profile has its account, whatever calls failed and wherever a     *)
(* request died: whoever is in users can be let in (users.py:117-260).     *)
ProfileHasAccount == \A a \in Ids : user[a] # NoProfile => account[a] \in {"open", "banned"}

(* No credential is stranded without its profile (users.py:139), however   *)
(* requests interleave, unless the creation or the deletion of that very   *)
(* user was broken off: GoTrue failed, or the process died in its midst.   *)
NoOrphanAccount ==
    \A a \in Ids \ unfinished :
        Settled(a) /\ account[a] \in {"open", "banned"} => user[a] # NoProfile

AccountsMatchProfiles == ProfileHasAccount /\ NoOrphanAccount

(* The firm always has a manager to administer it ("sole-manager lockout   *)
(* would orphan user/audit administration", users.py:170), as long as its  *)
(* managers act one after the other.                                       *)
ManagerRemains == ~overlapped => ActiveManagers # {}
===============================================================================
