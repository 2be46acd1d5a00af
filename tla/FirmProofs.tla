-------------------------------- MODULE FirmProofs --------------------------------
(***************************************************************************)
(* Proofs about the users of a firm, for any number of users and requests, *)
(* whatever calls to GoTrue fail and wherever a request dies; and about    *)
(* who is signed in, in any number of tabs and with any number of accounts *)
(* and links; and about the payments of any number of firms, however often *)
(* the provider calls and wherever a request dies.                         *)
(***************************************************************************)
EXTENDS Subscription, FirmUsers, Session, PortalScreens, TLAPS

Creating == {"provision", "insert", "cleanup"}

(* Who creates a user has its id to himself: no row, and an account from   *)
(* the moment GoTrue has given it.                                         *)
CreatesAlone ==
    \A r \in Requests : request[r].step \in Creating =>
        /\ user[request[r].id] = NoProfile
        /\ account[request[r].id] = IF request[r].step = "provision" THEN "none" ELSE "open"
        /\ request[r].step # "cleanup" => request[r].role \in UserRoles
        /\ \A q \in Requests \ {r} : request[q].id # request[r].id

(* The others are about users that had an account, and whose account is    *)
(* being removed has no row any more.                                      *)
OthersHadAccounts ==
    \A r \in Requests :
        /\ request[r].step \in UserSteps \ Creating => account[request[r].id] # "none"
        /\ request[r].step = "remove" => user[request[r].id] = NoProfile

(* An account without a row is about to get one, or to be removed.         *)
OrphansAreMinded ==
    \A a \in Ids \ unfinished :
        account[a] \in {"open", "banned"} /\ user[a] = NoProfile
        => \E r \in Requests : request[r].id = a /\ request[r].step \in {"insert", "cleanup", "remove"}

(* Who may cost the firm a manager, when nobody else is at work.           *)
Costs(q) ==
    \/ q.step = "update" /\ (q.status = "inactive" \/ q.role \in UserRoles \ {Manager})
    \/ q.step \in {"references", "delete"}

(* Then another manager has sent the request, and will remain.             *)
OthersManage ==
    ~overlapped =>
        /\ \A q, r \in Requests : request[q] # NoRequest /\ request[r] # NoRequest => q = r
        /\ ActiveManagers # {}
        /\ \A r \in Requests : Costs(request[r]) => ActiveManagers \ {request[r].id} # {}

IInv ==
    /\ UsersTypeOK /\ ProfileHasAccount
    /\ CreatesAlone /\ OthersHadAccounts /\ OrphansAreMinded /\ OthersManage
-------------------------------------------------------------------------------
Serving ==
    [step : UserSteps, id : Ids, role : UserRoles \cup {"none"}, status : Statuses \cup {"none"},
     seen : Statuses \cup {"none"}]

LEMMA Serves ==
    ASSUME UsersTypeOK, NEW r \in Requests, request[r].step # "idle"
    PROVE  request[r] \in Serving
BY DEF UsersTypeOK, NoRequest, Serving

(* What a request that goes on, or ends, leaves of the requests.           *)
LEMMA Proceeds ==
    ASSUME UsersTypeOK, NEW r \in Requests, request[r] \in Serving,
           NEW step \in UserSteps \cup {"idle"}, Proceed(r, step)
    PROVE  /\ request' \in [Requests -> Serving \cup {NoRequest}]
           /\ \A q \in Requests \ {r} : request'[q] = request[q]
           /\ request'[r].step = step
           /\ step = "idle" => request'[r] = NoRequest
           /\ step # "idle" => /\ request'[r].id = request[r].id
                               /\ request'[r].status = request[r].status
                               /\ request'[r].role = IF step = "insert" THEN request[r].role ELSE "none"
           /\ UNCHANGED <<referenced, overlapped>>
<1> DEFINE next == Later(request[r], step)
<1>1. next \in Serving \cup {NoRequest}
    BY DEF Serving, Later
<1>2. /\ next.step = step
      /\ step = "idle" => next = NoRequest
      /\ step # "idle" => /\ next.id = request[r].id /\ next.status = request[r].status
                          /\ next.role = IF step = "insert" THEN request[r].role ELSE "none"
    BY DEF Later, NoRequest
<1> HIDE DEF next
<1>3. request \in [Requests -> Serving \cup {NoRequest}]
    BY DEF UsersTypeOK, Serving
<1>4. request' = [request EXCEPT ![r] = next]
    BY DEF Proceed, next
<1> QED
    BY <1>1, <1>2, <1>3, <1>4 DEF Proceed

LEMMA Initially == UsersInit => IInv
<1> SUFFICES ASSUME UsersInit PROVE IInv
    OBVIOUS
<1>1. UsersTypeOK
    BY FoundersAssumption DEF UsersInit, UsersTypeOK, UserRows, UserRoles, Statuses, NoProfile
<1>2. ProfileHasAccount /\ OrphansAreMinded
    BY DEF UsersInit, ProfileHasAccount, OrphansAreMinded, NoProfile
<1>3. \A r \in Requests : request[r] = NoRequest
    BY DEF UsersInit
<1>4. CreatesAlone /\ OthersHadAccounts
    BY <1>3 DEF CreatesAlone, OthersHadAccounts, NoRequest, Creating, UserSteps
<1>5. ActiveManagers # {}
    BY FoundersAssumption DEF UsersInit, ActiveManagers
<1>6. OthersManage
    BY <1>3, <1>5 DEF OthersManage, Costs, NoRequest
<1> QED
    BY <1>1, <1>2, <1>4, <1>6 DEF IInv

LEMMA Enters ==
    ASSUME IInv, NEW r \in Requests, NEW s \in Serving, Enter(r, s),
           s.step \in {"provision", "update", "references"},
           s.step = "provision" => /\ account[s.id] = "none" /\ s.role \in UserRoles
                                   /\ \A q \in Requests : request[q].id # s.id,
           s.step # "provision" => user[s.id] # NoProfile,
           Costs(s) => ActiveManagers \ {s.id} # {}
    PROVE  IInv'
<1>1. /\ request \in [Requests -> Serving \cup {NoRequest}]
      /\ request[r] = NoRequest /\ ActiveManagers # {}
      /\ request' = [request EXCEPT ![r] = s]
      /\ overlapped' = (overlapped \/ \E q \in Requests : request[q] # NoRequest)
      /\ UNCHANGED <<user, account, referenced, unfinished>>
    BY DEF IInv, UsersTypeOK, Serving, Enter
<1>2. request'[r] = s /\ \A q \in Requests \ {r} : request'[q] = request[q]
    BY <1>1
<1>3. UsersTypeOK'
  <2>1. request' \in [Requests -> Serving \cup {NoRequest}]
      BY <1>1
  <2> QED
      BY <1>1, <2>1 DEF IInv, UsersTypeOK, Serving
<1>4. ProfileHasAccount'
    BY <1>1 DEF IInv, ProfileHasAccount
<1>5. user[s.id] = NoProfile \/ s.step # "provision"
    BY DEF IInv, ProfileHasAccount, Serving
<1>6. CreatesAlone'
  <2> SUFFICES ASSUME NEW q \in Requests, request'[q].step \in Creating
               PROVE  /\ user[request'[q].id] = NoProfile
                      /\ account[request'[q].id] = IF request'[q].step = "provision" THEN "none" ELSE "open"
                      /\ request'[q].step # "cleanup" => request'[q].role \in UserRoles
                      /\ \A p \in Requests \ {q} : request'[p].id # request'[q].id
      BY <1>1 DEF CreatesAlone
  <2>1. CASE q = r
      BY <1>2, <1>5, <2>1 DEF Creating
  <2>2. CASE q # r
      BY <1>2, <2>2 DEF IInv, CreatesAlone
  <2> QED
      BY <2>1, <2>2
<1>7. OthersHadAccounts'
    BY <1>1, <1>2 DEF IInv, OthersHadAccounts, ProfileHasAccount, Serving, Creating
<1>8. OrphansAreMinded'
    BY <1>1, <1>2 DEF IInv, OrphansAreMinded, NoRequest
<1>9. OthersManage'
    BY <1>1, <1>2 DEF IInv, OthersManage, ActiveManagers, Costs, NoRequest
<1> QED
    BY <1>3, <1>4, <1>6, <1>7, <1>8, <1>9 DEF IInv

(* A step of a request, which goes on or ends.  What it does to the tables *)
(* concerns its user only.                                                 *)
LEMMA GoesOn ==
    ASSUME IInv, NEW r \in Requests, request[r] \in Serving,
           NEW step \in UserSteps \cup {"idle"}, Proceed(r, step), step # "provision",
           UsersTypeOK', ProfileHasAccount',
           NEW a \in Ids, a = request[r].id,
           \A b \in Ids \ {a} : user'[b] = user[b] /\ account'[b] = account[b],
           unfinished' = unfinished \/ unfinished' = unfinished \cup {a},
           account[a] # "none" => account'[a] # "none",
           user[a] = NoProfile => user'[a] = NoProfile \/ request[r].step \in Creating,
           step \in {"insert", "cleanup"} =>
               /\ request[r].step \in Creating
               /\ user'[a] = NoProfile /\ account'[a] = "open",
           step = "insert" => request[r].role \in UserRoles,
           step \in UserSteps \ Creating => account'[a] # "none",
           step = "remove" => user'[a] = NoProfile,
           account'[a] \in {"open", "banned"} /\ user'[a] = NoProfile =>
               \/ a \in unfinished' \/ step \in {"insert", "cleanup", "remove"}
               \/ \E q \in Requests \ {r} :
                      request[q].id = a /\ request[q].step \in {"insert", "cleanup", "remove"},
           ~overlapped => ActiveManagers' # {},
           ~overlapped /\ step \in {"update", "references", "delete"} => ActiveManagers' \ {a} # {}
    PROVE  IInv'
<1>1. /\ request' \in [Requests -> Serving \cup {NoRequest}]
      /\ \A q \in Requests \ {r} : request'[q] = request[q]
      /\ request'[r].step = step
      /\ step = "idle" => request'[r] = NoRequest
      /\ step # "idle" => /\ request'[r].id = a
                          /\ request'[r].role = IF step = "insert" THEN request[r].role ELSE "none"
      /\ UNCHANGED <<referenced, overlapped>>
    BY Proceeds DEF IInv
<1>2. \A q \in Requests : request[q].step # "idle" => request[q].id \in Ids
    BY Serves DEF IInv, Serving
<1>3. CreatesAlone'
  <2> SUFFICES ASSUME NEW q \in Requests, request'[q].step \in Creating
               PROVE  /\ user'[request'[q].id] = NoProfile
                      /\ account'[request'[q].id] = IF request'[q].step = "provision" THEN "none" ELSE "open"
                      /\ request'[q].step # "cleanup" => request'[q].role \in UserRoles
                      /\ \A p \in Requests \ {q} : request'[p].id # request'[q].id
      BY DEF CreatesAlone
  <2>1. CASE q = r
    <3>1. step \in {"insert", "cleanup"} /\ request[r].step \in Creating
        BY <1>1, <2>1 DEF Creating
    <3>2. \A p \in Requests \ {r} : request[p].id # a
        BY <3>1 DEF IInv, CreatesAlone
    <3> QED
        BY <1>1, <2>1, <3>1, <3>2
  <2>2. CASE q # r
    <3>1. request[q].step \in Creating /\ request[q].id \in Ids /\ request[q].id # a
        BY <1>1, <1>2, <2>2 DEF IInv, CreatesAlone, Creating
    <3>2. /\ user[request[q].id] = NoProfile
          /\ account[request[q].id] = IF request[q].step = "provision" THEN "none" ELSE "open"
          /\ request[q].step # "cleanup" => request[q].role \in UserRoles
          /\ \A p \in Requests \ {q} : request[p].id # request[q].id
        BY <3>1 DEF IInv, CreatesAlone
    <3>3. request'[r].id # request[q].id
        BY <1>1, <3>1, NobodyAssumption DEF NoRequest
    <3> QED
        BY <1>1, <2>2, <3>1, <3>2, <3>3
  <2> QED
      BY <2>1, <2>2
<1>4. OthersHadAccounts'
  <2> SUFFICES ASSUME NEW q \in Requests
               PROVE  /\ request'[q].step \in UserSteps \ Creating => account'[request'[q].id] # "none"
                      /\ request'[q].step = "remove" => user'[request'[q].id] = NoProfile
      BY DEF OthersHadAccounts
  <2>1. CASE q = r
      BY <1>1, <2>1 DEF Creating, UserSteps
  <2>2. CASE q # r
    <3>1. request[q].step \in UserSteps \ Creating => request[q].id \in Ids
        BY <1>2 DEF UserSteps
    <3>2. request[q].id = a => request[r].step \notin Creating
        BY <2>2 DEF IInv, CreatesAlone
    <3> QED
        BY <1>1, <2>2, <3>1, <3>2 DEF IInv, OthersHadAccounts, UserSteps, Creating
  <2> QED
      BY <2>1, <2>2
<1>5. OrphansAreMinded'
  <2> SUFFICES ASSUME NEW b \in Ids \ unfinished', account'[b] \in {"open", "banned"}, user'[b] = NoProfile
               PROVE  \E q \in Requests :
                          request'[q].id = b /\ request'[q].step \in {"insert", "cleanup", "remove"}
      BY DEF OrphansAreMinded
  <2>1. CASE b = a
      BY <1>1, <2>1
  <2>2. CASE b # a
    <3>1. PICK q \in Requests : request[q].id = b /\ request[q].step \in {"insert", "cleanup", "remove"}
        BY <2>2 DEF IInv, OrphansAreMinded
    <3> QED
        BY <1>1, <2>2, <3>1
  <2> QED
      BY <2>1, <2>2
<1>6. OthersManage'
  <2> SUFFICES ASSUME ~overlapped
               PROVE  /\ \A p, q \in Requests : request'[p] # NoRequest /\ request'[q] # NoRequest => p = q
                      /\ ActiveManagers' # {}
                      /\ \A q \in Requests : Costs(request'[q]) => ActiveManagers' \ {request'[q].id} # {}
      BY <1>1 DEF OthersManage
  <2>1. request[r] # NoRequest
      BY DEF Serving, NoRequest, UserSteps
  <2>2. \A q \in Requests \ {r} : request'[q] = NoRequest
      BY <1>1, <2>1 DEF IInv, OthersManage
  <2>3. \A q \in Requests : Costs(request'[q]) =>
            q = r /\ request'[r].id = a /\ step \in {"update", "references", "delete"}
      BY <1>1, <2>2 DEF Costs, NoRequest
  <2> QED
      BY <2>2, <2>3
<1> QED
    BY <1>3, <1>4, <1>5, <1>6 DEF IInv
-------------------------------------------------------------------------------
(* What every step of a request finds.                                     *)
LEMMA AtWork ==
    ASSUME IInv, NEW r \in Requests, request[r].step # "idle"
    PROVE  /\ request[r] \in Serving /\ request[r].id \in Ids
           /\ user \in [Ids -> UserRows \cup {NoProfile}]
           /\ account \in [Ids -> {"none", "open", "banned", "gone"}]
           /\ referenced \subseteq {b \in Ids : user[b] # NoProfile} /\ unfinished \subseteq Ids
           /\ ~overlapped => ActiveManagers # {}
           /\ ~overlapped /\ Costs(request[r]) => ActiveManagers \ {request[r].id} # {}
<1>1. request[r] \in Serving
    BY Serves DEF IInv
<1> QED
    BY <1>1 DEF IInv, UsersTypeOK, Serving, OthersManage

(* Creation.                                                               *)
LEMMA CreationKeeps ==
    ASSUME IInv, NEW r \in Requests, Provision(r) \/ InsertUser(r) \/ Cleanup(r)
    PROVE  IInv'
<1>1. request[r].step \in Creating
    BY DEF Provision, InsertUser, Cleanup, Creating
<1>2. PICK a \in Ids : a = request[r].id
    BY <1>1, AtWork DEF Creating
<1>3. /\ request[r] \in Serving
      /\ user \in [Ids -> UserRows \cup {NoProfile}]
      /\ account \in [Ids -> {"none", "open", "banned", "gone"}]
      /\ referenced \subseteq {b \in Ids : user[b] # NoProfile} /\ unfinished \subseteq Ids
      /\ ~overlapped => ActiveManagers # {}
    BY <1>1, AtWork DEF Creating
<1>4. /\ user[a] = NoProfile
      /\ account[a] = IF request[r].step = "provision" THEN "none" ELSE "open"
      /\ request[r].step # "cleanup" => request[r].role \in UserRoles
    BY <1>1, <1>2 DEF IInv, CreatesAlone
<1>5. ASSUME NEW step \in {"insert", "cleanup", "idle"}, Proceed(r, step),
             user' \in [Ids -> UserRows \cup {NoProfile}],
             account' \in [Ids -> {"none", "open", "banned", "gone"}],
             \A b \in Ids \ {a} : user'[b] = user[b] /\ account'[b] = account[b],
             unfinished' = unfinished \/ unfinished' = unfinished \cup {a},
             account[a] # "none" => account'[a] # "none",
             user'[a] # NoProfile => account'[a] = "open",
             step # "idle" => user'[a] = NoProfile /\ account'[a] = "open" /\ request[r].role \in UserRoles,
             step = "idle" /\ a \notin unfinished' /\ account'[a] = "open" => user'[a] # NoProfile,
             account'[a] # "banned"
      PROVE  IInv'
  <2>1. request' \in [Requests -> Serving \cup {NoRequest}] /\ UNCHANGED <<referenced, overlapped>>
      BY <1>3, <1>5, Proceeds DEF UserSteps, IInv
  <2>2. UsersTypeOK'
      BY <1>3, <1>4, <1>5, <2>1 DEF IInv, UsersTypeOK, Serving
  <2>3. ProfileHasAccount'
      BY <1>5 DEF IInv, ProfileHasAccount
  <2>4. ActiveManagers \subseteq ActiveManagers'
      BY <1>4, <1>5 DEF ActiveManagers, NoProfile, Manager
  <2>5. /\ step \in UserSteps \cup {"idle"} /\ step \notin UserSteps \ Creating
        /\ step \notin {"provision", "remove", "update", "references", "delete"}
      BY DEF UserSteps, Creating
  <2>6. ~overlapped => ActiveManagers' # {}
      BY <1>3, <2>4
  <2> QED
      BY <1>1, <1>2, <1>3, <1>5, <2>2, <2>3, <2>5, <2>6, GoesOn
<1>6. CASE Provision(r)
    BY <1>2, <1>3, <1>4, <1>5, <1>6 DEF Provision, Unfinished
<1>7. CASE InsertUser(r)
  <2>1. [role |-> request[r].role, status |-> "active"] \in UserRows
      BY <1>4, <1>7 DEF InsertUser, UserRows, Statuses
  <2> QED
      BY <1>2, <1>3, <1>4, <1>5, <1>7, <2>1 DEF InsertUser, UserRows, NoProfile, UserRoles
<1>8. CASE Cleanup(r)
    BY <1>2, <1>3, <1>4, <1>5, <1>8 DEF Cleanup, DeleteAccount, Unfinished
<1> QED
    BY <1>6, <1>7, <1>8

(* Update, whose status is mirrored to an account that is not gone.        *)
LEMMA UpdateKeeps ==
    ASSUME IInv, NEW r \in Requests, Update(r) \/ SetBan(r)
    PROVE  IInv'
<1>1. request[r].step \in {"update", "ban"}
    BY DEF Update, SetBan
<1>2. PICK a \in Ids : a = request[r].id
    BY <1>1, AtWork
<1>3. /\ request[r] \in Serving
      /\ user \in [Ids -> UserRows \cup {NoProfile}]
      /\ account \in [Ids -> {"none", "open", "banned", "gone"}]
      /\ referenced \subseteq {b \in Ids : user[b] # NoProfile} /\ unfinished \subseteq Ids
      /\ ~overlapped => ActiveManagers # {}
      /\ ~overlapped /\ Costs(request[r]) => ActiveManagers \ {a} # {}
    BY <1>1, <1>2, AtWork
<1>4. account[a] # "none"
    BY <1>1, <1>2 DEF IInv, OthersHadAccounts, UserSteps, Creating
<1>5. \A b \in Ids \ unfinished : account[b] \in {"open", "banned"} /\ user[b] = NoProfile =>
          \E q \in Requests \ {r} : request[q].id = b /\ request[q].step \in {"insert", "cleanup", "remove"}
    BY <1>1 DEF IInv, OrphansAreMinded
<1>6. ASSUME NEW step \in {"ban", "idle"}, Proceed(r, step), UNCHANGED unfinished,
             user' \in [Ids -> UserRows \cup {NoProfile}],
             account' \in [Ids -> {"none", "open", "banned", "gone"}],
             \A b \in Ids \ {a} : user'[b] = user[b] /\ account'[b] = account[b],
             user'[a] = NoProfile <=> user[a] = NoProfile,
             account'[a] \in {"open", "banned"} <=> account[a] \in {"open", "banned"},
             account'[a] # "none",
             ~overlapped => ActiveManagers' # {}
      PROVE  IInv'
  <2>1. request' \in [Requests -> Serving \cup {NoRequest}] /\ UNCHANGED <<referenced, overlapped>>
      BY <1>3, <1>6, Proceeds DEF UserSteps, IInv
  <2>2. UsersTypeOK'
      BY <1>3, <1>6, <2>1 DEF IInv, UsersTypeOK, Serving
  <2>3. ProfileHasAccount'
      BY <1>6 DEF IInv, ProfileHasAccount
  <2>4. step \in UserSteps \cup {"idle"} /\ step \notin {"provision", "insert", "cleanup", "remove", "update", "references", "delete"}
      BY DEF UserSteps
  <2>5. account'[a] \in {"open", "banned"} /\ user'[a] = NoProfile /\ a \notin unfinished' =>
          \E q \in Requests \ {r} : request[q].id = a /\ request[q].step \in {"insert", "cleanup", "remove"}
      BY <1>5, <1>6
  <2> QED
      BY <1>2, <1>3, <1>6, <2>2, <2>3, <2>4, <2>5, GoesOn
<1>7. CASE Update(r)
  <2> DEFINE q == request[r]
             new == IF user[a] = NoProfile THEN NoProfile
                    ELSE [role |-> IF q.role = "none" THEN user[a].role ELSE q.role,
                          status |-> IF q.status = "none" THEN user[a].status ELSE q.status]
  <2>1. user' = [user EXCEPT ![a] = new] /\ UNCHANGED <<account, unfinished>>
      BY <1>2, <1>7 DEF Update
  <2>2. user[a] # NoProfile => user[a] \in UserRows
      BY <1>3
  <2>3. (user[a] # NoProfile => new \in UserRows) /\ (user[a] = NoProfile => new = NoProfile)
      BY <1>3, <2>2 DEF UserRows, Serving
  <2>4. new = NoProfile <=> user[a] = NoProfile
      BY <2>3 DEF UserRows, NoProfile, UserRoles, Manager
  <2>5. user'[a] = new /\ \A b \in Ids \ {a} : user'[b] = user[b]
      BY <1>3, <2>1
  <2>6. ASSUME ~overlapped PROVE ActiveManagers' # {}
    <3>1. CASE Costs(q)
      <4>1. PICK m \in ActiveManagers : m # a
          BY <1>3, <2>6, <3>1
      <4> QED
          BY <2>5, <4>1 DEF ActiveManagers
    <3>2. CASE ~Costs(q)
      <4>1. PICK m \in Ids : user[m] = [role |-> Manager, status |-> "active"]
          BY <1>3, <2>6 DEF ActiveManagers
      <4>2. q.status \in {"none", "active"} /\ q.role \in {"none", Manager}
          BY <1>3, <1>7, <3>2 DEF Update, Costs, Serving, Statuses, UserRoles
      <4>3. CASE m # a
          BY <2>5, <4>1, <4>3 DEF ActiveManagers
      <4>4. CASE m = a
        <5>1. new = [role |-> Manager, status |-> "active"]
            BY <4>1, <4>2, <4>4 DEF NoProfile
        <5> QED
            BY <2>5, <4>4, <5>1 DEF ActiveManagers
      <4> QED
          BY <4>3, <4>4
    <3> QED
        BY <3>1, <3>2
  <2> HIDE DEF new
  <2>7. user' \in [Ids -> UserRows \cup {NoProfile}]
      BY <1>3, <2>1, <2>3
  <2>8. PICK step \in {"ban", "idle"} : Proceed(r, step)
      BY <1>7 DEF Update
  <2> QED
      BY <1>3, <1>4, <1>6, <2>1, <2>4, <2>5, <2>6, <2>7, <2>8
<1>8. CASE SetBan(r)
  <2>1. UNCHANGED <<user, unfinished>> /\ Proceed(r, "idle")
      BY <1>8 DEF SetBan
  <2>2. ActiveManagers' = ActiveManagers
      BY <2>1 DEF ActiveManagers
  <2>3. PICK new \in {"banned", "open"} :
            \/ account' = account
            \/ account[a] # "gone" /\ account' = [account EXCEPT ![a] = new]
      BY <1>2, <1>8 DEF SetBan
  <2> QED
      BY <1>3, <1>4, <1>6, <2>1, <2>2, <2>3
<1> QED
    BY <1>7, <1>8

(* Deletion.                                                               *)
LEMMA DeletionKeeps ==
    ASSUME IInv, NEW r \in Requests, CheckReferences(r) \/ DeleteUser(r) \/ RemoveAccount(r)
    PROVE  IInv'
<1>1. request[r].step \in {"references", "delete", "remove"}
    BY DEF CheckReferences, DeleteUser, RemoveAccount
<1>2. PICK a \in Ids : a = request[r].id
    BY <1>1, AtWork
<1>3. /\ request[r] \in Serving
      /\ user \in [Ids -> UserRows \cup {NoProfile}]
      /\ account \in [Ids -> {"none", "open", "banned", "gone"}]
      /\ referenced \subseteq {b \in Ids : user[b] # NoProfile} /\ unfinished \subseteq Ids
      /\ ~overlapped => ActiveManagers # {}
      /\ ~overlapped /\ request[r].step # "remove" => ActiveManagers \ {a} # {}
    BY <1>1, <1>2, AtWork DEF Costs
<1>4. account[a] # "none" /\ (request[r].step = "remove" => user[a] = NoProfile)
    BY <1>1, <1>2 DEF IInv, OthersHadAccounts, UserSteps, Creating
<1>5. ASSUME NEW step \in {"delete", "remove", "idle"}, Proceed(r, step),
             user' \in [Ids -> UserRows \cup {NoProfile}],
             account' \in [Ids -> {"none", "open", "banned", "gone"}],
             \A b \in Ids \ {a} : user'[b] = user[b] /\ account'[b] = account[b],
             unfinished' = unfinished \/ unfinished' = unfinished \cup {a},
             user'[a] \in {user[a], NoProfile}, account'[a] \in {account[a], "gone"},
             user'[a] # NoProfile => account'[a] = account[a],
             user'[a] = NoProfile => a \notin referenced,
             step = "remove" => user'[a] = NoProfile,
             user'[a] # user[a] => step = "remove",
             step = "idle" /\ request[r].step = "remove" => account'[a] = "gone" \/ a \in unfinished',
             step = "delete" => request[r].step = "references" /\ UNCHANGED user,
             request[r].step = "remove" => UNCHANGED user
      PROVE  IInv'
  <2>1. request' \in [Requests -> Serving \cup {NoRequest}] /\ UNCHANGED <<referenced, overlapped>>
      BY <1>3, <1>5, Proceeds DEF UserSteps, IInv
  <2>2. UsersTypeOK'
      BY <1>3, <1>5, <2>1 DEF IInv, UsersTypeOK, Serving
  <2>3. ProfileHasAccount'
      BY <1>5 DEF IInv, ProfileHasAccount
  <2>4. step \in UserSteps \cup {"idle"} /\ step \notin {"provision", "insert", "cleanup", "update", "references"}
      BY DEF UserSteps
  <2>5. account'[a] \in {"open", "banned"} /\ user'[a] = NoProfile =>
            \/ a \in unfinished' \/ step \in {"insert", "cleanup", "remove"}
            \/ \E q \in Requests \ {r} : request[q].id = a /\ request[q].step \in {"insert", "cleanup", "remove"}
    <3> SUFFICES ASSUME account'[a] \in {"open", "banned"}, user'[a] = NoProfile,
                        a \notin unfinished', step # "remove"
                 PROVE  \E q \in Requests \ {r} :
                            request[q].id = a /\ request[q].step \in {"insert", "cleanup", "remove"}
        OBVIOUS
    <3>1. user[a] = NoProfile /\ account[a] \in {"open", "banned"} /\ a \notin unfinished
        BY <1>5
    <3>2. request[r].step # "remove"
        BY <1>5
    <3> QED
        BY <1>1, <3>1, <3>2 DEF IInv, OrphansAreMinded
  <2>6. /\ ~overlapped => ActiveManagers' # {}
        /\ ~overlapped /\ step = "delete" => ActiveManagers' \ {a} # {}
    <3>1. CASE request[r].step = "remove"
        BY <1>3, <1>5, <3>1 DEF ActiveManagers
    <3>2. CASE request[r].step # "remove"
        BY <1>3, <1>5, <3>2 DEF ActiveManagers
    <3> QED
        BY <3>1, <3>2
  <2>7. account[a] # "none" => account'[a] # "none"
      BY <1>5
  <2> QED
      BY <1>2, <1>3, <1>4, <1>5, <2>2, <2>3, <2>4, <2>5, <2>6, <2>7, GoesOn
<1>6. user[a] = NoProfile => a \notin referenced
    BY <1>3
<1>7. CASE CheckReferences(r)
    BY <1>2, <1>3, <1>5, <1>6, <1>7 DEF CheckReferences
<1>8. CASE DeleteUser(r)
  <2>1. CASE a \in referenced
      BY <1>2, <1>3, <1>5, <1>6, <1>8, <2>1 DEF DeleteUser
  <2>2. CASE a \notin referenced
      BY <1>2, <1>3, <1>5, <1>8, <2>2 DEF DeleteUser
  <2> QED
      BY <2>1, <2>2
<1>9. CASE RemoveAccount(r)
    BY <1>2, <1>3, <1>4, <1>5, <1>6, <1>9 DEF RemoveAccount, DeleteAccount, Unfinished
<1> QED
    BY <1>7, <1>8, <1>9

LEMMA DeathKeeps ==
    ASSUME IInv, NEW r \in Requests, DieServing(r)
    PROVE  IInv'
<1>1. request[r].step # "idle"
    BY DEF DieServing, IInv, UsersTypeOK, NoRequest, UserSteps
<1>2. PICK a \in Ids : a = request[r].id
    BY <1>1, AtWork
<1>3. request[r] \in Serving /\ unfinished \subseteq Ids /\ (~overlapped => ActiveManagers # {})
    BY <1>1, AtWork
<1>4. /\ UNCHANGED <<user, account>> /\ Proceed(r, "idle")
      /\ unfinished' = unfinished \/ unfinished' = unfinished \cup {a}
      /\ request[r].step \in {"insert", "cleanup", "remove"} => a \in unfinished'
    BY <1>2 DEF DieServing, Unfinished
<1>5. UsersTypeOK'
  <2>1. request' \in [Requests -> Serving \cup {NoRequest}] /\ UNCHANGED <<referenced, overlapped>>
      BY <1>3, <1>4, Proceeds DEF IInv
  <2> QED
      BY <1>3, <1>4, <2>1 DEF IInv, UsersTypeOK, Serving
<1>6. ProfileHasAccount' /\ ActiveManagers' = ActiveManagers
    BY <1>4 DEF IInv, ProfileHasAccount, ActiveManagers
<1>7. account'[a] \in {"open", "banned"} /\ user'[a] = NoProfile =>
          \/ a \in unfinished'
          \/ \E q \in Requests \ {r} : request[q].id = a /\ request[q].step \in {"insert", "cleanup", "remove"}
    BY <1>4 DEF IInv, OrphansAreMinded
<1> QED
    BY <1>2, <1>3, <1>4, <1>5, <1>6, <1>7, GoesOn DEF UserSteps

LEMMA NextKeeps == IInv /\ [UsersNext]_userVars => IInv'
<1> SUFFICES ASSUME IInv, [UsersNext]_userVars PROVE IInv'
    OBVIOUS
<1>1. CASE UNCHANGED userVars
    BY <1>1 DEF IInv, userVars, UsersTypeOK, ProfileHasAccount, CreatesAlone, OthersHadAccounts, OrphansAreMinded,
       OthersManage, ActiveManagers
<1>2. ASSUME NEW r \in Requests, NEW a \in Ids, NEW role \in UserRoles, BeginCreate(r, a, role)
      PROVE  IInv'
  <2> DEFINE s == [step |-> "provision", id |-> a, role |-> role, status |-> "none", seen |-> "none"]
  <2>1. s \in Serving /\ s.step = "provision" /\ s.id = a /\ s.role = role
      BY DEF Serving, UserSteps
  <2>2. Enter(r, s) /\ account[a] = "none" /\ \A q \in Requests : request[q].id # a
      BY <1>2 DEF BeginCreate
  <2> HIDE DEF s
  <2> QED
      BY <2>1, <2>2, Enters DEF Costs
<1>3. ASSUME NEW r \in Requests, NEW a \in Ids, NEW role \in UserRoles \cup {"none"},
             NEW status \in Statuses \cup {"none"}, BeginUpdate(r, a, role, status)
      PROVE  IInv'
  <2> DEFINE s == [step |-> "update", id |-> a, role |-> role, status |-> status, seen |-> user[a].status]
  <2>1. user[a] # NoProfile /\ Enter(r, s)
      BY <1>3 DEF BeginUpdate
  <2>2. s \in Serving /\ s.step = "update" /\ s.id = a
      BY <2>1 DEF Serving, UserSteps, IInv, UsersTypeOK, UserRows
  <2>3. Costs(s) => ActiveManagers \ {a} # {}
      BY <1>3 DEF BeginUpdate, Costs
  <2> HIDE DEF s
  <2> QED
      BY <2>1, <2>2, <2>3, Enters
<1>4. ASSUME NEW r \in Requests, NEW a \in Ids, BeginDelete(r, a)
      PROVE  IInv'
  <2> DEFINE s == [step |-> "references", id |-> a, role |-> "none", status |-> "none", seen |-> "none"]
  <2>1. s \in Serving /\ s.step = "references" /\ s.id = a
      BY DEF Serving, UserSteps
  <2>2. Enter(r, s) /\ user[a] # NoProfile /\ ActiveManagers \ {a} # {}
      BY <1>4 DEF BeginDelete
  <2> HIDE DEF s
  <2> QED
      BY <2>1, <2>2, Enters
<1>5. ASSUME NEW a \in Ids, Refer(a)
      PROVE  IInv'
  <2>1. UsersTypeOK'
      BY <1>5 DEF Refer, IInv, UsersTypeOK
  <2> QED
      BY <1>5, <2>1 DEF Refer, IInv, ProfileHasAccount, CreatesAlone, OthersHadAccounts, OrphansAreMinded,
         OthersManage, ActiveManagers
<1> QED
    BY <1>1, <1>2, <1>3, <1>4, <1>5, CreationKeeps, UpdateKeeps, DeletionKeeps, DeathKeeps DEF UsersNext

LEMMA Invariance == UsersSpec => []IInv
BY Initially, NextKeeps, PTL DEF UsersSpec
-------------------------------------------------------------------------------
(* Rows, accounts and requests keep their types (users.py).                *)
THEOREM Typing == UsersSpec => []UsersTypeOK
BY Invariance, PTL DEF IInv

(* Whatever calls to GoTrue fail and wherever requests die, a profile has  *)
(* its account, and an account without a profile is one whose creation or  *)
(* deletion was broken off (users.py:117-260).                             *)
THEOREM AccountsAreProfiles == UsersSpec => []AccountsMatchProfiles
<1>1. IInv => AccountsMatchProfiles
    BY DEF IInv, AccountsMatchProfiles, NoOrphanAccount, OrphansAreMinded, Settled
<1> QED
    BY <1>1, Invariance, PTL

(* Managers who act one after the other never leave the firm without an    *)
(* active manager (users.py:170), whatever fails.                          *)
THEOREM FirmKeepsManager == UsersSpec => []ManagerRemains
<1>1. IInv => ManagerRemains
    BY DEF IInv, ManagerRemains, OthersManage
<1> QED
    BY <1>1, Invariance, PTL
-------------------------------------------------------------------------------
(* Sequences: what RemoveAt and a replacement leave.                       *)
LEMMA Concatenation ==
    ASSUME NEW S, NEW u \in Seq(S), NEW v \in Seq(S)
    PROVE  /\ u \o v \in Seq(S) /\ Len(u \o v) = Len(u) + Len(v)
           /\ \A k \in 1..Len(u) : (u \o v)[k] = u[k]
           /\ \A k \in 1..Len(v) : (u \o v)[Len(u) + k] = v[k]
OBVIOUS

(* A sequence without one of its elements.                                 *)
LEMMA Removal ==
    ASSUME NEW S, NEW s \in Seq(S), NEW i \in 1..Len(s)
    PROVE  /\ RemoveAt(s, i) \in Seq(S)
           /\ Len(RemoveAt(s, i)) = Len(s) - 1
           /\ \A k \in 1..Len(s) - 1 : RemoveAt(s, i)[k] = IF k < i THEN s[k] ELSE s[k + 1]
<1>1. SubSeq(s, 1, i - 1) \in Seq(S) /\ SubSeq(s, i + 1, Len(s)) \in Seq(S)
    OBVIOUS
<1>2. Len(SubSeq(s, 1, i - 1)) = i - 1 /\ Len(SubSeq(s, i + 1, Len(s))) = Len(s) - i
    OBVIOUS
<1>3. \A k \in 1..i - 1 : SubSeq(s, 1, i - 1)[k] = s[k]
    OBVIOUS
<1>4. \A k \in 1..Len(s) - i : SubSeq(s, i + 1, Len(s))[k] = s[k + i]
    OBVIOUS
<1> DEFINE a == SubSeq(s, 1, i - 1)
           b == SubSeq(s, i + 1, Len(s))
           r == a \o b
<1>5. r = RemoveAt(s, i)
    BY DEF RemoveAt
<1> HIDE DEF a, b
<1>6. /\ r \in Seq(S) /\ Len(r) = Len(a) + Len(b)
      /\ \A k \in 1..Len(a) : r[k] = a[k]
      /\ \A k \in 1..Len(b) : r[Len(a) + k] = b[k]
  <2>1. a \in Seq(S) /\ b \in Seq(S)
      BY <1>1 DEF a, b
  <2> QED
      BY <2>1, Concatenation
<1>7. Len(a) = i - 1 /\ Len(b) = Len(s) - i
    BY <1>2 DEF a, b
<1> HIDE DEF r
<1>8. /\ r \in Seq(S) /\ Len(r) = (i - 1) + (Len(s) - i)
      /\ \A k \in 1..i - 1 : r[k] = a[k]
      /\ \A k \in 1..Len(s) - i : r[(i - 1) + k] = b[k]
    BY <1>6, <1>7
<1>9. \A k \in 1..i - 1 : r[k] = s[k]
    BY <1>3, <1>8 DEF a
<1>10. \A k \in 1..Len(s) - i : r[(i - 1) + k] = s[k + i]
    BY <1>4, <1>8 DEF b
<1>11. ASSUME NEW k \in 1..Len(s) - 1
       PROVE  r[k] = IF k < i THEN s[k] ELSE s[k + 1]
  <2>1. CASE k < i
      BY <1>9, <2>1
  <2>2. CASE ~(k < i)
    <3>1. k - (i - 1) \in 1..Len(s) - i /\ (i - 1) + (k - (i - 1)) = k /\ k - (i - 1) + i = k + 1
        BY <2>2
    <3> QED
        BY <1>10, <2>2, <3>1
  <2> QED
      BY <2>1, <2>2
<1> QED
    BY <1>5, <1>8, <1>11

(* A sequence with another element in one of its places.                   *)
LEMMA Replacement ==
    ASSUME NEW S, NEW s \in Seq(S), NEW i \in 1..Len(s), NEW e \in S
    PROVE  /\ [s EXCEPT ![i] = e] \in Seq(S)
           /\ Len([s EXCEPT ![i] = e]) = Len(s)
           /\ \A k \in 1..Len(s) : [s EXCEPT ![i] = e][k] = IF k = i THEN e ELSE s[k]
OBVIOUS
-------------------------------------------------------------------------------
Questions ==
    [token : Accounts \cup {None, Gone}, answer : Accounts \cup {None, Gone, Failed, Refused},
     login : BOOLEAN]

AskedTyped == questions \in [Tabs -> Seq(Questions)]

(* While a tab signs in there is room for the question that follows.       *)
RoomToAsk == \A t \in Tabs : signing[t] \in Accounts => Len(questions[t]) < MaxRefresh

(* What a tab that was not left behind has asked is about the session, and *)
(* so is what it was told.                                                 *)
Current(q) == {q.token, q.answer} \cap Accounts \subseteq {session}

AskedIsCurrent ==
    \A t \in Tabs \ overtaken : \A i \in 1..Len(questions[t]) : Current(questions[t][i])

ContextIsCurrent ==
    \A t \in Tabs \ overtaken :
        questions[t] = <<>> /\ shownUser[t] # None => session \in {shownUser[t], None}

SessionInv ==
    /\ SessionTypeOK /\ AskedTyped /\ RoomToAsk
    /\ AskedIsCurrent /\ ContextIsCurrent

LEMMA NewQuestion ==
    /\ Question(FALSE) \in Questions /\ Current(Question(FALSE))
    /\ Question(TRUE) \in Questions /\ Current(Question(TRUE))
BY AccountsAssumption DEF Question, Questions, Current

LEMMA OneQuestion ==
    /\ <<Question(FALSE)>> \in Seq(Questions) /\ Len(<<Question(FALSE)>>) = 1
    /\ <<Question(FALSE)>> # <<>>
    /\ \A i \in 1..1 : Current(<<Question(FALSE)>>[i])
<1> DEFINE q == Question(FALSE)
<1>1. q \in Questions /\ Current(q)
    BY NewQuestion
<1> HIDE DEF q
<1>2. <<q>> \in Seq(Questions) /\ Len(<<q>>) = 1 /\ <<q>> # <<>> /\ <<q>>[1] = q
    BY <1>1
<1>3. \A i \in 1..1 : <<q>>[i] = q
    BY <1>2
<1>4. \A i \in 1..1 : Current(<<q>>[i])
    BY <1>1, <1>3
<1> QED
    BY <1>2, <1>4 DEF q

LEMMA SessionInitInv == SessionInit => SessionInv
<1> SUFFICES ASSUME SessionInit PROVE SessionInv
    OBVIOUS
<1>1. \A t \in Tabs : questions[t] = <<Question(FALSE)>> /\ Len(questions[t]) = 1 /\ questions[t] # <<>>
    BY OneQuestion DEF SessionInit
<1>2. AskedTyped
    BY OneQuestion DEF SessionInit, AskedTyped
<1>3. SessionTypeOK
  <2>1. \A t \in Tabs : Len(questions[t]) <= MaxRefresh
    <3>1. \A t \in Tabs : Len(questions[t]) = 1
        BY <1>1
    <3>2. 1 <= MaxRefresh
        BY RefreshAssumption
    <3> QED
        BY <3>1, <3>2
  <2>2. location \in [Tabs -> PageRoles \cup {Dashboard, Login}]
      BY DEF SessionInit
  <2> QED
      BY <2>1, <2>2 DEF SessionInit, SessionTypeOK
<1>4. RoomToAsk
    BY AccountsAssumption DEF SessionInit, RoomToAsk
<1>5. AskedIsCurrent
    BY <1>1, OneQuestion DEF AskedIsCurrent
<1>6. ContextIsCurrent
    BY <1>1 DEF ContextIsCurrent
<1> QED
    BY <1>2, <1>3, <1>4, <1>5, <1>6 DEF SessionInv

(* What replaces the questions of one tab.                                 *)
LEMMA QuestionsChange ==
    ASSUME SessionInv, NEW t \in Tabs, NEW s \in Seq(Questions), questions' = [questions EXCEPT ![t] = s],
           Len(s) <= MaxRefresh, signing'[t] \in Accounts => Len(s) < MaxRefresh,
           \A u \in Tabs \ {t} : signing'[u] = signing[u],
           session' = session, overtaken' \subseteq overtaken, overtaken \ {t} \subseteq overtaken',
           \A u \in Tabs \ {t} : shownUser'[u] = shownUser[u],
           t \notin overtaken' => \A i \in 1..Len(s) : Current(s[i]),
           t \notin overtaken' /\ s = <<>> /\ shownUser'[t] # None => session \in {shownUser'[t], None}
    PROVE  /\ AskedTyped' /\ RoomToAsk' /\ AskedIsCurrent' /\ ContextIsCurrent'
           /\ \A u \in Tabs : Len(questions'[u]) <= MaxRefresh
<1>1. questions'[t] = s /\ \A u \in Tabs \ {t} : questions'[u] = questions[u]
    BY DEF SessionInv, AskedTyped
<1>2. AskedTyped'
    BY DEF SessionInv, AskedTyped
<1>3. RoomToAsk'
    BY <1>1 DEF SessionInv, RoomToAsk
<1>4. AskedIsCurrent'
    BY <1>1 DEF SessionInv, AskedIsCurrent, Current
<1>5. ContextIsCurrent'
    BY <1>1 DEF SessionInv, ContextIsCurrent
<1>6. \A u \in Tabs : Len(questions'[u]) <= MaxRefresh
    BY <1>1 DEF SessionInv, SessionTypeOK
<1> QED
    BY <1>2, <1>3, <1>4, <1>5, <1>6

LEMMA AskMeInv ==
    ASSUME SessionInv, NEW t \in Tabs, NEW i \in DOMAIN questions[t], AskMe(t, i)
    PROVE  SessionInv'
<1> DEFINE q == IF session = None THEN Told(questions[t][i], Gone, Gone) ELSE Told(questions[t][i], session, None)
           s == [questions[t] EXCEPT ![i] = q]
<1>1. questions[t] \in Seq(Questions) /\ i \in 1..Len(questions[t]) /\ questions[t][i] \in Questions
    BY DEF SessionInv, AskedTyped
<1>2. q \in Questions /\ Current(q)
    BY <1>1, AccountsAssumption DEF SessionInv, SessionTypeOK, Told, Questions, Current
<1>3. questions' = [questions EXCEPT ![t] = s]
    BY DEF AskMe
<1> HIDE DEF q
<1>4. s \in Seq(Questions) /\ Len(s) = Len(questions[t]) /\ \A k \in 1..Len(s) : s[k] = IF k = i THEN q ELSE questions[t][k]
    BY <1>1, <1>2, Replacement
<1>5. s # <<>>
    BY <1>1, <1>4
<1> HIDE DEF s
<1>6. UNCHANGED <<session, shownUser, loading, location, signing, active, acts, overtaken>>
    BY DEF AskMe
<1>7. /\ AskedTyped' /\ RoomToAsk' /\ AskedIsCurrent' /\ ContextIsCurrent'
      /\ \A u \in Tabs : Len(questions'[u]) <= MaxRefresh
  <2>1. Len(s) <= MaxRefresh /\ (signing[t] \in Accounts => Len(s) < MaxRefresh)
      BY <1>4 DEF SessionInv, SessionTypeOK, RoomToAsk
  <2>2. t \notin overtaken => \A k \in 1..Len(s) : Current(s[k])
      BY <1>2, <1>4 DEF SessionInv, AskedIsCurrent
  <2> QED
      BY <1>3, <1>4, <1>5, <1>6, <2>1, <2>2, QuestionsChange
<1> QED
    BY <1>6, <1>7 DEF SessionInv, SessionTypeOK

LEMMA AnswerMeInv ==
    ASSUME SessionInv, NEW t \in Tabs, NEW i \in DOMAIN questions[t], AnswerMe(t, i)
    PROVE  SessionInv'
<1>1. questions[t] \in Seq(Questions) /\ i \in 1..Len(questions[t]) /\ questions[t][i] \in Questions
    BY DEF SessionInv, AskedTyped
<1>2. PICK a \in {IF questions[t][i].token \in active THEN questions[t][i].token ELSE Refused, Failed} :
           questions' = [questions EXCEPT ![t][i] = Told(@, @.token, a)]
    BY DEF AnswerMe
<1> DEFINE q == Told(questions[t][i], questions[t][i].token, a)
           s == [questions[t] EXCEPT ![i] = q]
<1>3. questions' = [questions EXCEPT ![t] = s]
    BY <1>2
<1>4. /\ q \in Questions
      /\ t \notin overtaken => Current(q)
  <2>1. a \in Accounts => a = questions[t][i].token
      BY <1>2, AccountsAssumption
  <2>2. a \in Accounts \cup {Refused, Failed}
      BY <1>2 DEF SessionInv, SessionTypeOK
  <2>3. t \notin overtaken => Current(questions[t][i])
      BY <1>1 DEF SessionInv, AskedIsCurrent
  <2> QED
      BY <1>1, <2>1, <2>2, <2>3 DEF Told, Questions, Current
<1> HIDE DEF q
<1>5. s \in Seq(Questions) /\ Len(s) = Len(questions[t]) /\ \A k \in 1..Len(s) : s[k] = IF k = i THEN q ELSE questions[t][k]
    BY <1>1, <1>4, Replacement
<1>6. s # <<>>
    BY <1>1, <1>5
<1> HIDE DEF s
<1>7. UNCHANGED <<session, shownUser, loading, location, signing, active, acts, overtaken>>
    BY DEF AnswerMe
<1>8. /\ AskedTyped' /\ RoomToAsk' /\ AskedIsCurrent' /\ ContextIsCurrent'
      /\ \A u \in Tabs : Len(questions'[u]) <= MaxRefresh
  <2>1. Len(s) <= MaxRefresh /\ (signing[t] \in Accounts => Len(s) < MaxRefresh)
      BY <1>5 DEF SessionInv, SessionTypeOK, RoomToAsk
  <2>2. t \notin overtaken => \A k \in 1..Len(s) : Current(s[k])
      BY <1>4, <1>5 DEF SessionInv, AskedIsCurrent
  <2> QED
      BY <1>3, <1>5, <1>6, <1>7, <2>1, <2>2, QuestionsChange
<1> QED
    BY <1>7, <1>8 DEF SessionInv, SessionTypeOK

(* A document that is loaded anew.                                         *)
LEMMA FreshInv ==
    ASSUME SessionInv, NEW t \in Tabs, Fresh(t), UNCHANGED <<session, active>>,
           location' \in [Tabs -> PageRoles \cup {Dashboard, Login}]
    PROVE  SessionInv'
<1>3. shownUser'[t] = None /\ signing'[t] = None /\ signing'[t] \notin Accounts
    BY AccountsAssumption DEF Fresh, SessionInv, SessionTypeOK
<1> DEFINE s == <<Question(FALSE)>>
<1> HIDE DEF s
<1>4. /\ AskedTyped' /\ RoomToAsk' /\ AskedIsCurrent' /\ ContextIsCurrent'
      /\ \A u \in Tabs : Len(questions'[u]) <= MaxRefresh
  <2>1. questions' = [questions EXCEPT ![t] = s] /\ overtaken' = overtaken \ {t}
      BY DEF Fresh, s
  <2>2. \A u \in Tabs \ {t} : signing'[u] = signing[u] /\ shownUser'[u] = shownUser[u]
      BY DEF Fresh, SessionInv, SessionTypeOK
  <2>3. s \in Seq(Questions) /\ s # <<>> /\ \A i \in 1..Len(s) : Current(s[i])
      BY OneQuestion DEF s
  <2>4. Len(s) <= MaxRefresh
      BY OneQuestion, RefreshAssumption DEF s
  <2> QED
      BY <1>3, <2>1, <2>2, <2>3, <2>4, QuestionsChange
<1>5. SessionTypeOK'
    BY <1>4 DEF SessionInv, SessionTypeOK, Fresh
<1> QED
    BY <1>4, <1>5 DEF SessionInv

(* The place of a tab is all that changes.                                 *)
LEMMA MovesInv ==
    ASSUME SessionInv, NEW t \in Tabs, NEW roles \in PageRoles \cup {Dashboard, Login},
           location' = [location EXCEPT ![t] = roles],
           UNCHANGED <<session, shownUser, loading, questions, signing, active, overtaken>>
    PROVE  SessionInv'
<1>1. SessionTypeOK'
    BY DEF SessionInv, SessionTypeOK
<1> QED
    BY <1>1 DEF SessionInv, AskedTyped, RoomToAsk, AskedIsCurrent, ContextIsCurrent, Current

LEMMA HearMeInv ==
    ASSUME SessionInv, NEW t \in Tabs, NEW i \in DOMAIN questions[t], HearMe(t, i)
    PROVE  SessionInv'
<1> DEFINE q == questions[t][i]
<1>1. CASE q.login /\ q.answer \in Accounts
  <2>1. Fresh(t) /\ location' = [location EXCEPT ![t] = Dashboard] /\ UNCHANGED <<session, active>>
      BY <1>1 DEF HearMe
  <2>2. location' \in [Tabs -> PageRoles \cup {Dashboard, Login}]
      BY <2>1 DEF SessionInv, SessionTypeOK
  <2> QED
      BY <2>1, <2>2, FreshInv
<1>2. CASE ~(q.login /\ q.answer \in Accounts)
  <2> DEFINE s == RemoveAt(questions[t], i)
  <2>1. questions[t] \in Seq(Questions) /\ i \in 1..Len(questions[t]) /\ q \in Questions
      BY DEF SessionInv, AskedTyped
  <2>2. /\ shownUser' = [shownUser EXCEPT ![t] = Context(t, q.answer)]
        /\ loading' = [loading EXCEPT ![t] = FALSE]
        /\ questions' = [questions EXCEPT ![t] = s]
        /\ signing' = IF q.login THEN [signing EXCEPT ![t] = None] ELSE signing
        /\ UNCHANGED <<session, location, active, overtaken>>
      BY <1>2 DEF HearMe
  <2>3. /\ s \in Seq(Questions) /\ Len(s) = Len(questions[t]) - 1
        /\ \A k \in 1..Len(questions[t]) - 1 : s[k] = IF k < i THEN questions[t][k] ELSE questions[t][k + 1]
      BY <2>1, Removal
  <2> HIDE DEF s
  <2>4. /\ shownUser'[t] = Context(t, q.answer)
        /\ \A u \in Tabs \ {t} : shownUser'[u] = shownUser[u] /\ signing'[u] = signing[u]
        /\ signing'[t] \in {signing[t], None}
      BY <2>2 DEF SessionInv, SessionTypeOK
  <2>5. Len(s) <= MaxRefresh /\ Len(s) < MaxRefresh
      BY <2>1, <2>3, RefreshAssumption DEF SessionInv, SessionTypeOK
  <2>6. t \notin overtaken => \A k \in 1..Len(s) : Current(s[k])
    <3> SUFFICES ASSUME t \notin overtaken, NEW k \in 1..Len(s) PROVE Current(s[k])
        OBVIOUS
    <3>1. k \in 1..Len(questions[t]) /\ k + 1 \in 1..Len(questions[t])
        BY <2>1, <2>3
    <3>2. Current(questions[t][k]) /\ Current(questions[t][k + 1])
        BY <3>1 DEF SessionInv, AskedIsCurrent
    <3> QED
        BY <2>1, <2>3, <3>2
  <2>7. t \notin overtaken /\ shownUser'[t] # None => session = shownUser'[t]
    <3> SUFFICES ASSUME t \notin overtaken, shownUser'[t] # None PROVE session = shownUser'[t]
        OBVIOUS
    <3>1. q.answer \in Accounts /\ shownUser'[t] = q.answer
        BY <2>4 DEF Context
    <3>2. Current(q)
        BY <2>1 DEF SessionInv, AskedIsCurrent
    <3> QED
        BY <3>1, <3>2 DEF Current
  <2>8. /\ AskedTyped' /\ RoomToAsk' /\ AskedIsCurrent' /\ ContextIsCurrent'
        /\ \A u \in Tabs : Len(questions'[u]) <= MaxRefresh
      BY <2>2, <2>3, <2>4, <2>5, <2>6, <2>7, QuestionsChange
  <2>9. Context(t, q.answer) \in Accounts \cup {None}
      BY DEF Context
  <2> QED
      BY <2>2, <2>8, <2>9 DEF SessionInv, SessionTypeOK
<1> QED
    BY <1>1, <1>2

LEMMA SignedInInv ==
    ASSUME SessionInv, NEW t \in Tabs, SignedIn(t)
    PROVE  SessionInv'
<1>1. signing[t] \in Accounts /\ questions[t] \in Seq(Questions)
    BY DEF SignedIn, SessionInv, SessionTypeOK, AskedTyped
<1>2. UNCHANGED <<shownUser, loading, location, active, acts>>
    BY DEF SignedIn
<1>3. ASSUME Hold(signing[t], t), questions' = [questions EXCEPT ![t] = Append(@, Question(TRUE))],
             signing' = [signing EXCEPT ![t] = Gone]
      PROVE  SessionInv'
  <2> DEFINE s == Append(questions[t], Question(TRUE))
  <2>1. /\ s \in Seq(Questions) /\ Len(s) = Len(questions[t]) + 1 /\ s # <<>>
        /\ \A k \in 1..Len(questions[t]) : s[k] = questions[t][k]
        /\ s[Len(questions[t]) + 1] = Question(TRUE)
    <3> DEFINE q == Question(TRUE)
    <3>1. q \in Questions
        BY NewQuestion
    <3> HIDE DEF q
    <3>2. /\ Append(questions[t], q) \in Seq(Questions) /\ Len(Append(questions[t], q)) = Len(questions[t]) + 1
          /\ Append(questions[t], q) # <<>>
          /\ \A k \in 1..Len(questions[t]) : Append(questions[t], q)[k] = questions[t][k]
          /\ Append(questions[t], q)[Len(questions[t]) + 1] = q
        BY <1>1, <3>1
    <3> QED
        BY <3>2 DEF q
  <2> HIDE DEF s
  <2>2. /\ questions' = [questions EXCEPT ![t] = s]
        /\ questions'[t] = s /\ \A u \in Tabs \ {t} : questions'[u] = questions[u]
      BY <1>3 DEF s, SessionInv, AskedTyped
  <2>3. AskedTyped'
      BY <2>1, <2>2 DEF SessionInv, AskedTyped
  <2>4. \A u \in Tabs : Len(questions'[u]) <= MaxRefresh
      BY <1>1, <2>1, <2>2, RefreshAssumption DEF SessionInv, SessionTypeOK, RoomToAsk
  <2>5. RoomToAsk'
      BY <1>3, <2>2, AccountsAssumption DEF SessionInv, SessionTypeOK, RoomToAsk
  <2>6. /\ session' = signing[t] /\ overtaken \subseteq overtaken' /\ overtaken' \subseteq Tabs
        /\ \A u \in Tabs \ overtaken' : session' = session \/ (u = t /\ questions[t] = <<>>)
      BY <1>3 DEF Hold, SessionInv, SessionTypeOK
  <2>7. AskedIsCurrent'
    <3> SUFFICES ASSUME NEW u \in Tabs \ overtaken', NEW k \in 1..Len(questions'[u])
                 PROVE  Current(questions[u][k])'
        BY DEF AskedIsCurrent
    <3>1. CASE u # t
        BY <2>2, <2>6, <3>1 DEF SessionInv, AskedIsCurrent, Current
    <3>2. CASE u = t /\ k \in 1..Len(questions[t])
      <4>1. session' = session
          BY <1>1, <2>6, <3>2
      <4>2. Current(questions[t][k])
          BY <2>6, <3>2 DEF SessionInv, AskedIsCurrent
      <4> QED
          BY <2>1, <2>2, <3>2, <4>1, <4>2 DEF Current
    <3>3. CASE u = t /\ k = Len(questions[t]) + 1
        BY <2>1, <2>2, <3>3, AccountsAssumption DEF Current, Question
    <3> QED
        BY <1>1, <2>1, <2>2, <3>1, <3>2, <3>3
  <2>8. ContextIsCurrent'
      BY <1>2, <2>1, <2>2, <2>6 DEF SessionInv, ContextIsCurrent
  <2>9. SessionTypeOK'
      BY <1>1, <1>2, <1>3, <2>4, <2>6 DEF SessionInv, SessionTypeOK
  <2> QED
      BY <2>3, <2>5, <2>7, <2>8, <2>9 DEF SessionInv
<1>4. ASSUME signing' = [signing EXCEPT ![t] = None], UNCHANGED <<session, questions, overtaken>>
      PROVE  SessionInv'
  <2>1. SessionTypeOK'
      BY <1>2, <1>4 DEF SessionInv, SessionTypeOK
  <2>2. RoomToAsk'
      BY <1>4, AccountsAssumption DEF SessionInv, SessionTypeOK, RoomToAsk
  <2> QED
      BY <1>2, <1>4, <2>1, <2>2 DEF SessionInv, AskedTyped, AskedIsCurrent, ContextIsCurrent, Current
<1> QED
    BY <1>3, <1>4 DEF SignedIn

LEMMA SignOutInv ==
    ASSUME SessionInv, NEW t \in Tabs, SignOut(t)
    PROVE  SessionInv'
<1>1. /\ session' = None /\ overtaken \subseteq overtaken' /\ overtaken' \subseteq Tabs
      /\ \A u \in Tabs \ overtaken' : session' = session \/ questions[u] = <<>>
      /\ location' = [location EXCEPT ![t] = Login]
      /\ UNCHANGED <<shownUser, loading, questions, signing, active>>
    BY DEF SignOut, Hold, SessionInv, SessionTypeOK
<1>2. SessionTypeOK'
    BY <1>1 DEF SessionInv, SessionTypeOK
<1>3. AskedIsCurrent'
  <2> SUFFICES ASSUME NEW u \in Tabs \ overtaken', NEW k \in 1..Len(questions[u])
               PROVE  Current(questions[u][k])'
      BY <1>1 DEF AskedIsCurrent
  <2>1. questions[u] # <<>>
      BY DEF SessionInv, AskedTyped
  <2>2. session' = session
      BY <1>1, <2>1
  <2> QED
      BY <1>1, <2>2 DEF SessionInv, AskedIsCurrent, Current
<1>4. ContextIsCurrent'
    BY <1>1 DEF ContextIsCurrent
<1> QED
    BY <1>1, <1>2, <1>3, <1>4 DEF SessionInv, AskedTyped, RoomToAsk

LEMMA SignInInv ==
    ASSUME SessionInv, NEW t \in Tabs, NEW u \in Accounts, SignIn(t, u)
    PROVE  SessionInv'
<1>1. SessionTypeOK'
    BY DEF SignIn, SessionInv, SessionTypeOK
<1>2. RoomToAsk'
    BY DEF SignIn, SessionInv, SessionTypeOK, RoomToAsk
<1> QED
    BY <1>1, <1>2 DEF SignIn, SessionInv, AskedTyped, AskedIsCurrent, ContextIsCurrent, Current

LEMMA SessionNextInv == SessionInv /\ [SessionNext]_sessionVars => SessionInv'
<1> SUFFICES ASSUME SessionInv, [SessionNext]_sessionVars PROVE SessionInv'
    OBVIOUS
<1>1. ASSUME NEW t \in Tabs, NEW i \in DOMAIN questions[t], AskMe(t, i) \/ AnswerMe(t, i) \/ HearMe(t, i)
      PROVE  SessionInv'
    BY <1>1, AskMeInv, AnswerMeInv, HearMeInv
<1>2. ASSUME NEW t \in Tabs, NEW u \in Accounts, SignIn(t, u)
      PROVE  SessionInv'
    BY <1>2, SignInInv
<1>3. ASSUME NEW t \in Tabs, SignedIn(t) \/ SignOut(t)
      PROVE  SessionInv'
    BY <1>3, SignedInInv, SignOutInv
<1>4. ASSUME NEW t \in Tabs, TurnAway(t)
      PROVE  SessionInv'
  <2>1. PICK roles \in {Login, Dashboard} : location' = [location EXCEPT ![t] = roles]
      BY <1>4 DEF TurnAway
  <2> QED
      BY <1>4, <2>1, MovesInv DEF TurnAway
<1>5. ASSUME NEW t \in Tabs, NEW roles \in PageRoles \cup {Login}, GoTo(t, roles)
      PROVE  SessionInv'
    BY <1>5, MovesInv DEF GoTo
<1>6. ASSUME NEW t \in Tabs, LoadAnew(t)
      PROVE  SessionInv'
  <2>1. Fresh(t) /\ UNCHANGED <<session, location, active>>
      BY <1>6 DEF LoadAnew
  <2>2. location' \in [Tabs -> PageRoles \cup {Dashboard, Login}]
      BY <2>1 DEF SessionInv, SessionTypeOK
  <2> QED
      BY <2>1, <2>2, FreshInv
<1>7. ASSUME NEW u \in Accounts, Activation(u)
      PROVE  SessionInv'
  <2>1. SessionTypeOK'
      BY <1>7 DEF Activation, SessionInv, SessionTypeOK
  <2> QED
      BY <1>7, <2>1 DEF Activation, SessionInv, AskedTyped, RoomToAsk, AskedIsCurrent, ContextIsCurrent, Current
<1>8. CASE UNCHANGED sessionVars
    BY <1>8 DEF sessionVars, SessionInv, SessionTypeOK, AskedTyped, RoomToAsk, AskedIsCurrent,
       ContextIsCurrent, Current
<1> QED
    BY <1>1, <1>2, <1>3, <1>4, <1>5, <1>6, <1>7, <1>8 DEF SessionNext

LEMMA SessionInvariance == SessionSpec => []SessionInv
BY SessionInitInv, SessionNextInv, PTL DEF SessionSpec

(* The session, the tabs and their questions keep their types (rbac.tsx).  *)
THEOREM SessionTypes == SessionSpec => []SessionTypeOK
BY SessionInvariance, PTL DEF SessionInv

(* Whose name a page bears, that user's token its calls carry, for any     *)
(* number of tabs and accounts, but for tabs whose session was changed     *)
(* under them (rbac.tsx:28-44).                                            *)
THEOREM PagesAreTheirUsers == SessionSpec => []ShownToItsUser
<1>1. SessionInv => ShownToItsUser
    BY DEF SessionInv, ContextIsCurrent, ShownToItsUser, Shown
<1> QED
    BY <1>1, SessionInvariance, PTL
-------------------------------------------------------------------------------
Stages == {"sent", "insert", "mark", "ok", "failed"}

Calls ==
    [kind : {"request", "verify"}, link : (1..MaxLinks) \cup {None}, stage : Stages, waits : BOOLEAN]

CallsTyped ==
    /\ portalCalls \in Seq(Calls)
    /\ \A i \in 1..Len(portalCalls) : portalCalls[i].kind = "verify" => portalCalls[i].link \in 1..Len(links)

(* The page waits for one call, on the login page, where no session is.    *)
OneIsAwaited ==
    /\ \A i, j \in 1..Len(portalCalls) : portalCalls[i].waits /\ portalCalls[j].waits => i = j
    /\ section # "login" => \A i \in 1..Len(portalCalls) : ~portalCalls[i].waits
    /\ section = "login" => token = None

Marks(i) == portalCalls[i].kind = "verify" /\ portalCalls[i].stage = "mark"

(* A call that may still open a session with its link.                     *)
Redeems(i) ==
    /\ portalCalls[i].kind = "verify" /\ portalCalls[i].stage \in {"sent", "mark"}
    /\ links[portalCalls[i].link] = "live"

(* What a page has left behind is over when the page can verify again: it  *)
(* has to ask for another link first, and that expires this one.           *)
LeftBehindExpires ==
    access =>
        /\ \A i, j \in 1..Len(portalCalls) :
               Redeems(i) /\ Redeems(j) /\ portalCalls[i].link = portalCalls[j].link => i = j
        /\ \A i \in 1..Len(portalCalls) :
               Redeems(i) /\ ~portalCalls[i].waits =>
                   /\ loginStep = "request"
                   /\ \A j \in 1..Len(portalCalls) :
                          portalCalls[j].waits => portalCalls[j].kind = "request" /\ portalCalls[j].stage \in {"sent", "failed"}

(* One call at a time is past the reading of a link that opened no session.*)
MarksAlone ==
    /\ \A i, j \in 1..Len(portalCalls) : Marks(i) /\ Marks(j) /\ portalCalls[i].link = portalCalls[j].link => i = j
    /\ \A i \in 1..Len(portalCalls) : Marks(i) => opened[portalCalls[i].link] = 0

OpenedWereUsed ==
    \A l \in 1..MaxLinks : opened[l] # 0 => opened[l] = 1 /\ l \in 1..Len(links) /\ links[l] = "used"

PortalInv ==
    /\ PortalTypeOK /\ CallsTyped
    /\ OneIsAwaited /\ LeftBehindExpires /\ MarksAlone /\ OpenedWereUsed

LEMMA PortalInitInv == PortalInit => PortalInv
<1> SUFFICES ASSUME PortalInit PROVE PortalInv
    OBVIOUS
<1>1. Len(portalCalls) = 0 /\ portalCalls \in Seq(Calls) /\ Len(links) = 0 /\ links \in Seq({"live", "expired", "used"})
    BY DEF PortalInit
<1>2. PortalTypeOK
    BY <1>1, LinksAssumption DEF PortalInit, PortalTypeOK, Sections
<1>3. CallsTyped /\ OneIsAwaited
    BY <1>1 DEF PortalInit, CallsTyped, OneIsAwaited
<1>4. LeftBehindExpires /\ MarksAlone
    BY <1>1 DEF LeftBehindExpires, MarksAlone
<1>5. OpenedWereUsed
    BY DEF PortalInit, OpenedWereUsed
<1> QED
    BY <1>2, <1>3, <1>4, <1>5 DEF PortalInv

(* A call enters its next stage.                                           *)
LEMMA StageFields ==
    ASSUME PortalInv, NEW i \in DOMAIN portalCalls, NEW stage \in Stages, Stage(i, stage)
    PROVE  /\ i \in 1..Len(portalCalls) /\ portalCalls[i] \in Calls
           /\ portalCalls' \in Seq(Calls) /\ Len(portalCalls') = Len(portalCalls)
           /\ portalCalls'[i].stage = stage
           /\ \A j \in 1..Len(portalCalls) \ {i} : portalCalls'[j] = portalCalls[j]
           /\ \A j \in 1..Len(portalCalls) :
                  /\ portalCalls'[j].kind = portalCalls[j].kind /\ portalCalls'[j].link = portalCalls[j].link
                  /\ portalCalls'[j].waits = portalCalls[j].waits
<1> DEFINE c == [portalCalls[i] EXCEPT !.stage = stage]
<1>1. i \in 1..Len(portalCalls) /\ portalCalls[i] \in Calls /\ portalCalls \in Seq(Calls)
    BY DEF PortalInv, CallsTyped
<1>2. c \in Calls /\ c.stage = stage /\ c.kind = portalCalls[i].kind /\ c.link = portalCalls[i].link /\ c.waits = portalCalls[i].waits
    BY <1>1 DEF Calls
<1>3. portalCalls' = [portalCalls EXCEPT ![i] = c]
    BY DEF Stage
<1> HIDE DEF c
<1>4. /\ portalCalls' \in Seq(Calls) /\ Len(portalCalls') = Len(portalCalls)
      /\ \A j \in 1..Len(portalCalls) : portalCalls'[j] = IF j = i THEN c ELSE portalCalls[j]
    BY <1>1, <1>2, <1>3, Replacement
<1> QED
    BY <1>1, <1>2, <1>4

(* What the stages leave alone.                                            *)
LEMMA AwaitedStays ==
    ASSUME PortalInv, Len(portalCalls') = Len(portalCalls),
           \A j \in 1..Len(portalCalls) : portalCalls'[j].waits = portalCalls[j].waits,
           UNCHANGED <<section, token>>
    PROVE  OneIsAwaited'
BY DEF PortalInv, OneIsAwaited

LEMMA TypesFollow ==
    ASSUME CallsTyped'
    PROVE  \A i \in DOMAIN portalCalls' :
               portalCalls'[i].stage \in {"sent", "insert", "mark", "ok", "failed"} /\ portalCalls'[i].waits \in BOOLEAN
<1> SUFFICES ASSUME NEW i \in DOMAIN portalCalls' PROVE portalCalls'[i].stage \in Stages /\ portalCalls'[i].waits \in BOOLEAN
    BY DEF Stages
<1>1. portalCalls'[i] \in Calls
    BY DEF CallsTyped
<1> QED
    BY <1>1 DEF Calls

LEMMA SubmitInv ==
    ASSUME PortalInv, NEW kind \in {"request", "verify"}, NEW link \in (1..MaxLinks) \cup {None},
           kind = "verify" => link \in 1..Len(links), Submit(kind, link)
    PROVE  PortalInv'
<1>0. PICK n \in Nat : n = Len(portalCalls)
    BY DEF PortalInv, CallsTyped
<1> DEFINE c == [kind |-> kind, link |-> link, stage |-> "sent", waits |-> TRUE]
<1>1. c \in Calls /\ c.kind = kind /\ c.link = link /\ c.stage = "sent" /\ c.waits
    BY DEF Calls, Stages
<1>2. /\ section = "login" /\ loginStep = kind /\ portalCalls' = Append(portalCalls, c)
      /\ UNCHANGED <<links, opened, access, loginStep, section, token, shown>>
    BY DEF Submit
<1>3. \A j \in 1..n : ~portalCalls[j].waits
    BY <1>0 DEF Submit, Busy, PortalInv, CallsTyped
<1> HIDE DEF c
<1>4. portalCalls \in Seq(Calls) /\ n = Len(portalCalls)
    BY <1>0 DEF PortalInv, CallsTyped
<1>5. /\ portalCalls' \in Seq(Calls) /\ Len(portalCalls') = n + 1 /\ portalCalls'[n + 1] = c
      /\ \A j \in 1..n : portalCalls'[j] = portalCalls[j]
    BY <1>1, <1>2, <1>4
<1>6. \A j \in 1..n + 1 : j \in 1..n \/ j = n + 1
    OBVIOUS
<1>7. CallsTyped'
    BY <1>1, <1>2, <1>5, <1>6, <1>0 DEF PortalInv, CallsTyped
<1>8. PortalTypeOK'
    BY <1>2, <1>7, TypesFollow DEF PortalInv, PortalTypeOK
<1>9. OneIsAwaited'
    BY <1>0, <1>1, <1>2, <1>3, <1>5, <1>6 DEF PortalInv, OneIsAwaited
<1>10. LeftBehindExpires'
  <2> SUFFICES ASSUME access PROVE LeftBehindExpires'
      BY <1>2 DEF LeftBehindExpires
  <2>1. \A j \in 1..n : Redeems(j)' = Redeems(j)
      BY <1>2, <1>5 DEF Redeems
  <2>2. \A j \in 1..n : Redeems(j) => loginStep = "request"
      BY <1>3, <1>0 DEF PortalInv, LeftBehindExpires
  <2>3. Redeems(n + 1)' => kind = "verify"
      BY <1>1, <1>5 DEF Redeems
  <2>4. \A j \in 1..n : Redeems(j) => kind = "request"
      BY <1>2, <2>2
  <2>5. \A j, k \in 1..n + 1 : Redeems(j)' /\ Redeems(k)' /\ portalCalls'[j].link = portalCalls'[k].link => j = k
      BY <1>5, <1>6, <2>1, <2>3, <2>4, <1>0 DEF PortalInv, LeftBehindExpires
  <2>6. \A j \in 1..n + 1 : Redeems(j)' /\ ~portalCalls'[j].waits => loginStep' = "request" /\ kind = "request"
      BY <1>1, <1>2, <1>5, <1>6, <2>1, <2>2
  <2>7. \A j \in 1..n + 1 : portalCalls'[j].waits => portalCalls'[j].kind = kind /\ portalCalls'[j].stage = "sent"
      BY <1>1, <1>3, <1>5, <1>6
  <2> QED
      BY <1>5, <2>5, <2>6, <2>7 DEF LeftBehindExpires
<1>11. MarksAlone'
  <2>1. \A j \in 1..n : Marks(j)' = Marks(j)
      BY <1>5 DEF Marks
  <2>2. ~Marks(n + 1)'
      BY <1>1, <1>5 DEF Marks
  <2> QED
      BY <1>2, <1>5, <1>6, <2>1, <2>2, <1>0 DEF PortalInv, MarksAlone
<1>12. OpenedWereUsed'
    BY <1>2 DEF PortalInv, OpenedWereUsed
<1> QED
    BY <1>7, <1>8, <1>9, <1>10, <1>11, <1>12 DEF PortalInv

LEMMA HearInv ==
    ASSUME PortalInv, NEW i \in DOMAIN portalCalls, Hear(i)
    PROVE  PortalInv'
<1> DEFINE c == portalCalls[i]
           n == Len(portalCalls)
           old(k) == IF k < i THEN k ELSE k + 1
<1>1. i \in 1..n /\ portalCalls \in Seq(Calls) /\ n \in Nat /\ c \in Calls
    BY DEF PortalInv, CallsTyped
<1>2. /\ c.stage \in {"ok", "failed"} /\ portalCalls' = RemoveAt(portalCalls, i)
      /\ loginStep' = IF c.waits /\ c.stage = "ok" THEN "verify" ELSE loginStep
      /\ token' = IF c.waits /\ c.stage = "ok" /\ c.kind = "verify" THEN c.link ELSE token
      /\ section' = IF c.waits /\ c.stage = "ok" /\ c.kind = "verify" THEN "strict" ELSE section
      /\ shown' = IF section' = section THEN shown ELSE None
      /\ UNCHANGED <<links, opened, access>>
    BY DEF Hear
<1>3. /\ portalCalls' \in Seq(Calls) /\ Len(portalCalls') = n - 1
      /\ \A k \in 1..n - 1 : portalCalls'[k] = portalCalls[old(k)]
    BY <1>1, <1>2, Removal
<1>4. \A k \in 1..n - 1 : old(k) \in 1..n /\ old(k) # i
    BY <1>1
<1>5. \A j, k \in 1..n - 1 : old(j) = old(k) => j = k
    BY <1>1
<1> HIDE DEF c, n, old
<1>6. CallsTyped'
    BY <1>2, <1>3, <1>4 DEF PortalInv, CallsTyped, n
<1>7. PortalTypeOK'
  <2>1. token' \in (1..MaxLinks) \cup {None}
    <3>1. c.kind = "verify" => c.link \in 1..MaxLinks
        BY <1>1, LinksAssumption DEF PortalInv, PortalTypeOK, CallsTyped, c, n
    <3> QED
        BY <1>2, <3>1 DEF PortalInv, PortalTypeOK
  <2> QED
      BY <1>2, <1>6, <2>1, TypesFollow DEF PortalInv, PortalTypeOK, Sections
<1>8. OneIsAwaited'
  <2>1. \A j, k \in 1..n - 1 : portalCalls'[j].waits /\ portalCalls'[k].waits => j = k
      BY <1>3, <1>4, <1>5 DEF PortalInv, OneIsAwaited, n
  <2>2. c.waits => \A k \in 1..n - 1 : ~portalCalls'[k].waits
      BY <1>1, <1>3, <1>4 DEF PortalInv, OneIsAwaited, n, c
  <2>3. section # "login" => \A k \in 1..n - 1 : ~portalCalls'[k].waits
      BY <1>3, <1>4 DEF PortalInv, OneIsAwaited, n
  <2> QED
      BY <1>2, <1>3, <2>1, <2>2, <2>3 DEF PortalInv, OneIsAwaited
<1>9. LeftBehindExpires'
  <2> SUFFICES ASSUME access PROVE LeftBehindExpires'
      BY <1>2 DEF LeftBehindExpires
  <2>1. \A k \in 1..n - 1 : Redeems(k)' = Redeems(old(k))
      BY <1>2, <1>3 DEF Redeems
  <2>2. \A j, k \in 1..n - 1 : Redeems(j)' /\ Redeems(k)' /\ portalCalls'[j].link = portalCalls'[k].link => j = k
      BY <1>3, <1>4, <1>5, <2>1 DEF PortalInv, LeftBehindExpires, n
  <2>3. ASSUME NEW k \in 1..n - 1, Redeems(k)', ~portalCalls'[k].waits
        PROVE  /\ loginStep' = "request"
               /\ \A j \in 1..n - 1 :
                      portalCalls'[j].waits => portalCalls'[j].kind = "request" /\ portalCalls'[j].stage \in {"sent", "failed"}
    <3>1. old(k) \in 1..n /\ Redeems(old(k)) /\ ~portalCalls[old(k)].waits
        BY <1>3, <1>4, <2>1, <2>3
    <3>2. /\ loginStep = "request"
          /\ \A j \in 1..n :
                 portalCalls[j].waits => portalCalls[j].kind = "request" /\ portalCalls[j].stage \in {"sent", "failed"}
        BY <3>1 DEF PortalInv, LeftBehindExpires, n
    <3>3. ~(c.waits /\ c.stage = "ok")
        BY <1>1, <3>2 DEF c
    <3>4. loginStep' = "request"
        BY <1>2, <3>2, <3>3
    <3> QED
        BY <1>3, <1>4, <3>2, <3>4
  <2> QED
      BY <1>3, <2>2, <2>3 DEF LeftBehindExpires
<1>10. MarksAlone'
  <2>1. \A k \in 1..n - 1 : Marks(k)' = Marks(old(k))
      BY <1>3 DEF Marks
  <2>2. \A j, k \in 1..n - 1 : Marks(j)' /\ Marks(k)' /\ portalCalls'[j].link = portalCalls'[k].link => j = k
      BY <1>3, <1>4, <1>5, <2>1 DEF PortalInv, MarksAlone, n
  <2>3. \A k \in 1..n - 1 : Marks(k)' => opened'[portalCalls'[k].link] = 0
      BY <1>2, <1>3, <1>4, <2>1 DEF PortalInv, MarksAlone, n
  <2> QED
      BY <1>3, <2>2, <2>3 DEF MarksAlone
<1>11. OpenedWereUsed'
    BY <1>2 DEF PortalInv, OpenedWereUsed
<1> QED
    BY <1>6, <1>7, <1>8, <1>9, <1>10, <1>11 DEF PortalInv

(* Links that run out, and a call that goes on to a stage in which it does *)
(* not redeem: what is left behind stays so.                               *)
LEMMA ExpireLinksInv ==
    ASSUME PortalInv, NEW i \in DOMAIN portalCalls, ExpireLinks(i)
    PROVE  PortalInv'
<1> DEFINE n == Len(portalCalls)
<1>1. PICK stage \in {"insert", "ok", "failed"} :
          /\ Stage(i, stage)
          /\ \/ stage = "failed" /\ UNCHANGED links
             \/ ~access /\ UNCHANGED links
             \/ links' = [l \in DOMAIN links |-> IF links[l] = "live" THEN "expired" ELSE links[l]]
    BY DEF ExpireLinks
<1>2. /\ i \in 1..n /\ portalCalls[i].kind = "request" /\ portalCalls' \in Seq(Calls) /\ Len(portalCalls') = n
      /\ portalCalls'[i].stage = stage /\ \A j \in 1..n \ {i} : portalCalls'[j] = portalCalls[j]
      /\ \A j \in 1..n : portalCalls'[j].kind = portalCalls[j].kind /\ portalCalls'[j].link = portalCalls[j].link
                         /\ portalCalls'[j].waits = portalCalls[j].waits
    BY <1>1, StageFields DEF Stages, ExpireLinks
<1>3. UNCHANGED <<opened, access, loginStep, section, token, shown>>
    BY DEF ExpireLinks
<1>4. /\ links' \in Seq({"live", "expired", "used"}) /\ Len(links') = Len(links)
      /\ \A l \in 1..Len(links) : links'[l] = links[l] \/ (links'[l] = "expired" /\ links[l] = "live")
    BY <1>1 DEF PortalInv, PortalTypeOK
<1> HIDE DEF n
<1>5. CallsTyped'
    BY <1>2, <1>4 DEF PortalInv, CallsTyped, n
<1>6. PortalTypeOK'
    BY <1>3, <1>4, <1>5, TypesFollow DEF PortalInv, PortalTypeOK
<1>7. OneIsAwaited'
    BY <1>2, <1>3, AwaitedStays DEF n
<1>8. LeftBehindExpires'
  <2> SUFFICES ASSUME access PROVE LeftBehindExpires'
      BY <1>3 DEF LeftBehindExpires
  <2>1. \A j \in 1..n : Redeems(j)' => Redeems(j) /\ j # i
      BY <1>2, <1>4 DEF PortalInv, CallsTyped, Redeems, n
  <2>2. CASE stage = "failed" /\ UNCHANGED links
      BY <1>2, <1>3, <2>1, <2>2 DEF PortalInv, LeftBehindExpires, n
  <2>3. CASE links' = [l \in DOMAIN links |-> IF links[l] = "live" THEN "expired" ELSE links[l]]
    <3>1. \A l \in 1..Len(links) : links'[l] # "live"
        BY <2>3 DEF PortalInv, PortalTypeOK
    <3>2. \A j \in 1..n : ~Redeems(j)'
        BY <1>2, <3>1 DEF PortalInv, CallsTyped, Redeems, n
    <3> QED
        BY <1>2, <3>2 DEF LeftBehindExpires
  <2> QED
      BY <1>1, <2>2, <2>3
<1>9. MarksAlone'
  <2>1. \A j \in 1..n : Marks(j)' = Marks(j)
      BY <1>2 DEF Marks
  <2> QED
      BY <1>2, <1>3, <2>1 DEF PortalInv, MarksAlone, n
<1>10. OpenedWereUsed'
    BY <1>3, <1>4 DEF PortalInv, OpenedWereUsed
<1> QED
    BY <1>5, <1>6, <1>7, <1>8, <1>9, <1>10 DEF PortalInv

LEMMA MakeLinkInv ==
    ASSUME PortalInv, NEW i \in DOMAIN portalCalls, MakeLink(i)
    PROVE  PortalInv'
<1> DEFINE n == Len(portalCalls)
<1>1. /\ i \in 1..n /\ portalCalls' \in Seq(Calls) /\ Len(portalCalls') = n
      /\ portalCalls'[i].stage = "ok" /\ \A j \in 1..n \ {i} : portalCalls'[j] = portalCalls[j]
      /\ \A j \in 1..n : portalCalls'[j].kind = portalCalls[j].kind /\ portalCalls'[j].link = portalCalls[j].link
                         /\ portalCalls'[j].waits = portalCalls[j].waits
    BY StageFields DEF Stages, MakeLink
<1>2. /\ portalCalls[i].kind = "request" /\ portalCalls[i].stage = "insert" /\ Len(links) < MaxLinks
      /\ UNCHANGED <<opened, access, loginStep, section, token, shown>>
    BY DEF MakeLink
<1>3. /\ links' \in Seq({"live", "expired", "used"}) /\ Len(links') = Len(links) + 1
      /\ \A l \in 1..Len(links) : links'[l] = links[l]
    BY DEF MakeLink, PortalInv, PortalTypeOK
<1> HIDE DEF n
<1>4. \A l \in 1..Len(links) : l \in 1..Len(links')
    BY <1>3
<1>5. CallsTyped'
    BY <1>1, <1>4 DEF PortalInv, CallsTyped, n
<1>6. PortalTypeOK'
    BY <1>2, <1>3, <1>5, TypesFollow, LinksAssumption DEF PortalInv, PortalTypeOK
<1>7. OneIsAwaited'
    BY <1>1, <1>2, AwaitedStays DEF n
<1>8. LeftBehindExpires'
  <2> SUFFICES ASSUME access PROVE LeftBehindExpires'
      BY <1>2 DEF LeftBehindExpires
  <2>1. \A j \in 1..n : Redeems(j)' => Redeems(j) /\ j # i
      BY <1>1, <1>2, <1>3 DEF PortalInv, CallsTyped, Redeems, n
  <2>2. (\E j \in 1..n : Redeems(j) /\ ~portalCalls[j].waits) => ~portalCalls[i].waits
      BY <1>1, <1>2 DEF PortalInv, LeftBehindExpires, n
  <2> QED
      BY <1>1, <1>2, <2>1, <2>2 DEF PortalInv, LeftBehindExpires, n
<1>9. MarksAlone'
  <2>1. \A j \in 1..n : Marks(j)' = Marks(j)
      BY <1>1, <1>2 DEF Marks
  <2> QED
      BY <1>1, <1>2, <2>1 DEF PortalInv, MarksAlone, n
<1>10. OpenedWereUsed'
    BY <1>2, <1>3, <1>4 DEF PortalInv, OpenedWereUsed
<1> QED
    BY <1>5, <1>6, <1>7, <1>8, <1>9, <1>10 DEF PortalInv

LEMMA CheckLinkInv ==
    ASSUME PortalInv, NEW i \in DOMAIN portalCalls, CheckLink(i)
    PROVE  PortalInv'
<1> DEFINE n == Len(portalCalls)
<1>1. PICK stage \in {"mark", "failed"} :
          Stage(i, stage) /\ (stage = "mark" => links[portalCalls[i].link] = "live" /\ access)
    BY DEF CheckLink
<1>2. /\ i \in 1..n /\ portalCalls' \in Seq(Calls) /\ Len(portalCalls') = n
      /\ portalCalls'[i].stage = stage /\ \A j \in 1..n \ {i} : portalCalls'[j] = portalCalls[j]
      /\ \A j \in 1..n : portalCalls'[j].kind = portalCalls[j].kind /\ portalCalls'[j].link = portalCalls[j].link
                         /\ portalCalls'[j].waits = portalCalls[j].waits
    BY <1>1, StageFields DEF Stages
<1>3. /\ portalCalls[i].kind = "verify" /\ portalCalls[i].stage = "sent"
      /\ UNCHANGED <<links, opened, access, loginStep, section, token, shown>>
    BY DEF CheckLink
<1> HIDE DEF n
<1>4. CallsTyped'
    BY <1>2, <1>3 DEF PortalInv, CallsTyped, n
<1>5. PortalTypeOK'
    BY <1>3, <1>4, TypesFollow DEF PortalInv, PortalTypeOK
<1>6. OneIsAwaited'
    BY <1>2, <1>3, AwaitedStays DEF n
<1>7. LeftBehindExpires'
  <2> SUFFICES ASSUME access PROVE LeftBehindExpires'
      BY <1>3 DEF LeftBehindExpires
  <2>1. \A j \in 1..n : Redeems(j)' => Redeems(j)
      BY <1>2, <1>3 DEF Redeems
  <2>2. (\E j \in 1..n : Redeems(j) /\ ~portalCalls[j].waits) => ~portalCalls[i].waits
      BY <1>2, <1>3 DEF PortalInv, LeftBehindExpires, n
  <2> QED
      BY <1>2, <1>3, <2>1, <2>2 DEF PortalInv, LeftBehindExpires, n
<1>8. MarksAlone'
  <2>1. \A j \in 1..n \ {i} : Marks(j)' = Marks(j)
      BY <1>2 DEF Marks
  <2>2. CASE stage = "failed"
    <3>1. ~Marks(i)'
        BY <1>2, <2>2 DEF Marks
    <3> QED
        BY <1>2, <1>3, <2>1, <3>1 DEF PortalInv, MarksAlone, n
  <2>3. CASE stage = "mark"
    <3>1. Redeems(i) /\ access
        BY <1>1, <1>3, <2>3 DEF Redeems
    <3>2. \A j \in 1..n \ {i} : Marks(j) => portalCalls[j].link # portalCalls[i].link
        BY <1>2, <3>1 DEF PortalInv, LeftBehindExpires, Marks, Redeems, n
    <3>3. opened[portalCalls[i].link] = 0
      <4>1. portalCalls[i].link \in 1..MaxLinks
          BY <1>2, <1>3, LinksAssumption DEF PortalInv, PortalTypeOK, CallsTyped, n
      <4> QED
          BY <3>1, <4>1 DEF PortalInv, OpenedWereUsed, Redeems
    <3> QED
        BY <1>2, <1>3, <2>1, <3>2, <3>3 DEF PortalInv, MarksAlone, n
  <2> QED
      BY <2>2, <2>3
<1>9. OpenedWereUsed'
    BY <1>3 DEF PortalInv, OpenedWereUsed
<1> QED
    BY <1>4, <1>5, <1>6, <1>7, <1>8, <1>9 DEF PortalInv

LEMMA UseLinkInv ==
    ASSUME PortalInv, NEW i \in DOMAIN portalCalls, UseLink(i)
    PROVE  PortalInv'
<1> DEFINE n == Len(portalCalls)
           l == portalCalls[i].link
<1>1. /\ i \in 1..n /\ portalCalls' \in Seq(Calls) /\ Len(portalCalls') = n
      /\ portalCalls'[i].stage = "ok" /\ \A j \in 1..n \ {i} : portalCalls'[j] = portalCalls[j]
      /\ \A j \in 1..n : portalCalls'[j].kind = portalCalls[j].kind /\ portalCalls'[j].link = portalCalls[j].link
                         /\ portalCalls'[j].waits = portalCalls[j].waits
    BY StageFields DEF Stages, UseLink
<1>2. /\ portalCalls[i].kind = "verify" /\ portalCalls[i].stage = "mark" /\ Marks(i)
      /\ links' = [links EXCEPT ![l] = "used"] /\ opened' = [opened EXCEPT ![l] = @ + 1]
      /\ UNCHANGED <<access, loginStep, section, token, shown>>
    BY DEF UseLink, Marks
<1>3. l \in 1..Len(links) /\ l \in 1..MaxLinks /\ opened[l] = 0
    BY <1>1, <1>2, LinksAssumption DEF PortalInv, PortalTypeOK, CallsTyped, MarksAlone
<1> HIDE DEF n, l
<1>4. /\ links' \in Seq({"live", "expired", "used"}) /\ Len(links') = Len(links) /\ links'[l] = "used"
      /\ \A k \in 1..Len(links) \ {l} : links'[k] = links[k]
  <2>1. links \in Seq({"live", "expired", "used"})
      BY DEF PortalInv, PortalTypeOK
  <2> QED
      BY <1>2, <1>3, <2>1
<1>5. /\ opened' \in [1..MaxLinks -> Nat] /\ opened'[l] = 1
      /\ \A k \in 1..MaxLinks \ {l} : opened'[k] = opened[k]
    BY <1>2, <1>3 DEF PortalInv, PortalTypeOK
<1>6. CallsTyped'
    BY <1>1, <1>4 DEF PortalInv, CallsTyped, n
<1>7. PortalTypeOK'
    BY <1>2, <1>4, <1>5, <1>6, TypesFollow DEF PortalInv, PortalTypeOK
<1>8. OneIsAwaited'
    BY <1>1, <1>2, AwaitedStays DEF n
<1>9. LeftBehindExpires'
  <2> SUFFICES ASSUME access PROVE LeftBehindExpires'
      BY <1>2 DEF LeftBehindExpires
  <2>1. \A j \in 1..n : Redeems(j)' => Redeems(j) /\ j # i
    <3> SUFFICES ASSUME NEW j \in 1..n, Redeems(j)' PROVE Redeems(j) /\ j # i
        OBVIOUS
    <3>1. j # i /\ portalCalls[j].kind = "verify" /\ portalCalls[j].stage \in {"sent", "mark"}
        BY <1>1 DEF Redeems
    <3>2. portalCalls[j].link \in 1..Len(links) /\ links'[portalCalls[j].link] = "live"
        BY <1>1, <3>1 DEF PortalInv, CallsTyped, Redeems, n
    <3> QED
        BY <1>4, <3>1, <3>2 DEF Redeems
  <2>2. (\E j \in 1..n : Redeems(j) /\ ~portalCalls[j].waits) => ~portalCalls[i].waits
      BY <1>1, <1>2 DEF PortalInv, LeftBehindExpires, n
  <2> QED
      BY <1>1, <1>2, <2>1, <2>2 DEF PortalInv, LeftBehindExpires, n
<1>10. MarksAlone'
  <2>1. \A j \in 1..n \ {i} : Marks(j)' = Marks(j)
      BY <1>1 DEF Marks
  <2>2. ~Marks(i)'
      BY <1>1 DEF Marks
  <2>3. \A j \in 1..n \ {i} : Marks(j) => portalCalls[j].link # l
      BY <1>1, <1>2 DEF PortalInv, MarksAlone, n, l
  <2>4. \A j \in 1..n : Marks(j) => portalCalls[j].link \in 1..MaxLinks
      BY LinksAssumption DEF PortalInv, PortalTypeOK, CallsTyped, Marks, n
  <2>5. \A j, k \in 1..n : Marks(j)' /\ Marks(k)' /\ portalCalls'[j].link = portalCalls'[k].link => j = k
      BY <1>1, <2>1, <2>2 DEF PortalInv, MarksAlone, n
  <2>6. \A j \in 1..n : Marks(j)' => opened'[portalCalls'[j].link] = 0
    <3> SUFFICES ASSUME NEW j \in 1..n, Marks(j)' PROVE opened'[portalCalls'[j].link] = 0
        OBVIOUS
    <3>1. j # i /\ Marks(j) /\ portalCalls'[j].link = portalCalls[j].link
        BY <1>1, <2>1, <2>2
    <3>2. opened[portalCalls[j].link] = 0
        BY <3>1 DEF PortalInv, MarksAlone, n
    <3> QED
        BY <1>5, <2>3, <2>4, <3>1, <3>2
  <2> QED
      BY <1>1, <2>5, <2>6 DEF MarksAlone
<1>11. OpenedWereUsed'
    BY <1>3, <1>4, <1>5 DEF PortalInv, OpenedWereUsed
<1> QED
    BY <1>6, <1>7, <1>8, <1>9, <1>10, <1>11 DEF PortalInv

LEMMA FailInv ==
    ASSUME PortalInv, NEW i \in DOMAIN portalCalls, Fail(i)
    PROVE  PortalInv'
<1> DEFINE n == Len(portalCalls)
<1>1. /\ i \in 1..n /\ portalCalls' \in Seq(Calls) /\ Len(portalCalls') = n
      /\ portalCalls'[i].stage = "failed" /\ \A j \in 1..n \ {i} : portalCalls'[j] = portalCalls[j]
      /\ \A j \in 1..n : portalCalls'[j].kind = portalCalls[j].kind /\ portalCalls'[j].link = portalCalls[j].link
                         /\ portalCalls'[j].waits = portalCalls[j].waits
    BY StageFields DEF Stages, Fail
<1>2. UNCHANGED <<links, opened, access, loginStep, section, token, shown>>
    BY DEF Fail
<1> HIDE DEF n
<1>3. CallsTyped'
    BY <1>1, <1>2 DEF PortalInv, CallsTyped, n
<1>4. PortalTypeOK'
    BY <1>2, <1>3, TypesFollow DEF PortalInv, PortalTypeOK
<1>5. OneIsAwaited'
    BY <1>1, <1>2, AwaitedStays DEF n
<1>6. LeftBehindExpires'
  <2>1. \A j \in 1..n : Redeems(j)' => Redeems(j)
      BY <1>1, <1>2 DEF Redeems
  <2> QED
      BY <1>1, <1>2, <2>1 DEF PortalInv, LeftBehindExpires, n
<1>7. MarksAlone'
  <2>1. \A j \in 1..n : Marks(j)' => Marks(j)
      BY <1>1 DEF Marks
  <2> QED
      BY <1>1, <1>2, <2>1 DEF PortalInv, MarksAlone, n
<1>8. OpenedWereUsed'
    BY <1>2 DEF PortalInv, OpenedWereUsed
<1> QED
    BY <1>3, <1>4, <1>5, <1>6, <1>7, <1>8 DEF PortalInv

LEMMA DayInv ==
    ASSUME PortalInv, NEW l \in DOMAIN links, Day(l)
    PROVE  PortalInv'
<1>1. /\ links' \in Seq({"live", "expired", "used"}) /\ Len(links') = Len(links)
      /\ \A k \in 1..Len(links) : links'[k] = links[k] \/ (links'[k] = "expired" /\ links[k] = "live")
  <2>1. links \in Seq({"live", "expired", "used"}) /\ l \in 1..Len(links)
      BY DEF PortalInv, PortalTypeOK
  <2> QED
      BY <2>1 DEF Day
<1>2. UNCHANGED <<opened, access, portalCalls, loginStep, section, token, shown>>
    BY DEF Day
<1>3. CallsTyped'
    BY <1>1, <1>2 DEF PortalInv, CallsTyped
<1>4. PortalTypeOK'
    BY <1>1, <1>2 DEF PortalInv, PortalTypeOK
<1>5. LeftBehindExpires'
  <2>1. \A j \in 1..Len(portalCalls) : Redeems(j)' => Redeems(j)
      BY <1>1, <1>2 DEF PortalInv, CallsTyped, Redeems
  <2> QED
      BY <1>2, <2>1 DEF PortalInv, LeftBehindExpires
<1>6. OneIsAwaited' /\ MarksAlone'
    BY <1>2 DEF PortalInv, OneIsAwaited, MarksAlone, Marks
<1>7. OpenedWereUsed'
    BY <1>1, <1>2 DEF PortalInv, OpenedWereUsed
<1> QED
    BY <1>3, <1>4, <1>5, <1>6, <1>7 DEF PortalInv

(* Steps of the page that leave the calls and the links.                   *)
LEMMA PageInv ==
    ASSUME PortalInv, UNCHANGED <<links, opened, portalCalls>>, PortalTypeOK',
           access' => access,
           section' = section \/ \A i \in 1..Len(portalCalls) : ~portalCalls[i].waits,
           section' = "login" => token' = None,
           loginStep' \in {loginStep, "request"}
    PROVE  PortalInv'
<1>1. CallsTyped' /\ MarksAlone' /\ OpenedWereUsed'
    BY DEF PortalInv, CallsTyped, MarksAlone, Marks, OpenedWereUsed
<1>2. OneIsAwaited'
    BY DEF PortalInv, OneIsAwaited
<1>3. LeftBehindExpires'
    BY DEF PortalInv, LeftBehindExpires, Redeems
<1> QED
    BY <1>1, <1>2, <1>3 DEF PortalInv

LEMMA LoadDocumentInv ==
    ASSUME PortalInv, NEW p \in Sections, LoadDocument(p)
    PROVE  PortalInv'
<1> DEFINE n == Len(portalCalls)
<1>1. /\ portalCalls \in Seq(Calls) /\ n \in Nat
      /\ portalCalls' = [i \in 1..n |-> [portalCalls[i] EXCEPT !.waits = FALSE]]
      /\ UNCHANGED <<links, opened, access, token>>
    BY DEF PortalInv, CallsTyped, LoadDocument
<1>2. \A i \in 1..n : /\ [portalCalls[i] EXCEPT !.waits = FALSE] \in Calls
                      /\ [portalCalls[i] EXCEPT !.waits = FALSE].kind = portalCalls[i].kind
                      /\ [portalCalls[i] EXCEPT !.waits = FALSE].link = portalCalls[i].link
                      /\ [portalCalls[i] EXCEPT !.waits = FALSE].stage = portalCalls[i].stage
                      /\ ~[portalCalls[i] EXCEPT !.waits = FALSE].waits
  <2> TAKE i \in 1..n
  <2>1. portalCalls[i] \in Calls
      BY <1>1
  <2> QED
      BY <2>1 DEF Calls
<1>3. /\ portalCalls' \in Seq(Calls) /\ Len(portalCalls') = n
      /\ \A i \in 1..n : /\ portalCalls'[i].kind = portalCalls[i].kind /\ portalCalls'[i].link = portalCalls[i].link
                         /\ portalCalls'[i].stage = portalCalls[i].stage /\ ~portalCalls'[i].waits
  <2> DEFINE alone(i) == [portalCalls[i] EXCEPT !.waits = FALSE]
  <2>1. portalCalls' = [i \in 1..n |-> alone(i)]
      BY <1>1
  <2>2. \A i \in 1..n : /\ alone(i) \in Calls /\ alone(i).kind = portalCalls[i].kind
                        /\ alone(i).link = portalCalls[i].link /\ alone(i).stage = portalCalls[i].stage
                        /\ ~alone(i).waits
      BY <1>2
  <2> HIDE DEF alone, n
  <2>3. portalCalls' \in [1..n -> Calls] /\ \A i \in 1..n : portalCalls'[i] = alone(i)
      BY <2>1, <2>2
  <2>4. n \in Nat
      BY <1>1
  <2>5. portalCalls' \in Seq(Calls) /\ Len(portalCalls') = n
      BY <2>3, <2>4
  <2> QED
      BY <2>2, <2>3, <2>5
<1>4. CallsTyped'
    BY <1>1, <1>3 DEF PortalInv, CallsTyped
<1>5. /\ section' = IF token = None THEN "login" ELSE p
      /\ shown' = None /\ loginStep' = IF section' = "login" THEN "request" ELSE loginStep
    BY DEF LoadDocument, Arrive
<1>6. PortalTypeOK'
    BY <1>1, <1>4, <1>5, TypesFollow DEF PortalInv, PortalTypeOK, Sections
<1>7. OneIsAwaited'
    BY <1>1, <1>3, <1>5 DEF OneIsAwaited, Sections
<1>8. LeftBehindExpires'
  <2> SUFFICES ASSUME access PROVE LeftBehindExpires'
      BY <1>1 DEF LeftBehindExpires
  <2>1. \A i \in 1..n : Redeems(i)' = Redeems(i)
      BY <1>1, <1>3 DEF Redeems
  <2>2. \A i \in 1..n : Redeems(i) => loginStep' = "request"
    <3>1. CASE token = None
        BY <1>5, <3>1
    <3>2. CASE token # None
      <4>1. \A i \in 1..n : ~portalCalls[i].waits
          BY <3>2 DEF PortalInv, OneIsAwaited
      <4> QED
          BY <1>5, <4>1 DEF PortalInv, LeftBehindExpires
    <3> QED
        BY <3>1, <3>2
  <2> QED
      BY <1>3, <2>1, <2>2 DEF PortalInv, LeftBehindExpires
<1>9. MarksAlone'
    BY <1>1, <1>3 DEF PortalInv, MarksAlone, Marks
<1>10. OpenedWereUsed'
    BY <1>1 DEF PortalInv, OpenedWereUsed
<1> QED
    BY <1>4, <1>6, <1>7, <1>8, <1>9, <1>10 DEF PortalInv

LEMMA PortalNextInv == PortalInv /\ [PortalNext]_portalVars => PortalInv'
<1> SUFFICES ASSUME PortalInv, [PortalNext]_portalVars PROVE PortalInv'
    OBVIOUS
<1>1. CASE RequestLink
    BY <1>1, SubmitInv DEF RequestLink
<1>2. CASE Verify
  <2>1. PICK link \in DOMAIN links : Submit("verify", link)
      BY <1>2 DEF Verify
  <2>2. link \in 1..Len(links) /\ link \in 1..MaxLinks
      BY LinksAssumption DEF PortalInv, PortalTypeOK
  <2> QED
      BY <2>1, <2>2, SubmitInv
<1>3. CASE SendAgain
  <2>1. PortalTypeOK'
      BY <1>3 DEF SendAgain, PortalInv, PortalTypeOK
  <2> QED
      BY <1>3, <2>1, PageInv DEF SendAgain, PortalInv, OneIsAwaited
<1>4. CASE ShowPage
  <2>1. PortalTypeOK'
      BY <1>4 DEF ShowPage, PortalInv, PortalTypeOK
  <2> QED
      BY <1>4, <2>1, PageInv DEF ShowPage, PortalInv, OneIsAwaited
<1>5. CASE Logout
  <2>1. PortalTypeOK'
      BY <1>5 DEF Logout, Arrive, PortalInv, PortalTypeOK
  <2>2. \A i \in 1..Len(portalCalls) : ~portalCalls[i].waits
      BY <1>5 DEF Logout, Sections, PortalInv, OneIsAwaited
  <2> QED
      BY <1>5, <2>1, <2>2, PageInv DEF Logout, Arrive
<1>6. CASE Deactivate
  <2>1. PortalTypeOK'
      BY <1>6 DEF Deactivate, PortalInv, PortalTypeOK
  <2> QED
      BY <1>6, <2>1, PageInv DEF Deactivate, PortalInv, OneIsAwaited
<1>7. ASSUME NEW i \in DOMAIN portalCalls,
             Hear(i) \/ ExpireLinks(i) \/ MakeLink(i) \/ CheckLink(i) \/ UseLink(i) \/ Fail(i)
      PROVE  PortalInv'
    BY <1>7, HearInv, ExpireLinksInv, MakeLinkInv, CheckLinkInv, UseLinkInv, FailInv
<1>8. ASSUME NEW l \in DOMAIN links, Day(l)
      PROVE  PortalInv'
    BY <1>8, DayInv
<1>9. ASSUME NEW p \in Sections, LoadDocument(p)
      PROVE  PortalInv'
    BY <1>9, LoadDocumentInv
<1>10. ASSUME NEW p \in Sections, FollowLink(p)
       PROVE  PortalInv'
  <2>1. PortalTypeOK'
      BY <1>10 DEF FollowLink, Arrive, Sections, PortalInv, PortalTypeOK
  <2>2. \A i \in 1..Len(portalCalls) : ~portalCalls[i].waits
      BY <1>10 DEF FollowLink, Sections, PortalInv, OneIsAwaited
  <2>3. section' = "login" => token' = None
      BY <1>10 DEF FollowLink, Arrive, Sections
  <2> QED
      BY <1>10, <2>1, <2>2, <2>3, PageInv DEF FollowLink, Arrive
<1>11. CASE UNCHANGED portalVars
    BY <1>11 DEF portalVars, PortalInv, PortalTypeOK, CallsTyped, OneIsAwaited, LeftBehindExpires,
       Redeems, MarksAlone, Marks, OpenedWereUsed
<1> QED
    BY <1>1, <1>2, <1>3, <1>4, <1>5, <1>6, <1>7, <1>8, <1>9, <1>10, <1>11 DEF PortalNext

LEMMA PortalInvariance == PortalSpec => []PortalInv
BY PortalInitInv, PortalNextInv, PTL DEF PortalSpec

(* Links, calls and pages of the portal keep their types (portal.py).      *)
THEOREM PortalTypes == PortalSpec => []PortalTypeOK
BY PortalInvariance, PTL DEF PortalInv

(* However many calls verify a link, are lost or left behind by a page     *)
(* that is loaded anew, it opens one session at most, although its state   *)
(* is read before it is marked (portal.py:144-186).                        *)
THEOREM LinksOpenOneSession == PortalSpec => []OneSessionPerLink
<1>1. PortalInv => OneSessionPerLink
    BY DEF PortalInv, PortalTypeOK, OpenedWereUsed, OneSessionPerLink
<1> QED
    BY <1>1, PortalInvariance, PTL
-------------------------------------------------------------------------------
(* What a firm pays for, whatever webhook requests come, cross and die.    *)
Past(h) == handler[h].step \in Steps \ {"inbox"}

(* A recorded order has its firm, and a webhook, at work or dead, is about *)
(* a transaction somebody has paid.                                        *)
OrdersAreOfFirms ==
    /\ \A o \in recorded : order[o] # Nothing
    /\ \A h \in Handlers : handler[h].step \in Steps => paidFor[handler[h].txn] # Nothing
    /\ \A t \in inbox \cup cut : paidFor[t] # Nothing

(* Who is past the inbox has put its transaction there.                    *)
InboxFirst == \A h \in Handlers : Past(h) => handler[h].txn \in inbox

(* Who is about to activate a firm does so for a good transaction.         *)
OnlyGood == \A h \in Handlers : handler[h].step \in {"subscribe", "activate"} => handler[h].txn \in Good

(* One request at most is past the inbox with a transaction.               *)
OnePastInbox ==
    \A g, h \in Handlers : Past(g) /\ Past(h) /\ handler[g].txn = handler[h].txn => g = h

(* What has been gone through is in the inbox, and who is about to go      *)
(* through a transaction is the first to do so.                            *)
FirstToProcess ==
    /\ \A t \in Transactions : processed[t] > 0 => t \in inbox
    /\ \A h \in Handlers : handler[h].step = "resolve" => processed[handler[h].txn] = 0

PaymentInv ==
    /\ PaymentTypeOK /\ OrdersAreOfFirms /\ InboxFirst /\ OnlyGood
    /\ OnePastInbox /\ FirstToProcess /\ ProcessedOnce /\ ActiveIsPaid
-------------------------------------------------------------------------------
LEMMA InitPaymentInv == PaymentInit => PaymentInv
BY DEF PaymentInit, PaymentInv, PaymentTypeOK, OrdersAreOfFirms, InboxFirst, OnlyGood, Past, OnePastInbox, FirstToProcess,
   ProcessedOnce, ActiveIsPaid, NoDelivery, Steps

LEMMA HandlerAtWork ==
    ASSUME PaymentTypeOK, NEW h \in Handlers, handler[h].step # "idle"
    PROVE  handler[h] \in [step : Steps, txn : Transactions]
BY DEF PaymentTypeOK, NoDelivery

(* What a transaction has paid for stays what it is.                       *)
LEMMA PaymentsStay ==
    ASSUME PaymentInv, PaymentNext
    PROVE  /\ \A t \in Transactions : paidFor[t] # Nothing => paidFor'[t] = paidFor[t] /\ FirmOf(t)' = FirmOf(t)
           /\ \A t \in Transactions : paidFor[t] # Nothing => FirmOf(t) \in Firms
           /\ inbox \subseteq inbox'
<1>1. \A t \in Transactions : paidFor[t] # Nothing => paidFor[t] \in Orders /\ order[paidFor[t]] # Nothing
    BY DEF PaymentInv, PaymentTypeOK, OrdersAreOfFirms
<1>2. \A t \in Transactions : paidFor[t] # Nothing => FirmOf(t) \in Firms
    BY <1>1 DEF PaymentInv, PaymentTypeOK, FirmOf
<1>3. \A t \in Transactions : paidFor[t] # Nothing => paidFor'[t] = paidFor[t]
    BY DEF PaymentNext, PaymentInv, PaymentTypeOK, TrialEnds, FindExpired, SuspendExpired, CreateOrder, RecordOrder, OfferPayment, Pay,
       Deliver, Handle, PutInInbox, Resolve, Subscribe, Activate, Settle, HandlerDies, Serve, Answer, orderVars
<1>4. \A o \in Orders : order[o] # Nothing => order'[o] = order[o]
    BY DEF PaymentNext, PaymentInv, PaymentTypeOK, TrialEnds, FindExpired, SuspendExpired, CreateOrder, RecordOrder, OfferPayment, Pay,
       Deliver, Handle, PutInInbox, Resolve, Subscribe, Activate, Settle, HandlerDies, Serve, Answer, orderVars
<1>5. inbox \subseteq inbox'
    BY DEF PaymentNext, TrialEnds, FindExpired, SuspendExpired, CreateOrder, RecordOrder, OfferPayment, Pay,
       Deliver, Handle, PutInInbox, Resolve, Subscribe, Activate, Settle, HandlerDies, webhookVars
<1> QED
    BY <1>1, <1>2, <1>3, <1>4, <1>5 DEF FirmOf

(* A step that makes no firm or subscription active keeps ActiveIsPaid.    *)
LEMMA PaidStays ==
    ASSUME PaymentInv, PaymentNext,
           \A f \in Firms : firm'[f] = "active" => firm[f] = "active",
           \A f \in Firms : subscription'[f] = "active" => subscription[f] = "active"
    PROVE  ActiveIsPaid'
<1> SUFFICES ASSUME NEW f \in Firms, firm'[f] = "active" \/ subscription'[f] = "active"
             PROVE  \E t \in Good \cap inbox' : FirmOf(t)' = f
    BY DEF ActiveIsPaid
<1>1. PICK t \in Good \cap inbox : FirmOf(t) = f
    BY DEF PaymentInv, ActiveIsPaid
<1>2. t \in Transactions /\ paidFor[t] # Nothing
    BY <1>1, GoodAssumption DEF PaymentInv, OrdersAreOfFirms
<1> QED
    BY <1>1, <1>2, PaymentsStay

(* A step that serves no request.                                          *)
LEMMA OthersKeep ==
    ASSUME PaymentInv, PaymentNext, PaymentTypeOK', UNCHANGED <<handler, inbox, cut, processed>>,
           \A o \in recorded' : order'[o] # Nothing,
           \A f \in Firms : firm'[f] = "active" => firm[f] = "active",
           UNCHANGED subscription
    PROVE  PaymentInv'
<1>1. ActiveIsPaid'
    BY PaidStays
<1>2. \A h \in Handlers : handler[h].step \in Steps => handler[h].txn \in Transactions
    BY HandlerAtWork DEF PaymentInv, Steps
<1>3. OrdersAreOfFirms'
    BY <1>2, PaymentsStay DEF PaymentInv, OrdersAreOfFirms, PaymentTypeOK
<1>4. InboxFirst' /\ OnlyGood' /\ OnePastInbox'
    BY DEF PaymentInv, InboxFirst, OnlyGood, OnePastInbox, Past
<1>5. FirstToProcess' /\ ProcessedOnce'
    BY DEF PaymentInv, FirstToProcess, ProcessedOnce
<1> QED
    BY <1>1, <1>3, <1>4, <1>5 DEF PaymentInv

(* A step of a request to its next statement, or to its end.               *)
LEMMA ServeKeeps ==
    ASSUME PaymentInv, PaymentNext, NEW h \in Handlers, handler[h].step # "idle",
           NEW step \in {"resolve", "subscribe", "activate", "settle", "idle"}, Serve(h, step),
           firm' \in [Firms -> {"trial", "active", "suspended"}],
           subscription' \in [Firms -> {"trialing", "active"}],
           inbox' \in SUBSET Transactions, UNCHANGED inbox \/ inbox' = inbox \cup {handler[h].txn},
           answered' \subseteq inbox', UNCHANGED cut \/ cut' = cut \cup {handler[h].txn},
           step # "idle" => handler[h].txn \in inbox',
           step # "idle" => handler[h].txn \notin inbox \/ handler[h].step # "inbox",
           step = "resolve" => handler[h].step = "inbox",
           UNCHANGED processed \/
               (/\ handler[h].step = "resolve"
                /\ processed' = [processed EXCEPT ![handler[h].txn] = processed[handler[h].txn] + 1]),
           step \in {"subscribe", "activate"} => handler[h].txn \in Good,
           ActiveIsPaid'
    PROVE  PaymentInv'
<1>1. handler[h] \in [step : Steps, txn : Transactions]
    BY HandlerAtWork DEF PaymentInv
<1>2. /\ handler' = [handler EXCEPT ![h] = IF step = "idle" THEN NoDelivery ELSE [@ EXCEPT !.step = step]]
      /\ UNCHANGED <<trialOver, expiring, orderVars, paidFor>>
    BY DEF Serve
<1>3. handler \in [Handlers -> [step : Steps, txn : Transactions] \cup {NoDelivery}]
    BY DEF PaymentInv, PaymentTypeOK
<1>4. /\ handler'[h].step = step
      /\ step # "idle" => handler'[h].txn = handler[h].txn
      /\ \A g \in Handlers \ {h} : handler'[g] = handler[g]
    BY <1>1, <1>2, <1>3 DEF NoDelivery
<1>5. handler' \in [Handlers -> [step : Steps, txn : Transactions] \cup {NoDelivery}]
  <2>1. [handler[h] EXCEPT !.step = "resolve"] \in [step : Steps, txn : Transactions]
      BY <1>1 DEF Steps
  <2>2. step # "idle" => [handler[h] EXCEPT !.step = step] \in [step : Steps, txn : Transactions]
      BY <1>1 DEF Steps
  <2> QED
      BY <1>2, <1>3, <2>2
<1>10. processed' \in [Transactions -> Nat]
    BY <1>1 DEF PaymentInv, PaymentTypeOK
<1>6. PaymentTypeOK'
    BY <1>1, <1>2, <1>5, <1>10 DEF PaymentInv, PaymentTypeOK, orderVars
<1>7. OrdersAreOfFirms'
    BY <1>1, <1>2, <1>4 DEF PaymentInv, OrdersAreOfFirms, orderVars, Steps
<1>8. InboxFirst' /\ OnlyGood'
    BY <1>4, PaymentsStay DEF PaymentInv, InboxFirst, OnlyGood, Past, Steps
<1>9. OnePastInbox'
    BY <1>1, <1>4 DEF PaymentInv, InboxFirst, OnePastInbox, Past, Steps
<1>11. ProcessedOnce' /\ FirstToProcess'
  <2>1. CASE UNCHANGED processed
    <3>1. ASSUME NEW g \in Handlers, handler'[g].step = "resolve" PROVE processed[handler'[g].txn] = 0
      <4>1. CASE g # h
          BY <1>4, <3>1, <4>1 DEF PaymentInv, FirstToProcess
      <4>2. CASE g = h
        <5>1. handler[h].txn \in Transactions /\ handler[h].txn \notin inbox /\ handler'[g].txn = handler[h].txn
            BY <1>1, <1>4, <3>1, <4>2
        <5> QED
            BY <5>1 DEF PaymentInv, PaymentTypeOK, FirstToProcess
      <4> QED
          BY <4>1, <4>2
    <3> QED
        BY <2>1, <3>1, PaymentsStay DEF PaymentInv, ProcessedOnce, FirstToProcess
  <2>2. CASE /\ handler[h].step = "resolve"
             /\ processed' = [processed EXCEPT ![handler[h].txn] = processed[handler[h].txn] + 1]
    <3>1. PICK t \in Transactions : t = handler[h].txn
        BY <1>1
    <3>2. processed[t] = 0 /\ t \in inbox
        BY <2>2, <3>1 DEF PaymentInv, FirstToProcess, InboxFirst, Past, Steps
    <3>3. /\ processed'[t] = 1
          /\ \A u \in Transactions \ {t} : processed'[u] = processed[u]
        BY <2>2, <3>1, <3>2 DEF PaymentInv, PaymentTypeOK
    <3>4. ASSUME NEW g \in Handlers, handler'[g].step = "resolve" PROVE processed'[handler'[g].txn] = 0
      <4>1. g # h /\ handler'[g] = handler[g]
          BY <1>4, <2>2, <3>4 DEF Steps
      <4>2. handler[g].txn # t
          BY <2>2, <3>1, <3>4, <4>1 DEF PaymentInv, OnePastInbox, Past, Steps
      <4>3. handler[g].txn \in Transactions
          BY <3>4, <4>1, HandlerAtWork DEF PaymentInv
      <4> QED
          BY <3>3, <3>4, <4>1, <4>2, <4>3 DEF PaymentInv, FirstToProcess
    <3> QED
        BY <3>2, <3>3, <3>4, PaymentsStay DEF PaymentInv, ProcessedOnce, FirstToProcess
  <2> QED
      BY <2>1, <2>2
<1> QED
    BY <1>6, <1>7, <1>8, <1>9, <1>11 DEF PaymentInv
-------------------------------------------------------------------------------
LEMMA WorkKeeps ==
    ASSUME PaymentInv, PaymentNext, NEW h \in Handlers, Handle(h) \/ HandlerDies(h)
    PROVE  PaymentInv'
<1> DEFINE t == handler[h].txn
<1>1. handler[h].step # "idle"
    BY DEF Handle, PutInInbox, Resolve, Subscribe, Activate, Settle, HandlerDies, PaymentInv, PaymentTypeOK, NoDelivery, Steps
<1>2. handler[h] \in [step : Steps, txn : Transactions] /\ t \in Transactions
    BY <1>1, HandlerAtWork DEF PaymentInv
<1>3. /\ firm \in [Firms -> {"trial", "active", "suspended"}] /\ subscription \in [Firms -> {"trialing", "active"}]
      /\ inbox \in SUBSET Transactions /\ answered \subseteq inbox
    BY DEF PaymentInv, PaymentTypeOK
<1>4. handler[h].step \in Steps \ {"inbox"} => t \in inbox
    BY DEF PaymentInv, InboxFirst, Past
<1>5. CASE PutInInbox(h)
    BY <1>1, <1>2, <1>3, <1>5, ServeKeeps, PaidStays DEF PutInInbox, Answer
<1>6. CASE Resolve(h) \/ Settle(h) \/ HandlerDies(h)
  <2>1. UNCHANGED <<firm, subscription, inbox>>
      BY <1>6 DEF Resolve, Settle, HandlerDies
  <2>2. ActiveIsPaid'
      BY <2>1, PaidStays
  <2>3. CASE Resolve(h)
      BY <1>1, <1>2, <1>3, <1>4, <2>1, <2>2, <2>3, ServeKeeps DEF Resolve, Answer, Steps
  <2>4. CASE Settle(h)
      BY <1>1, <1>2, <1>3, <1>4, <2>1, <2>2, <2>4, ServeKeeps DEF Settle, Answer, Steps
  <2>5. CASE HandlerDies(h)
      BY <1>1, <1>2, <1>3, <2>1, <2>2, <2>5, ServeKeeps DEF HandlerDies
  <2> QED
      BY <1>6, <2>3, <2>4, <2>5
<1>7. CASE Subscribe(h) \/ Activate(h)
  <2> PICK u \in Transactions : u = handler[h].txn
      BY <1>2
  <2>1. u \in Good \cap inbox /\ paidFor[u] # Nothing
      BY <1>4, <1>7 DEF Subscribe, Activate, PaymentInv, OnlyGood, OrdersAreOfFirms, Steps
  <2>0. FirmOf(u) \in Firms /\ FirmOf(u)' = FirmOf(u)
      BY <2>1, PaymentsStay
  <2>2. UNCHANGED <<inbox, answered>>
      BY <1>7 DEF Subscribe, Activate
  <2>3. /\ firm' \in [Firms -> {"trial", "active", "suspended"}]
        /\ subscription' \in [Firms -> {"trialing", "active"}]
        /\ \A f \in Firms \ {FirmOf(u)} : firm'[f] = firm[f] /\ subscription'[f] = subscription[f]
      BY <1>3, <1>7, <2>0 DEF Subscribe, Activate
  <2>4. ActiveIsPaid'
    <3> SUFFICES ASSUME NEW f \in Firms, firm'[f] = "active" \/ subscription'[f] = "active"
                 PROVE  \E v \in Good \cap inbox : FirmOf(v)' = f
        BY <2>2 DEF ActiveIsPaid
    <3>1. CASE f = FirmOf(u)
        BY <2>1, <2>0, <3>1
    <3>2. CASE f # FirmOf(u)
      <4>1. PICK v \in Good \cap inbox : FirmOf(v) = f
          BY <2>3, <3>2 DEF PaymentInv, ActiveIsPaid
      <4>2. v \in Transactions /\ paidFor[v] # Nothing
          BY <4>1, GoodAssumption DEF PaymentInv, OrdersAreOfFirms
      <4> QED
          BY <4>1, <4>2, PaymentsStay
    <3> QED
        BY <3>1, <3>2
  <2>5. CASE Subscribe(h)
      BY <1>1, <1>2, <1>3, <2>1, <2>2, <2>3, <2>4, <2>5, ServeKeeps DEF Subscribe
  <2>6. CASE Activate(h)
      BY <1>1, <1>2, <1>3, <2>1, <2>2, <2>3, <2>4, <2>6, ServeKeeps DEF Activate
  <2> QED
      BY <1>7, <2>5, <2>6
<1> QED
    BY <1>5, <1>6, <1>7 DEF Handle

LEMMA NextPaymentInv == PaymentInv /\ [PaymentNext]_paymentVars => PaymentInv'
<1> SUFFICES ASSUME PaymentInv, [PaymentNext]_paymentVars PROVE PaymentInv'
    OBVIOUS
<1>1. CASE UNCHANGED paymentVars
    BY <1>1 DEF webhookVars, PaymentInv, paymentVars, PaymentTypeOK, OrdersAreOfFirms, InboxFirst, OnlyGood,
       OnePastInbox, FirstToProcess, ProcessedOnce, ActiveIsPaid, Past, FirmOf
<1>2. ASSUME PaymentNext, NEW f \in Firms, TrialEnds(f)
      PROVE  PaymentInv'
  <2>1. PaymentTypeOK'
      BY <1>2 DEF TrialEnds, webhookVars, PaymentInv, PaymentTypeOK, orderVars
  <2> QED
      BY <1>2, <2>1, OthersKeep DEF TrialEnds, webhookVars, orderVars, PaymentInv, OrdersAreOfFirms
<1>3. ASSUME PaymentNext, FindExpired \/ SuspendExpired
      PROVE  PaymentInv'
  <2>1. PaymentTypeOK'
      BY <1>3 DEF webhookVars, FindExpired, SuspendExpired, PaymentInv, PaymentTypeOK, orderVars
  <2>2. \A f \in Firms : firm'[f] = "active" => firm[f] = "active"
      BY <1>3 DEF FindExpired, SuspendExpired
  <2> QED
      BY <1>3, <2>1, <2>2, OthersKeep DEF webhookVars, FindExpired, SuspendExpired, orderVars, PaymentInv, OrdersAreOfFirms
<1>4. ASSUME PaymentNext, NEW o \in Orders,
             (\E f \in Firms : CreateOrder(f, o)) \/ RecordOrder(o) \/ OfferPayment(o)
      PROVE  PaymentInv'
  <2>1. PaymentTypeOK'
      BY <1>4 DEF webhookVars, CreateOrder, RecordOrder, OfferPayment, PaymentInv, PaymentTypeOK, firmVars
  <2>2. \A p \in recorded' : order'[p] # Nothing
      BY <1>4, NothingAssumption DEF CreateOrder, RecordOrder, OfferPayment, PaymentInv, PaymentTypeOK, OrdersAreOfFirms
  <2> QED
      BY <1>4, <2>1, <2>2, OthersKeep DEF webhookVars, CreateOrder, RecordOrder, OfferPayment, firmVars
<1>5. ASSUME PaymentNext, NEW t \in Transactions, NEW o \in Orders, Pay(t, o)
      PROVE  PaymentInv'
  <2>1. PaymentTypeOK'
      BY <1>5 DEF webhookVars, Pay, PaymentInv, PaymentTypeOK, firmVars, orderVars
  <2> QED
      BY <1>5, <2>1, OthersKeep DEF webhookVars, Pay, firmVars, orderVars, PaymentInv, OrdersAreOfFirms
<1>6. ASSUME PaymentNext, NEW h \in Handlers, NEW t \in Transactions, Deliver(h, t)
      PROVE  PaymentInv'
  <2>1. handler' = [handler EXCEPT ![h] = [step |-> "inbox", txn |-> t]] /\ paidFor[t] # Nothing
        /\ UNCHANGED <<firmVars, orderVars, paidFor, inbox, answered, cut, processed>>
      BY <1>6 DEF Deliver
  <2>2. handler'[h] = [step |-> "inbox", txn |-> t] /\ \A g \in Handlers \ {h} : handler'[g] = handler[g]
      BY <2>1 DEF PaymentInv, PaymentTypeOK
  <2>3. PaymentTypeOK'
      BY <2>1 DEF PaymentInv, PaymentTypeOK, firmVars, orderVars, Steps
  <2>4. OrdersAreOfFirms' /\ InboxFirst' /\ OnlyGood' /\ OnePastInbox'
      BY <2>1, <2>2 DEF PaymentInv, OrdersAreOfFirms, InboxFirst, OnlyGood, OnePastInbox, Past, orderVars
  <2>6. FirstToProcess' /\ ProcessedOnce'
      BY <2>1, <2>2 DEF PaymentInv, FirstToProcess, ProcessedOnce
  <2>5. ActiveIsPaid'
      BY <1>6, <2>1, PaidStays DEF firmVars
  <2> QED
      BY <2>3, <2>4, <2>5, <2>6 DEF PaymentInv
<1> QED
    BY <1>1, <1>2, <1>3, <1>4, <1>5, <1>6, WorkKeeps DEF PaymentNext

LEMMA PaymentInvariance == PaymentSpec => []PaymentInv
BY InitPaymentInv, NextPaymentInv, PTL DEF PaymentSpec
-------------------------------------------------------------------------------
(* Firms, orders, transactions and webhook requests keep their types       *)
(* (signup.py, 0011).                                                      *)
THEOREM SubscriptionTypes == PaymentSpec => []PaymentTypeOK
BY PaymentInvariance, PTL DEF PaymentInv

(* However often the provider calls about a transaction, at once, one      *)
(* after another or after a request has died of it, one request at most    *)
(* goes through with it (signup.py, paymob_webhook).                       *)
THEOREM TransactionsAreProcessedOnce == PaymentSpec => []ProcessedOnce
BY PaymentInvariance, PTL DEF PaymentInv

(* A firm is active only when a good transaction has paid an order of its  *)
(* own (signup.py, paymob_webhook).                                        *)
THEOREM ActiveFirmsHavePaid == PaymentSpec => []ActiveIsPaid
BY PaymentInvariance, PTL DEF PaymentInv

(* The expiry of trials, on whatever it has read, suspends no firm whose   *)
(* subscription is active, unless the webhook request of a payment of that *)
(* firm died (reminders.py, expire_trials).                                *)
THEOREM SubscribersAreServed == PaymentSpec => []SubscribedIsServed
<1>1. PaymentInit => SubscribedIsServed
    BY DEF PaymentInit, SubscribedIsServed
<1>2. PaymentInv /\ SubscribedIsServed /\ [PaymentNext]_paymentVars => SubscribedIsServed'
  <2> SUFFICES ASSUME PaymentInv, SubscribedIsServed, PaymentNext, NEW f \in Firms, subscription'[f] = "active",
                      \A h \in Handlers : handler'[h].step = "activate" => FirmOf(handler[h].txn)' # f,
                      \A t \in cut' : FirmOf(t)' # f
               PROVE  firm'[f] = "active"
      BY DEF SubscribedIsServed, paymentVars, FirmOf
  <2>1. CASE firm[f] = "active"
      BY <2>1 DEF PaymentNext, PaymentInv, PaymentTypeOK, TrialEnds, FindExpired, SuspendExpired, CreateOrder, RecordOrder, OfferPayment,
         Pay, Deliver, Handle, PutInInbox, Resolve, Subscribe, Activate, Settle, HandlerDies, Serve, Answer, firmVars, webhookVars
  <2>2. CASE subscription[f] # "active"
    <3>1. PICK h \in Handlers : Subscribe(h)
        BY <2>2 DEF PaymentNext, TrialEnds, FindExpired, SuspendExpired, CreateOrder, RecordOrder, OfferPayment,
           Pay, Deliver, Handle, PutInInbox, Resolve, Activate, Settle, HandlerDies, firmVars
    <3>2. handler[h] \in [step : Steps, txn : Transactions]
        BY <3>1, HandlerAtWork DEF Subscribe, PaymentInv
    <3> PICK t \in Transactions : t = handler[h].txn
        BY <3>2
    <3>3. paidFor[t] # Nothing
        BY <3>1 DEF Subscribe, PaymentInv, OrdersAreOfFirms, Steps
    <3>4. FirmOf(t) = f
        BY <2>2, <3>1 DEF Subscribe, PaymentInv, PaymentTypeOK
    <3>5. handler'[h].step = "activate" /\ handler'[h].txn = t
        BY <3>1, <3>2 DEF Subscribe, Serve, PaymentInv, PaymentTypeOK
    <3> QED
        BY <3>3, <3>4, <3>5, PaymentsStay DEF FirmOf
  <2>3. CASE firm[f] # "active" /\ subscription[f] = "active"
    <3>0. \A t \in cut : FirmOf(t) # f
      <4>1. cut \subseteq cut'
          BY DEF PaymentNext, TrialEnds, FindExpired, SuspendExpired, CreateOrder, RecordOrder, OfferPayment, Pay,
             Deliver, Handle, PutInInbox, Resolve, Subscribe, Activate, Settle, HandlerDies, webhookVars
      <4> QED
          BY <4>1, PaymentsStay DEF PaymentInv, PaymentTypeOK, OrdersAreOfFirms
    <3>1. PICK h \in Handlers : handler[h].step = "activate" /\ FirmOf(handler[h].txn) = f
        BY <2>3, <3>0 DEF SubscribedIsServed
    <3>2. handler[h] \in [step : Steps, txn : Transactions]
        BY <3>1, HandlerAtWork DEF PaymentInv
    <3> PICK t \in Transactions : t = handler[h].txn
        BY <3>2
    <3>3. paidFor[t] # Nothing
        BY <3>1 DEF PaymentInv, OrdersAreOfFirms, Steps
    <3>4. CASE handler'[h] = handler[h]
        BY <3>1, <3>3, <3>4, PaymentsStay DEF FirmOf
    <3>5. CASE handler'[h] # handler[h]
      <4>1. Activate(h) \/ HandlerDies(h)
          BY <3>1, <3>2, <3>5 DEF PaymentNext, PaymentInv, PaymentTypeOK, NoDelivery, TrialEnds, FindExpired, SuspendExpired, CreateOrder,
             RecordOrder, OfferPayment, Pay, Deliver, Handle, PutInInbox, Resolve, Subscribe, Settle, HandlerDies,
             Serve, Answer, Activate, webhookVars
      <4>2. ~HandlerDies(h)
          BY <3>1, <3>3, PaymentsStay DEF HandlerDies
      <4> QED
          BY <3>1, <4>1, <4>2 DEF Activate, PaymentInv, PaymentTypeOK
    <3> QED
        BY <3>4, <3>5
  <2> QED
      BY <2>1, <2>2, <2>3
<1> QED
    BY <1>1, <1>2, PaymentInvariance, PTL DEF PaymentSpec
================================================================================
