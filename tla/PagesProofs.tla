------------------------------ MODULE PagesProofs ------------------------------
(***************************************************************************)
(* Proofs about four pages of the browser, for any number of users,        *)
(* documents, cases and people, and any number of answers under way: a     *)
(* page that waits for nothing shows what the server holds.  A page at     *)
(* rest is the end of any number of crossing calls, so nearly all that is  *)
(* said here is about what the answers in flight will make of it.          *)
(***************************************************************************)
EXTENDS Pages, FiniteSetTheorems, TLAPS

(* Sequences.                                                              *)
LEMMA Concatenation ==
    ASSUME NEW S, NEW u \in Seq(S), NEW v \in Seq(S)
    PROVE  /\ u \o v \in Seq(S) /\ Len(u \o v) = Len(u) + Len(v)
           /\ \A k \in 1..Len(u) : (u \o v)[k] = u[k]
           /\ \A k \in 1..Len(v) : (u \o v)[Len(u) + k] = v[k]
OBVIOUS

(* A sequence without one of its elements.                                 *)
LEMMA Removal ==
    ASSUME NEW S, NEW s \in Seq(S), NEW i \in 1..Len(s)
    PROVE  /\ RemoveAt(s, i) \in Seq(S)
           /\ Len(RemoveAt(s, i)) = Len(s) - 1
           /\ \A k \in 1..Len(s) - 1 : RemoveAt(s, i)[k] = IF k < i THEN s[k] ELSE s[k + 1]
<1>1. SubSeq(s, 1, i - 1) \in Seq(S) /\ SubSeq(s, i + 1, Len(s)) \in Seq(S)
    OBVIOUS
<1>2. Len(SubSeq(s, 1, i - 1)) = i - 1 /\ Len(SubSeq(s, i + 1, Len(s))) = Len(s) - i
    OBVIOUS
<1>3. \A k \in 1..i - 1 : SubSeq(s, 1, i - 1)[k] = s[k]
    OBVIOUS
<1>4. \A k \in 1..Len(s) - i : SubSeq(s, i + 1, Len(s))[k] = s[k + i]
    OBVIOUS
<1> DEFINE a == SubSeq(s, 1, i - 1)
           b == SubSeq(s, i + 1, Len(s))
           r == a \o b
<1>5. r = RemoveAt(s, i)
    BY DEF RemoveAt
<1> HIDE DEF a, b
<1>6. /\ r \in Seq(S) /\ Len(r) = Len(a) + Len(b)
      /\ \A k \in 1..Len(a) : r[k] = a[k]
      /\ \A k \in 1..Len(b) : r[Len(a) + k] = b[k]
  <2>1. a \in Seq(S) /\ b \in Seq(S)
      BY <1>1 DEF a, b
  <2> QED
      BY <2>1, Concatenation
<1>7. Len(a) = i - 1 /\ Len(b) = Len(s) - i
    BY <1>2 DEF a, b
<1> HIDE DEF r
<1>8. /\ r \in Seq(S) /\ Len(r) = (i - 1) + (Len(s) - i)
      /\ \A k \in 1..i - 1 : r[k] = a[k]
      /\ \A k \in 1..Len(s) - i : r[(i - 1) + k] = b[k]
    BY <1>6, <1>7
<1>9. \A k \in 1..i - 1 : r[k] = s[k]
    BY <1>3, <1>8 DEF a
<1>10. \A k \in 1..Len(s) - i : r[(i - 1) + k] = s[k + i]
    BY <1>4, <1>8 DEF b
<1>11. ASSUME NEW k \in 1..Len(s) - 1
       PROVE  r[k] = IF k < i THEN s[k] ELSE s[k + 1]
  <2>1. CASE k < i
      BY <1>9, <2>1
  <2>2. CASE ~(k < i)
    <3>1. k - (i - 1) \in 1..Len(s) - i /\ (i - 1) + (k - (i - 1)) = k /\ k - (i - 1) + i = k + 1
        BY <2>2
    <3> QED
        BY <1>10, <2>2, <3>1
  <2> QED
      BY <2>1, <2>2
<1> QED
    BY <1>5, <1>8, <1>11

(* A sequence with another element in one of its places.                   *)
LEMMA Replacement ==
    ASSUME NEW S, NEW s \in Seq(S), NEW i \in 1..Len(s), NEW e \in S
    PROVE  /\ [s EXCEPT ![i] = e] \in Seq(S)
           /\ Len([s EXCEPT ![i] = e]) = Len(s)
           /\ \A k \in 1..Len(s) : [s EXCEPT ![i] = e][k] = IF k = i THEN e ELSE s[k]
OBVIOUS

(* What is left of a sequence, what is added to it, and its last element.  *)
LEMMA Remaining ==
    ASSUME NEW S, NEW s \in Seq(S), NEW i \in DOMAIN s
    PROVE  /\ RemoveAt(s, i) \in Seq(S) /\ Len(RemoveAt(s, i)) = Len(s) - 1
           /\ \A k \in DOMAIN RemoveAt(s, i) : \E o \in DOMAIN s \ {i} : RemoveAt(s, i)[k] = s[o]
           /\ \A o \in DOMAIN s \ {i} : \E k \in DOMAIN RemoveAt(s, i) : RemoveAt(s, i)[k] = s[o]
           /\ i # Len(s) => RemoveAt(s, i) # <<>> /\ RemoveAt(s, i)[Len(RemoveAt(s, i))] = s[Len(s)]
           /\ i = 1 /\ i = Len(s) => RemoveAt(s, i) = <<>>
<1> DEFINE r == RemoveAt(s, i)
<1> HIDE DEF r
<1>1. /\ i \in 1..Len(s) /\ DOMAIN s = 1..Len(s) /\ Len(s) \in Nat
    OBVIOUS
<1>2. /\ r \in Seq(S) /\ Len(r) = Len(s) - 1
      /\ \A k \in 1..Len(s) - 1 : r[k] = IF k < i THEN s[k] ELSE s[k + 1]
    BY <1>1, Removal DEF r
<1>3. DOMAIN r = 1..Len(s) - 1
    BY <1>2
<1>4. ASSUME NEW k \in DOMAIN r PROVE \E o \in DOMAIN s \ {i} : r[k] = s[o]
  <2>1. CASE k < i
    <3>1. k \in DOMAIN s \ {i} /\ r[k] = s[k]
        BY <1>1, <1>2, <1>3, <2>1
    <3> QED
        BY <3>1
  <2>2. CASE ~(k < i)
    <3>1. k + 1 \in DOMAIN s \ {i} /\ r[k] = s[k + 1]
        BY <1>1, <1>2, <1>3, <2>2
    <3> QED
        BY <3>1
  <2> QED
      BY <2>1, <2>2
<1>5. ASSUME NEW o \in DOMAIN s \ {i} PROVE \E k \in DOMAIN r : r[k] = s[o]
  <2>1. CASE o < i
      BY <1>1, <1>2, <1>3, <2>1
  <2>2. CASE ~(o < i)
    <3>1. o - 1 \in DOMAIN r /\ ~(o - 1 < i) /\ (o - 1) + 1 = o
        BY <1>1, <1>3, <2>2
    <3> QED
        BY <1>2, <1>3, <3>1
  <2> QED
      BY <2>1, <2>2
<1>6. ASSUME i # Len(s) PROVE r # <<>> /\ r[Len(r)] = s[Len(s)]
  <2>1. Len(s) - 1 \in 1..Len(s) - 1 /\ ~(Len(s) - 1 < i)
      BY <1>1, <1>6
  <2> QED
      BY <1>1, <1>2, <2>1
<1>7. ASSUME i = 1, i = Len(s) PROVE r = <<>>
    BY <1>2, <1>7
<1> QED
    BY <1>2, <1>4, <1>5, <1>6, <1>7 DEF r

(* Two places of what is left are two places of the sequence.              *)
LEMMA RemainingApart ==
    ASSUME NEW S, NEW s \in Seq(S), NEW i \in DOMAIN s,
           NEW k \in DOMAIN RemoveAt(s, i), NEW l \in DOMAIN RemoveAt(s, i)
    PROVE  \E o, p \in DOMAIN s \ {i} :
               RemoveAt(s, i)[k] = s[o] /\ RemoveAt(s, i)[l] = s[p] /\ (o = p => k = l)
<1> DEFINE r == RemoveAt(s, i)
           at(n) == IF n < i THEN n ELSE n + 1
<1>1. /\ i \in 1..Len(s) /\ DOMAIN s = 1..Len(s) /\ Len(s) \in Nat
    OBVIOUS
<1> HIDE DEF r
<1>2. /\ r \in Seq(S) /\ Len(r) = Len(s) - 1
      /\ \A n \in 1..Len(s) - 1 : r[n] = IF n < i THEN s[n] ELSE s[n + 1]
    BY <1>1, Removal DEF r
<1>3. k \in 1..Len(s) - 1 /\ l \in 1..Len(s) - 1
    BY <1>2 DEF r
<1>4. r[k] = s[at(k)] /\ r[l] = s[at(l)]
    BY <1>2, <1>3
<1>5. at(k) \in DOMAIN s \ {i} /\ at(l) \in DOMAIN s \ {i} /\ (at(k) = at(l) => k = l)
    BY <1>1, <1>3
<1> HIDE DEF at
<1> QED
    BY <1>4, <1>5 DEF r

LEMMA Extension ==
    ASSUME NEW S, NEW s \in Seq(S), NEW e \in S
    PROVE  /\ Append(s, e) \in Seq(S) /\ Len(Append(s, e)) = Len(s) + 1
           /\ DOMAIN Append(s, e) = DOMAIN s \cup {Len(s) + 1}
           /\ \A k \in DOMAIN s : Append(s, e)[k] = s[k]
           /\ Append(s, e)[Len(s) + 1] = e
           /\ Len(s) + 1 \notin DOMAIN s
OBVIOUS
-------------------------------------------------------------------------------
(* The users.                                                              *)
Table == UNION {[S -> User] : S \in SUBSET Ids}

UserCalls ==
    [kind : {"create", "role"}, id : Ids, change : Roles, answer : User \cup {None, Refused}]
        \cup [kind : {"status"}, id : Ids, change : Statuses, answer : User \cup {None, Refused}]

Sent == {requests[i] : i \in DOMAIN requests}

KindsApart == \A i, j \in DOMAIN requests : requests[i].kind = requests[j].kind => i = j

WasMade(c) == c.answer \notin {None, Refused}

UsersTypes ==
    /\ users \in Table \cup {None}
    /\ load \in Table \cup {None, Gone, Failed}
    /\ dialog \in {"none", "create", "status"} /\ editingRole \in Ids \cup {None} /\ draft \in Roles
    /\ (target # None) = (dialog = "status")
    /\ target # None => target \in [id : Ids, status : Statuses]
    /\ accounts \in [Ids -> User \cup {Gone}]
    /\ requests \in Seq(UserCalls)
    /\ KindsApart /\ underWay = {c.kind : c \in Sent}
    /\ \A k \in {"create", "status"} : k \in underWay => dialog = k
    /\ missed \subseteq Ids /\ mixed \in BOOLEAN

(* What is in a table, open in a dialog or changed by a call exists: no    *)
(* account goes.                                                           *)
Exists(id) == accounts[id] # Gone

OnlyExisting ==
    /\ users # None => \A id \in DOMAIN users : Exists(id)
    /\ load \in Table => \A id \in DOMAIN load : Exists(id)
    /\ target # None => Exists(target.id)
    /\ \A c \in Sent : c.kind # "create" \/ WasMade(c) => Exists(c.id)

(* A user the page may change is in its table.                             *)
ChangesAreListed ==
    /\ load # Gone => users = None
    /\ target # None => InTable(target.id)
    /\ \A c \in Sent : c.kind # "create" => InTable(c.id)

(* The answer that the page is to hear of a user, if it is only one.       *)
AnswersStand ==
    \A c \in Sent :
        WasMade(c) /\ (\A d \in Sent : d.answer # None /\ d.id = c.id => d = c) => c.answer = accounts[c.id]

(* A table shows the users as they are, but for those the page has yet to  *)
(* hear of, or will never hear of.                                         *)
FreshTable(t) ==
    \A id \in Ids \ missed : (\A c \in Sent : WasMade(c) => c.id # id) =>
        /\ id \in DOMAIN t <=> Exists(id)
        /\ id \in DOMAIN t => t[id] = accounts[id]

UsersInv ==
    /\ UsersTypes /\ OnlyExisting
    /\ ~mixed =>
          /\ ChangesAreListed /\ AnswersStand
          /\ users # None => FreshTable(users)
          /\ load \in Table => FreshTable(load)

LEMMA TableIs == \A t : t \in Table <=> DOMAIN t \subseteq Ids /\ t \in [DOMAIN t -> User]
BY DEF Table

LEMMA TablesAreNoMarks == \A t \in Table : t \notin {None, Gone, Failed}
BY UsersAssumption DEF Table

LEMMA UserFields ==
    ASSUME NEW c \in UserCalls
    PROVE  /\ c.kind \in {"create", "role", "status"} /\ c.id \in Ids
           /\ c.change \in IF c.kind = "status" THEN Statuses ELSE Roles
           /\ c.answer \in User \cup {None, Refused}
BY DEF UserCalls

LEMMA UserAnswered ==
    ASSUME NEW c \in UserCalls, NEW a \in User \cup {Refused}
    PROVE  /\ [c EXCEPT !.answer = a] \in UserCalls
           /\ [c EXCEPT !.answer = a].kind = c.kind /\ [c EXCEPT !.answer = a].id = c.id
           /\ [c EXCEPT !.answer = a].answer = a
BY DEF UserCalls

(* The calls in flight after a click, an answer, and its arrival.          *)
LEMMA RequestSent ==
    ASSUME UsersTypes, NEW kind, NEW id, NEW change, Request(kind, id, change), kind \notin underWay,
           NEW c, c = [kind |-> kind, id |-> id, change |-> change, answer |-> None], c \in UserCalls
    PROVE  /\ requests' \in Seq(UserCalls) /\ KindsApart' /\ underWay' = {d.kind : d \in Sent'}
           /\ Sent' = Sent \cup {c}
<1>1. requests \in Seq(UserCalls) /\ requests' = Append(requests, c) /\ underWay' = underWay \cup {c.kind}
      /\ c.kind \notin underWay
    BY DEF UsersTypes, Request
<1>2. /\ requests' \in Seq(UserCalls)
      /\ DOMAIN requests' = DOMAIN requests \cup {Len(requests) + 1}
      /\ \A k \in DOMAIN requests : requests'[k] = requests[k]
      /\ requests'[Len(requests) + 1] = c
    BY <1>1, Extension
<1>3. \A k \in DOMAIN requests : requests[k].kind # c.kind
    BY <1>1 DEF UsersTypes, Sent
<1>4. KindsApart'
    BY <1>2, <1>3 DEF UsersTypes, KindsApart
<1>5. Sent' = Sent \cup {c}
    BY <1>2 DEF Sent
<1> QED
    BY <1>1, <1>2, <1>4, <1>5 DEF UsersTypes

LEMMA RequestAnswered ==
    ASSUME UsersTypes, NEW i \in DOMAIN requests, NEW a \in User \cup {Refused},
           requests' = [requests EXCEPT ![i].answer = a]
    PROVE  /\ requests' \in Seq(UserCalls) /\ KindsApart' /\ {e.kind : e \in Sent'} = {e.kind : e \in Sent}
           /\ Sent' = (Sent \ {requests[i]}) \cup {[requests[i] EXCEPT !.answer = a]}
<1> DEFINE c == requests[i]
           d == [c EXCEPT !.answer = a]
<1>1. requests \in Seq(UserCalls) /\ c \in UserCalls /\ i \in 1..Len(requests)
    BY DEF UsersTypes
<1>2. d \in UserCalls /\ d.kind = c.kind
    BY <1>1, UserAnswered
<1>3. requests' = [requests EXCEPT ![i] = d]
    BY <1>1
<1> HIDE DEF d
<1>4. /\ requests' \in Seq(UserCalls) /\ DOMAIN requests' = DOMAIN requests
      /\ \A k \in DOMAIN requests : requests'[k] = IF k = i THEN d ELSE requests[k]
    BY <1>1, <1>2, <1>3, Replacement
<1>5. KindsApart'
    BY <1>2, <1>4 DEF UsersTypes, KindsApart
<1>6. \A k \in DOMAIN requests \ {i} : requests[k] # c
    BY DEF UsersTypes, KindsApart
<1>7. Sent' = (Sent \ {c}) \cup {d} /\ c \in Sent
    BY <1>4, <1>6 DEF Sent
<1>8. {e.kind : e \in Sent'} = {e.kind : e \in Sent}
    BY <1>2, <1>7
<1> QED
    BY <1>4, <1>5, <1>7, <1>8 DEF d

LEMMA RequestHeard ==
    ASSUME UsersTypes, NEW i \in DOMAIN requests,
           requests' = RemoveAt(requests, i), underWay' = underWay \ {requests[i].kind}
    PROVE  /\ requests' \in Seq(UserCalls) /\ KindsApart' /\ underWay' = {d.kind : d \in Sent'}
           /\ Sent' = Sent \ {requests[i]}
<1> DEFINE c == requests[i]
<1>1. requests \in Seq(UserCalls) /\ c \in UserCalls /\ i \in 1..Len(requests)
    BY DEF UsersTypes
<1>2. /\ requests' \in Seq(UserCalls) /\ Len(requests') = Len(requests) - 1
      /\ \A k \in 1..Len(requests) - 1 : requests'[k] = IF k < i THEN requests[k] ELSE requests[k + 1]
    BY <1>1, Removal
<1>3. \A k \in DOMAIN requests \ {i} : requests[k].kind # c.kind
    BY DEF UsersTypes, KindsApart
<1>4. KindsApart'
  <2> SUFFICES ASSUME NEW k \in DOMAIN requests', NEW l \in DOMAIN requests',
                      requests'[k].kind = requests'[l].kind
               PROVE  k = l
      BY DEF KindsApart
  <2> DEFINE o(n) == IF n < i THEN n ELSE n + 1
  <2>1. k \in 1..Len(requests) - 1 /\ l \in 1..Len(requests) - 1
      BY <1>1, <1>2
  <2>2. requests'[k] = requests[o(k)] /\ requests'[l] = requests[o(l)]
      BY <1>2, <2>1
  <2>3. o(k) \in DOMAIN requests /\ o(l) \in DOMAIN requests
      BY <1>1, <2>1
  <2>4. o(k) = o(l)
      BY <2>2, <2>3 DEF UsersTypes, KindsApart
  <2> QED
      BY <1>1, <2>1, <2>4
<1>5. /\ \A k \in DOMAIN requests' : \E o \in DOMAIN requests \ {i} : requests'[k] = requests[o]
      /\ \A o \in DOMAIN requests \ {i} : \E k \in DOMAIN requests' : requests'[k] = requests[o]
  <2>1. requests \in Seq(UserCalls) /\ i \in DOMAIN requests
      BY <1>1
  <2>2. \A k \in DOMAIN RemoveAt(requests, i) : \E o \in DOMAIN requests \ {i} : RemoveAt(requests, i)[k] = requests[o]
      BY <2>1, Remaining
  <2>3. \A o \in DOMAIN requests \ {i} : \E k \in DOMAIN RemoveAt(requests, i) : RemoveAt(requests, i)[k] = requests[o]
      BY <2>1, Remaining
  <2> QED
      BY <2>2, <2>3
<1>6. Sent' = Sent \ {c}
    BY <1>3, <1>5 DEF Sent
<1>7. underWay' = {d.kind : d \in Sent'}
  <2>1. \A d \in Sent \ {c} : d.kind # c.kind
      BY <1>3 DEF Sent
  <2> QED
      BY <1>6, <2>1 DEF UsersTypes
<1> QED
    BY <1>2, <1>4, <1>6, <1>7 DEF Sent

LEMMA UsersInitially == UsersInit => UsersInv
<1> SUFFICES ASSUME UsersInit PROVE UsersInv
    OBVIOUS
<1>1. Sent = {} /\ requests \in Seq(UserCalls) /\ KindsApart
    BY DEF UsersInit, Sent, KindsApart
<1>2. accounts \in [Ids -> User \cup {Gone}]
    BY DEF UsersInit, User, Statuses
<1>3. None \notin Table
    BY TablesAreNoMarks
<1>4. UsersTypes
    BY <1>1, <1>2 DEF UsersInit, UsersTypes
<1> QED
    BY <1>1, <1>3, <1>4 DEF UsersInit, UsersInv, OnlyExisting, ChangesAreListed, AnswersStand

(* What only changes the row that is edited and the dialog: a dialog about *)
(* a user is opened from the table.                                        *)
LEMMA DialogKeepsInv ==
    ASSUME UsersInv, UNCHANGED <<users, load, accounts, requests, underWay, missed, mixed>>,
           dialog' \in {"none", "create", "status"}, editingRole' \in Ids \cup {None}, draft' \in Roles,
           (target' # None) = (dialog' = "status"),
           \A k \in {"create", "status"} : k \in underWay => dialog' = k,
           target' # None /\ target' # target => InTable(target'.id) /\ target' \in [id : Ids, status : Statuses]
    PROVE  UsersInv'
<1>1. Sent' = Sent /\ (KindsApart' <=> KindsApart)
    BY DEF Sent, KindsApart
<1>2. UsersTypes'
    BY <1>1 DEF UsersInv, UsersTypes
<1>3. target' # None => Exists(target'.id) /\ (~mixed => InTable(target'.id))
    BY DEF UsersInv, OnlyExisting, ChangesAreListed, InTable
<1>4. OnlyExisting'
    BY <1>1, <1>3 DEF UsersInv, OnlyExisting, Exists, WasMade
<1>5. ASSUME ~mixed' PROVE (ChangesAreListed /\ AnswersStand)'
    BY <1>1, <1>3, <1>5 DEF UsersInv, ChangesAreListed, AnswersStand, InTable, WasMade
<1>6. ASSUME ~mixed' PROVE (users # None => FreshTable(users))' /\ (load \in Table => FreshTable(load))'
    BY <1>1, <1>6 DEF UsersInv, FreshTable, Exists, WasMade
<1> QED
    BY <1>2, <1>4, <1>5, <1>6 DEF UsersInv

LEMMA EditRoleKeepsInv == ASSUME UsersInv, NEW id \in Ids, EditRole(id) PROVE UsersInv'
<1>1. users[id].role \in Roles
  <2>1. users \in Table /\ id \in DOMAIN users
      BY DEF UsersInv, UsersTypes, EditRole, InTable
  <2> QED
      BY <2>1, TableIs DEF User
<1> QED
    BY <1>1, DialogKeepsInv DEF EditRole, UsersInv, UsersTypes

LEMMA PickRoleKeepsInv == ASSUME UsersInv, NEW r \in Roles, PickRole(r) PROVE UsersInv'
BY DialogKeepsInv DEF PickRole, UsersInv, UsersTypes

LEMMA CancelRoleKeepsInv == ASSUME UsersInv, CancelRole PROVE UsersInv'
BY DialogKeepsInv DEF CancelRole, UsersInv, UsersTypes

LEMMA OpenStatusKeepsInv == ASSUME UsersInv, NEW id \in Ids, OpenStatus(id) PROVE UsersInv'
<1>1. users \in Table /\ id \in DOMAIN users
    BY DEF UsersInv, UsersTypes, OpenStatus, InTable
<1>2. target' = [id |-> id, status |-> users[id].status] /\ users[id].status \in Statuses
    BY <1>1, TableIs DEF User, OpenStatus
<1>3. target' \in [id : Ids, status : Statuses] /\ target'.id = id
    BY <1>2
<1>4. target' # None
    BY <1>3, UsersAssumption
<1>5. "create" \notin underWay /\ "status" \notin underWay
    BY DEF UsersInv, UsersTypes, OpenStatus
<1> QED
    BY <1>3, <1>4, <1>5, DialogKeepsInv DEF OpenStatus, UsersInv, UsersTypes

LEMMA OpenCreateKeepsInv == ASSUME UsersInv, OpenCreate PROVE UsersInv'
<1>1. "create" \notin underWay /\ "status" \notin underWay
    BY DEF UsersInv, UsersTypes, OpenCreate
<1> QED
    BY <1>1, DialogKeepsInv DEF OpenCreate, UsersInv, UsersTypes

LEMMA CloseDialogKeepsInv == ASSUME UsersInv, CloseDialog PROVE UsersInv'
<1>1. "create" \notin underWay /\ "status" \notin underWay
    BY DEF UsersInv, UsersTypes, CloseDialog
<1> QED
    BY <1>1, DialogKeepsInv DEF CloseDialog, UsersInv, UsersTypes

(* The table is read, shown, and asked for again.                          *)
LEMMA ReadUsersKeepsInv == ASSUME UsersInv, ReadUsers PROVE UsersInv'
<1>1. Sent' = Sent /\ (KindsApart' <=> KindsApart)
    BY DEF ReadUsers, Sent, KindsApart
<1>2. /\ Existing \in Table /\ Failed \notin Table
      /\ \A id \in DOMAIN Existing : Exists(id)
  <2>1. DOMAIN Existing = {id \in Ids : Exists(id)} /\ \A id \in DOMAIN Existing : Existing[id] = accounts[id]
      BY DEF Existing, Exists
  <2>2. \A id \in DOMAIN Existing : accounts[id] \in User
      BY <2>1 DEF UsersInv, UsersTypes, Exists
  <2>3. Existing \in [DOMAIN Existing -> User]
      BY <2>1, <2>2 DEF Existing
  <2> QED
      BY <2>1, <2>3, TableIs, TablesAreNoMarks
<1>3. \A id \in Ids :
          /\ id \in DOMAIN Existing <=> Exists(id)
          /\ id \in DOMAIN Existing => Existing[id] = accounts[id]
    BY DEF Existing, Exists
<1>4. UsersTypes'
    BY <1>1, <1>2 DEF UsersInv, UsersTypes, ReadUsers
<1>5. load' \in Table => load' = Existing
    BY <1>2 DEF ReadUsers
<1>6. OnlyExisting'
    BY <1>1, <1>2, <1>5 DEF UsersInv, OnlyExisting, Exists, WasMade, ReadUsers
<1>7. ASSUME ~mixed' PROVE (ChangesAreListed /\ AnswersStand)'
    BY <1>1, <1>7, MarksAssumption DEF UsersInv, ChangesAreListed, AnswersStand, InTable, WasMade, ReadUsers
<1>8. ASSUME ~mixed' PROVE (users # None => FreshTable(users))' /\ (load \in Table => FreshTable(load))'
  <2>1. users' = None
      BY <1>8, MarksAssumption DEF UsersInv, ChangesAreListed, ReadUsers
  <2>2. ASSUME load' \in Table PROVE FreshTable(load)'
      BY <1>1, <1>3, <1>5, <2>2 DEF FreshTable, Exists, WasMade, ReadUsers
  <2> QED
      BY <2>1, <2>2
<1> QED
    BY <1>4, <1>6, <1>7, <1>8 DEF UsersInv

LEMMA ShowUsersKeepsInv == ASSUME UsersInv, ShowUsers PROVE UsersInv'
<1>1. Sent' = Sent /\ (KindsApart' <=> KindsApart)
    BY DEF ShowUsers, Sent, KindsApart
<1>2. /\ \/ load = Failed /\ users' = users
         \/ load \in Table /\ users' = load
      /\ load' = Gone /\ Gone \notin Table
    BY TablesAreNoMarks DEF ShowUsers, UsersInv, UsersTypes
<1>3. UsersTypes'
    BY <1>1, <1>2 DEF UsersInv, UsersTypes, ShowUsers
<1>4. OnlyExisting'
    BY <1>1, <1>2 DEF UsersInv, OnlyExisting, Exists, WasMade, ShowUsers
<1>5. ASSUME ~mixed' PROVE (ChangesAreListed /\ AnswersStand)'
  <2>1. users = None /\ ChangesAreListed /\ AnswersStand
      BY <1>5 DEF UsersInv, ChangesAreListed, ShowUsers
  <2>2. target = None /\ \A c \in Sent : c.kind = "create"
      BY <2>1 DEF ChangesAreListed, InTable
  <2> QED
      BY <1>1, <1>2, <2>1, <2>2 DEF ChangesAreListed, AnswersStand, InTable, WasMade, ShowUsers
<1>6. ASSUME ~mixed' PROVE (users # None => FreshTable(users))'
    BY <1>1, <1>2, <1>6 DEF UsersInv, FreshTable, Exists, WasMade, ShowUsers
<1> QED
    BY <1>2, <1>3, <1>4, <1>5, <1>6 DEF UsersInv

LEMMA TryAgainKeepsInv == ASSUME UsersInv, TryAgain PROVE UsersInv'
<1>1. Sent' = Sent /\ (KindsApart' <=> KindsApart)
    BY DEF TryAgain, Sent, KindsApart
<1>2. target' = None /\ users' = None /\ load' = None /\ None \notin Table
    BY TablesAreNoMarks DEF TryAgain, UsersInv, UsersTypes
<1>3. mixed' \in BOOLEAN
    BY DEF TryAgain
<1>4. UsersTypes'
    BY <1>1, <1>2, <1>3 DEF UsersInv, UsersTypes, TryAgain
<1>5. OnlyExisting'
    BY <1>1, <1>2 DEF UsersInv, OnlyExisting, Exists, WasMade, TryAgain
<1>6. ASSUME ~mixed' PROVE Sent' = {}
  <2>1. requests = <<>>
      BY <1>6 DEF TryAgain
  <2> QED
      BY <1>1, <2>1 DEF Sent
<1> QED
    BY <1>2, <1>4, <1>5, <1>6 DEF UsersInv, ChangesAreListed, AnswersStand

(* A call that a click sends changes nothing that is known.                *)
LEMMA CallKeepsInv ==
    ASSUME UsersInv, UNCHANGED <<users, load, dialog, editingRole, draft, target, accounts, missed, mixed>>,
           NEW kind, NEW id, NEW change, Request(kind, id, change), kind \notin underWay,
           NEW c \in UserCalls, c = [kind |-> kind, id |-> id, change |-> change, answer |-> None],
           kind \in {"create", "status"} => dialog = kind,
           kind # "create" => Exists(id) /\ (~mixed => InTable(id))
    PROVE  UsersInv'
<1>1. /\ requests' \in Seq(UserCalls) /\ KindsApart' /\ underWay' = {d.kind : d \in Sent'}
      /\ Sent' = Sent \cup {c}
    BY RequestSent DEF UsersInv
<1>2. ~WasMade(c) /\ c.kind = kind /\ c.id = id
    BY DEF WasMade
<1>3. \A k \in {"create", "status"} : k \in underWay' => dialog' = k
    BY DEF UsersInv, UsersTypes, Request
<1>4. UsersTypes'
    BY <1>1, <1>3 DEF UsersInv, UsersTypes
<1>5. OnlyExisting'
    BY <1>1, <1>2 DEF UsersInv, OnlyExisting, Exists, WasMade
<1>6. ASSUME ~mixed' PROVE ChangesAreListed'
    BY <1>1, <1>2, <1>6 DEF UsersInv, ChangesAreListed, InTable
<1>7. ASSUME ~mixed' PROVE AnswersStand'
    BY <1>1, <1>2, <1>7 DEF UsersInv, AnswersStand, WasMade
<1>8. ASSUME ~mixed' PROVE (users # None => FreshTable(users))' /\ (load \in Table => FreshTable(load))'
    BY <1>1, <1>2, <1>8 DEF UsersInv, FreshTable, Exists, WasMade
<1> QED
    BY <1>4, <1>5, <1>6, <1>7, <1>8 DEF UsersInv

LEMMA SaveRoleKeepsInv == ASSUME UsersInv, SaveRole PROVE UsersInv'
<1>1. CASE draft = users[editingRole].role
    BY <1>1, DialogKeepsInv DEF SaveRole, UsersInv, UsersTypes
<1>2. CASE draft # users[editingRole].role
  <2>1. users # None /\ editingRole \in DOMAIN users /\ users \in Table
      BY DEF SaveRole, InTable, UsersInv, UsersTypes
  <2>2. editingRole \in Ids /\ draft \in Roles /\ Exists(editingRole) /\ InTable(editingRole)
      BY <2>1, TableIs DEF SaveRole, UsersInv, UsersTypes, OnlyExisting
  <2> DEFINE c == [kind |-> "role", id |-> editingRole, change |-> draft, answer |-> None]
  <2>3. c \in UserCalls
      BY <2>2 DEF UserCalls
  <2>4. Request("role", editingRole, draft) /\ "role" \notin underWay
        /\ UNCHANGED <<users, load, dialog, editingRole, draft, target, accounts, missed, mixed>>
      BY <1>2 DEF SaveRole
  <2> QED
      BY <2>2, <2>3, <2>4, CallKeepsInv
<1> QED
    BY <1>1, <1>2

LEMMA ConfirmStatusKeepsInv == ASSUME UsersInv, ConfirmStatus PROVE UsersInv'
<1> DEFINE change == IF target.status = "active" THEN "inactive" ELSE "active"
           c == [kind |-> "status", id |-> target.id, change |-> change, answer |-> None]
<1>1. target # None /\ target \in [id : Ids, status : Statuses]
    BY DEF ConfirmStatus, UsersInv, UsersTypes
<1>2. target.id \in Ids /\ Exists(target.id) /\ (~mixed => InTable(target.id))
    BY <1>1 DEF UsersInv, OnlyExisting, ChangesAreListed
<1>3. c \in UserCalls
  <2>1. change \in Statuses
      BY DEF Statuses
  <2> HIDE DEF change
  <2> QED
      BY <1>2, <2>1 DEF UserCalls
<1>4. Request("status", target.id, change) /\ "status" \notin underWay /\ dialog = "status"
      /\ UNCHANGED <<users, load, dialog, editingRole, draft, target, accounts, missed, mixed>>
    BY DEF ConfirmStatus
<1> HIDE DEF change
<1> QED
    BY <1>2, <1>3, <1>4, CallKeepsInv

LEMMA CreateUserKeepsInv == ASSUME UsersInv, NEW id \in Ids, NEW r \in Roles, CreateUser(id, r) PROVE UsersInv'
<1> DEFINE c == [kind |-> "create", id |-> id, change |-> r, answer |-> None]
<1>1. c \in UserCalls
    BY DEF UserCalls
<1>2. Request("create", id, r) /\ "create" \notin underWay /\ dialog = "create"
      /\ UNCHANGED <<users, load, dialog, editingRole, draft, target, accounts, missed, mixed>>
    BY DEF CreateUser
<1> QED
    BY <1>1, <1>2, CallKeepsInv

(* What a call makes of a user is a user.                                  *)
LEMMA MadeIsUser == ASSUME UsersInv, NEW c \in Sent PROVE Made(c) \in User
<1>1. c \in UserCalls
    BY DEF Sent, UsersInv, UsersTypes
<1>2. CASE c.kind = "create"
    BY <1>1, <1>2, UserFields DEF Made, User, Statuses
<1>3. CASE c.kind \in {"role", "status"}
  <2>1. accounts[c.id] \in User
      BY <1>1, <1>3, UserFields DEF UsersInv, UsersTypes, OnlyExisting, Exists
  <2>2. c.kind = "role" => c.change \in Roles
      BY <1>1, UserFields
  <2>3. c.kind = "status" => c.change \in Statuses
      BY <1>1, UserFields
  <2> QED
      BY <1>3, <2>1, <2>2, <2>3 DEF Made, User
<1> QED
    BY <1>1, <1>2, <1>3, UserFields

(* An answer of the server: the account it changes is the last one to      *)
(* stand of that user.                                                     *)
LEMMA AnswerRequestKeepsInv == ASSUME UsersInv, NEW i \in DOMAIN requests, AnswerRequest(i) PROVE UsersInv'
<1> DEFINE c == requests[i]
<1>1. PICK a \in {Made(c), Refused} :
          /\ requests' = [requests EXCEPT ![i].answer = a]
          /\ \/ a = Refused /\ UNCHANGED <<accounts, missed>>
             \/ /\ accounts' = [accounts EXCEPT ![c.id] = Made(c)]
                /\ \/ a = Made(c) /\ missed' = missed
                   \/ a = Refused /\ missed' = missed \cup {c.id}
    BY DEF AnswerRequest
<1> DEFINE d == [c EXCEPT !.answer = a]
<1>2. c \in Sent /\ c \in UserCalls /\ c.id \in Ids
    BY UserFields DEF Sent, UsersInv, UsersTypes
<1>3. a \in User \cup {Refused} /\ a # None /\ Made(c) \in User /\ Made(c) # Refused /\ Gone \notin User
    BY <1>1, <1>2, MadeIsUser, UsersAssumption, MarksAssumption
<1>4. /\ requests' \in Seq(UserCalls) /\ KindsApart' /\ {e.kind : e \in Sent'} = {e.kind : e \in Sent}
      /\ Sent' = (Sent \ {c}) \cup {d}
    BY <1>1, <1>3, RequestAnswered DEF UsersInv
<1>5. d.kind = c.kind /\ d.id = c.id /\ d.answer = a
    BY <1>2, <1>3, UserAnswered
<1>6. ~WasMade(c) /\ (WasMade(d) <=> a # Refused)
    BY <1>3, <1>5, UsersAssumption, MarksAssumption DEF WasMade, AnswerRequest
<1> HIDE DEF c, d
<1>7. /\ accounts' \in [Ids -> User \cup {Gone}] /\ missed' \subseteq Ids /\ missed \subseteq missed'
      /\ a # Refused => accounts'[c.id] = a /\ accounts'[c.id] # Gone
      /\ \A id \in Ids : id # c.id => accounts'[id] = accounts[id]
      /\ \A id \in Ids : accounts[id] # Gone => accounts'[id] # Gone
      /\ a = Refused => accounts' = accounts \/ c.id \in missed'
    BY <1>1, <1>2, <1>3 DEF UsersInv, UsersTypes, Exists
<1>8. UNCHANGED <<users, load, dialog, editingRole, draft, target, underWay, mixed>>
    BY DEF AnswerRequest
<1>9. UsersTypes'
    BY <1>4, <1>7, <1>8 DEF UsersInv, UsersTypes
<1>10. /\ \A t \in Table : DOMAIN t \subseteq Ids
       /\ \A e \in Sent : e.id \in Ids
       /\ target # None => target.id \in Ids
    BY TableIs, UserFields DEF UsersInv, UsersTypes, Sent
<1>11. OnlyExisting'
  <2>1. /\ users' # None => \A id \in DOMAIN users' : accounts'[id] # Gone
        /\ load' \in Table => \A id \in DOMAIN load' : accounts'[id] # Gone
        /\ target' # None => accounts'[target'.id] # Gone
      BY <1>7, <1>8, <1>10 DEF UsersInv, UsersTypes, OnlyExisting, Exists
  <2>2. ASSUME NEW e \in Sent', e.kind # "create" \/ WasMade(e) PROVE accounts'[e.id] # Gone
    <3>1. CASE e = d
        BY <1>2, <1>5, <1>6, <1>7, <2>2, <3>1 DEF UsersInv, OnlyExisting, Exists
    <3>2. CASE e \in Sent
        BY <1>7, <1>10, <2>2, <3>2 DEF UsersInv, OnlyExisting, Exists
    <3> QED
        BY <1>4, <3>1, <3>2
  <2> QED
      BY <2>1, <2>2 DEF OnlyExisting, Exists, WasMade
<1>12. ASSUME ~mixed' PROVE ChangesAreListed'
    BY <1>2, <1>4, <1>5, <1>8, <1>12 DEF UsersInv, ChangesAreListed, InTable
<1>13. ASSUME ~mixed' PROVE AnswersStand'
  <2> SUFFICES ASSUME NEW e \in Sent', WasMade(e), \A f \in Sent' : f.answer # None /\ f.id = e.id => f = e
               PROVE  e.answer = accounts'[e.id]
      BY DEF AnswersStand, WasMade
  <2>1. CASE e = d
      BY <1>5, <1>6, <1>7, <2>1
  <2>2. CASE e # d
    <3>1. e \in Sent /\ e # c /\ e.id \in Ids
        BY <1>4, <1>10, <2>2
    <3>2. e.id # c.id
        BY <1>3, <1>4, <1>5, <2>2
    <3>3. \A f \in Sent : f.answer # None /\ f.id = e.id => f = e
        BY <1>4, <3>2
    <3>4. e.answer = accounts[e.id]
        BY <1>8, <1>13, <3>1, <3>3 DEF UsersInv, AnswersStand
    <3> QED
        BY <1>7, <3>1, <3>2, <3>4
  <2> QED
      BY <2>1, <2>2
<1>14. ASSUME NEW id \in Ids \ missed', \A e \in Sent' : WasMade(e) => e.id # id
       PROVE  id \notin missed /\ (\A e \in Sent : WasMade(e) => e.id # id) /\ accounts'[id] = accounts[id]
    BY <1>4, <1>5, <1>6, <1>7, <1>14
<1>15. ASSUME ~mixed' PROVE (users # None => FreshTable(users))' /\ (load \in Table => FreshTable(load))'
    BY <1>8, <1>14, <1>15 DEF UsersInv, FreshTable, Exists, WasMade
<1> QED
    BY <1>9, <1>11, <1>12, <1>13, <1>15 DEF UsersInv

(* The table with the answer of one call is a table.                       *)
LEMMA WithUserIs ==
    ASSUME UsersInv, NEW c \in Sent, WasMade(c), users # None \/ c.kind = "create"
    PROVE  /\ WithUser(c) \in Table
           /\ users = None => DOMAIN WithUser(c) = {c.id}
           /\ users # None =>
                 /\ DOMAIN WithUser(c) = IF c.kind = "create" THEN DOMAIN users \cup {c.id} ELSE DOMAIN users
                 /\ \A id \in DOMAIN users : id # c.id => WithUser(c)[id] = users[id]
           /\ c.id \in DOMAIN WithUser(c) => WithUser(c)[c.id] = c.answer
<1> DEFINE t == WithUser(c)
<1>1. c \in UserCalls /\ c.id \in Ids /\ c.answer \in User
    BY UserFields DEF Sent, UsersInv, UsersTypes, WasMade
<1>2. CASE users = None
  <2>1. t = [i \in {c.id} |-> c.answer]
      BY <1>2 DEF WithUser
  <2>2. t \in [{c.id} -> User] /\ DOMAIN t = {c.id}
      BY <1>1, <2>1
  <2>3. t \in Table
      BY <1>1, <2>2, TableIs
  <2> QED
      BY <1>2, <2>1, <2>2, <2>3
<1>3. CASE users # None
  <2> DEFINE D == IF c.kind = "create" THEN DOMAIN users \cup {c.id} ELSE DOMAIN users
  <2>1. users \in Table /\ DOMAIN users \subseteq Ids /\ \A id \in DOMAIN users : users[id] \in User
      BY <1>3, TableIs DEF UsersInv, UsersTypes
  <2>2. t = [i \in D |-> IF i = c.id THEN c.answer ELSE users[i]]
    <3>1. CASE c.kind = "create"
        BY <1>3, <3>1 DEF WithUser
    <3>2. CASE c.kind # "create"
        BY <1>3, <3>2 DEF WithUser
    <3> QED
        BY <3>1, <3>2
  <2>3. \A id \in D : (IF id = c.id THEN c.answer ELSE users[id]) \in User
      BY <1>1, <2>1
  <2>4. D \subseteq Ids
      BY <1>1, <2>1
  <2> HIDE DEF D
  <2>5. DOMAIN t = D /\ t \in [D -> User]
      BY <2>2, <2>3
  <2> HIDE DEF t
  <2>6. t \in Table
      BY <2>4, <2>5, TableIs
  <2>7. \A id \in D : t[id] = IF id = c.id THEN c.answer ELSE users[id]
      BY <2>2
  <2>8. \A id \in DOMAIN users : id \in D
      BY DEF D
  <2> QED
      BY <1>3, <2>5, <2>6, <2>7, <2>8 DEF D, t
<1> QED
    BY <1>2, <1>3

(* The page hears of a call.  When no other answer about this user is in   *)
(* flight, it is what the server has.                                      *)
LEMMA HearRequestKeepsInv == ASSUME UsersInv, NEW i \in DOMAIN requests, HearRequest(i) PROVE UsersInv'
<1> DEFINE c == requests[i]
<1>1. /\ c.answer # None /\ requests' = RemoveAt(requests, i) /\ underWay' = underWay \ {c.kind}
      /\ UNCHANGED <<load, draft, accounts>>
    BY DEF HearRequest
<1>2. /\ c.answer = Refused => UNCHANGED <<users, editingRole, dialog, target, missed>>
      /\ c.answer # Refused =>
            /\ users' = WithUser(c) /\ missed' = missed \ {c.id}
            /\ editingRole' = IF c.kind = "role" THEN None ELSE editingRole
            /\ dialog' = IF c.kind = "role" THEN dialog ELSE "none"
            /\ target' = IF c.kind = "status" THEN None ELSE target
    BY DEF HearRequest
<1>3. mixed' = \/ mixed
               \/ c.kind = "create" /\ users = None
               \/ \E j \in DOMAIN requests \ {i} : requests[j].id = c.id /\ requests[j].answer # None
    BY DEF HearRequest
<1>4. /\ requests' \in Seq(UserCalls) /\ KindsApart' /\ underWay' = {d.kind : d \in Sent'}
      /\ Sent' = Sent \ {c}
    BY <1>1, RequestHeard DEF UsersInv
<1>5. c \in Sent /\ c \in UserCalls /\ c.id \in Ids /\ c.kind \in {"create", "role", "status"} /\ c.kind \in underWay
    BY UserFields DEF Sent, UsersInv, UsersTypes
<1>6. mixed' \in BOOLEAN /\ missed' \subseteq Ids
    BY <1>2, <1>3 DEF UsersInv, UsersTypes
<1>7. ASSUME ~mixed'
      PROVE  /\ ~mixed /\ (c.kind = "create" => users # None)
             /\ \A d \in Sent : d.answer # None /\ d.id = c.id => d = c
    BY <1>3, <1>7 DEF Sent
<1>8. WasMade(c) <=> c.answer # Refused
    BY <1>1 DEF WasMade
<1> HIDE DEF c
<1>9. /\ c.answer # Refused /\ users' # None => users # None \/ c.kind = "create"
      /\ c.answer # Refused /\ users = None /\ c.kind # "create" => users' = None
  <2>1. c.answer # Refused /\ users = None /\ c.kind # "create" => users' = None
      BY <1>2 DEF WithUser
  <2> QED
      BY <2>1
<1>10. users' \in Table \cup {None} /\ (users' # None => \A id \in DOMAIN users' : Exists(id))
  <2>1. CASE c.answer = Refused
      BY <1>2, <2>1 DEF UsersInv, UsersTypes, OnlyExisting
  <2>2. CASE c.answer # Refused /\ (users # None \/ c.kind = "create")
    <3>1. Exists(c.id) /\ (users # None => \A id \in DOMAIN users : Exists(id))
        BY <1>5, <1>8, <2>2 DEF UsersInv, OnlyExisting
    <3> QED
        BY <1>2, <1>5, <1>8, <2>2, <3>1, WithUserIs
  <2> QED
      BY <1>9, <2>1, <2>2
<1>11. (target' # None) = (dialog' = "status") /\ dialog' \in {"none", "create", "status"}
       /\ (target' # None => target' = target) /\ editingRole' \in Ids \cup {None}
       /\ \A k \in {"create", "status"} : k \in underWay' => dialog' = k
  <2>1. CASE c.answer = Refused
      BY <1>1, <1>2, <2>1 DEF UsersInv, UsersTypes
  <2>2. CASE c.answer # Refused /\ c.kind = "role"
      BY <1>1, <1>2, <2>2 DEF UsersInv, UsersTypes
  <2>3. CASE c.answer # Refused /\ c.kind = "create"
      BY <1>1, <1>2, <1>5, <2>3 DEF UsersInv, UsersTypes
  <2>4. CASE c.answer # Refused /\ c.kind = "status"
      BY <1>1, <1>2, <1>5, <2>4 DEF UsersInv, UsersTypes
  <2> QED
      BY <1>5, <2>1, <2>2, <2>3, <2>4
<1>12. UsersTypes'
    BY <1>1, <1>4, <1>6, <1>10, <1>11 DEF UsersInv, UsersTypes
<1>13. OnlyExisting'
    BY <1>1, <1>4, <1>10, <1>11 DEF UsersInv, OnlyExisting, Exists, WasMade
<1>14. ASSUME ~mixed', WasMade(c)
       PROVE  /\ users # None /\ users \in Table /\ c.answer = accounts[c.id] /\ Exists(c.id)
              /\ c.id \in DOMAIN users' /\ users'[c.id] = c.answer
              /\ \A id \in Ids : id # c.id =>
                    /\ id \in DOMAIN users' <=> id \in DOMAIN users
                    /\ id \in DOMAIN users' => users'[id] = users[id]
  <2>1. c.kind # "create" => InTable(c.id)
      BY <1>5, <1>7, <1>14 DEF UsersInv, ChangesAreListed
  <2>2. users # None /\ users \in Table
      BY <1>7, <1>14, <2>1 DEF InTable, UsersInv, UsersTypes
  <2>3. c.answer = accounts[c.id] /\ Exists(c.id)
      BY <1>5, <1>7, <1>14 DEF UsersInv, AnswersStand, OnlyExisting
  <2>4. users' = WithUser(c)
      BY <1>2, <1>8, <1>14
  <2>5. /\ DOMAIN users' = IF c.kind = "create" THEN DOMAIN users \cup {c.id} ELSE DOMAIN users
        /\ \A id \in DOMAIN users : id # c.id => users'[id] = users[id]
        /\ c.id \in DOMAIN users' => users'[c.id] = c.answer
      BY <1>5, <1>14, <2>2, <2>4, WithUserIs
  <2>6. c.id \in DOMAIN users'
      BY <2>1, <2>5 DEF InTable
  <2> QED
      BY <2>2, <2>3, <2>5, <2>6
<1>15. ASSUME ~mixed', ~WasMade(c) PROVE UNCHANGED <<users, dialog, target, missed>>
    BY <1>2, <1>8, <1>15
<1>16. ASSUME ~mixed' PROVE ChangesAreListed'
  <2>1. ChangesAreListed
      BY <1>7, <1>16 DEF UsersInv
  <2>2. \A id \in Ids : InTable(id) => users' # None /\ id \in DOMAIN users'
    <3>1. CASE WasMade(c)
      <4>1. users' # None
          BY <1>2, <1>5, <1>8, <1>14, <1>16, <3>1, WithUserIs, TablesAreNoMarks
      <4> QED
          BY <1>14, <1>16, <3>1, <4>1 DEF InTable
    <3>2. CASE ~WasMade(c)
        BY <1>15, <1>16, <3>2 DEF InTable
    <3> QED
        BY <3>1, <3>2
  <2>3. load' # Gone => users' = None
    <3>1. CASE WasMade(c)
        BY <1>1, <1>14, <1>16, <2>1, <3>1 DEF ChangesAreListed
    <3>2. CASE ~WasMade(c)
        BY <1>1, <1>15, <1>16, <2>1, <3>2 DEF ChangesAreListed
    <3> QED
        BY <3>1, <3>2
  <2>4. /\ target # None => target.id \in Ids
        /\ \A d \in Sent : d.id \in Ids
      BY UserFields DEF UsersInv, UsersTypes, Sent
  <2> QED
      BY <1>4, <1>11, <2>1, <2>2, <2>3, <2>4 DEF ChangesAreListed, InTable
<1>17. ASSUME ~mixed' PROVE AnswersStand'
  <2> SUFFICES ASSUME NEW e \in Sent', WasMade(e), \A f \in Sent' : f.answer # None /\ f.id = e.id => f = e
               PROVE  e.answer = accounts'[e.id]
      BY DEF AnswersStand, WasMade
  <2>1. e \in Sent /\ e # c /\ e.id # c.id
      BY <1>4, <1>7, <1>17 DEF WasMade
  <2>2. \A f \in Sent : f.answer # None /\ f.id = e.id => f = e
      BY <1>4, <2>1
  <2> QED
      BY <1>1, <1>7, <1>17, <2>1, <2>2 DEF UsersInv, AnswersStand
<1>18. ASSUME ~mixed', users' # None PROVE FreshTable(users)'
  <2> SUFFICES ASSUME NEW id \in Ids \ missed', \A e \in Sent' : WasMade(e) => e.id # id
               PROVE  (id \in DOMAIN users' <=> Exists(id)) /\ (id \in DOMAIN users' => users'[id] = accounts[id])
      BY <1>1 DEF FreshTable, Exists, WasMade
  <2>1. CASE WasMade(c) /\ id = c.id
      BY <1>14, <1>18, <2>1
  <2>2. CASE ~(WasMade(c) /\ id = c.id)
    <3>1. (\A e \in Sent : WasMade(e) => e.id # id) /\ id \notin missed
        BY <1>2, <1>4, <1>8, <2>2
    <3>2. users # None
        BY <1>14, <1>15, <1>18
    <3>3. (id \in DOMAIN users <=> Exists(id)) /\ (id \in DOMAIN users => users[id] = accounts[id])
        BY <1>7, <1>18, <3>1, <3>2 DEF UsersInv, FreshTable
    <3> QED
        BY <1>14, <1>15, <1>18, <2>2, <3>3
  <2> QED
      BY <2>1, <2>2
<1>19. ASSUME ~mixed', load' \in Table PROVE FreshTable(load)'
  <2>1. users = None /\ load # Gone
      BY <1>1, <1>7, <1>19, TablesAreNoMarks DEF UsersInv, ChangesAreListed
  <2>2. ~WasMade(c)
      BY <1>14, <1>19, <2>1
  <2>3. missed' = missed
      BY <1>2, <1>8, <2>2
  <2> SUFFICES ASSUME NEW id \in Ids \ missed, \A e \in Sent' : WasMade(e) => e.id # id
               PROVE  (id \in DOMAIN load <=> Exists(id)) /\ (id \in DOMAIN load => load[id] = accounts[id])
      BY <1>1, <2>3 DEF FreshTable, Exists, WasMade
  <2>4. \A e \in Sent : WasMade(e) => e.id # id
      BY <1>4, <2>2
  <2> QED
      BY <1>1, <1>7, <1>19, <2>4 DEF UsersInv, FreshTable
<1> QED
    BY <1>12, <1>13, <1>16, <1>17, <1>18, <1>19 DEF UsersInv

LEMMA UsersStep == ASSUME UsersInv, [UsersNext]_usersVars PROVE UsersInv'
<1>1. CASE UNCHANGED usersVars
  <2>1. UNCHANGED <<users, load, accounts, requests, underWay, missed, mixed, dialog, editingRole, draft, target>>
      BY <1>1 DEF usersVars
  <2> QED
      BY <2>1, DialogKeepsInv DEF UsersInv, UsersTypes
<1>2. CASE UsersNext
    BY <1>2, ReadUsersKeepsInv, ShowUsersKeepsInv, TryAgainKeepsInv, EditRoleKeepsInv, OpenStatusKeepsInv,
       PickRoleKeepsInv, CancelRoleKeepsInv, SaveRoleKeepsInv, ConfirmStatusKeepsInv, OpenCreateKeepsInv,
       CloseDialogKeepsInv, CreateUserKeepsInv, AnswerRequestKeepsInv, HearRequestKeepsInv
    DEF UsersNext
<1> QED
    BY <1>1, <1>2

LEMMA UsersInvariance == UsersSpec => []UsersInv
<1>1. UsersInit => UsersInv
    BY UsersInitially
<1>2. UsersInv /\ [UsersNext]_usersVars => UsersInv'
    BY UsersStep
<1> QED
    BY <1>1, <1>2, PTL DEF UsersSpec

(* The table holds users, a dialog has the user it is about, and each kind *)
(* of change is in flight once at most: roleBusy, statusBusy and the busy  *)
(* of CreateUserModal in users/page.tsx are what says so.                  *)
THEOREM UsersTypeCorrect == UsersSpec => []UsersTypeOK
<1>1. UsersInv => UsersTypeOK
  <2> SUFFICES ASSUME UsersInv PROVE UsersTypeOK
      OBVIOUS
  <2>1. requests \in Seq(UserCalls) /\ \A j \in DOMAIN requests : requests[j].kind \in {"create", "role", "status"}
      BY UserFields DEF UsersInv, UsersTypes
  <2>2. Len(requests) <= 3
    <3>1. Len(requests) \in Nat /\ DOMAIN requests = 1..Len(requests)
        BY <2>1
    <3>2. ASSUME Len(requests) > 3 PROVE FALSE
      <4>1. {1, 2, 3, 4} \subseteq DOMAIN requests
          BY <3>1, <3>2
      <4> QED
          BY <2>1, <4>1 DEF UsersInv, UsersTypes, KindsApart
    <3> QED
        BY <3>1, <3>2
  <2>3. {requests[j].kind : j \in DOMAIN requests} = {c.kind : c \in Sent}
      BY DEF Sent
  <2> QED
      BY <2>2, <2>3, TableIs DEF UsersInv, UsersTypes, UsersTypeOK
<1> QED
    BY <1>1, UsersInvariance, PTL

(* A table nothing is awaited for shows the users as they are, but for     *)
(* those changed without an answer that no later answer or table shows:    *)
(* replaceUser and onCreated of users/page.tsx lose nothing, unless two    *)
(* answers about one user crossed or a user was created before the table   *)
(* came.                                                                   *)
THEOREM SettledTables == UsersSpec => []SettledTableIsCurrent
<1>1. UsersInv => SettledTableIsCurrent
  <2> SUFFICES ASSUME UsersInv, users # None, load = Gone, requests = <<>>, ~mixed, NEW id \in Ids \ missed
               PROVE  IF InTable(id) THEN users[id] = accounts[id] ELSE accounts[id] = Gone
      BY DEF SettledTableIsCurrent
  <2>1. Sent = {}
      BY DEF Sent
  <2>2. (id \in DOMAIN users <=> Exists(id)) /\ (id \in DOMAIN users => users[id] = accounts[id])
      BY <2>1 DEF UsersInv, FreshTable
  <2> QED
      BY <2>2 DEF InTable, Exists
<1> QED
    BY <1>1, UsersInvariance, PTL
-------------------------------------------------------------------------------
(* The panel.                                                              *)
Read == [holder : Holders, chain : Chains \ {<<>>}]

Questions == [doc : Read \cup {None, Failed}, first : BOOLEAN]

DmsTypes ==
    /\ lock \in Holders /\ holder \in Holders
    /\ secret \in BOOLEAN /\ confidential \in BOOLEAN
    /\ trouble \in BOOLEAN /\ unheard \in BOOLEAN /\ leftover \in BOOLEAN
    /\ file \in Files \cup {None} /\ field \in Files \cup {None, Gone}
    /\ field = Gone <=> lock # Me
    /\ chain \in Chains \ {<<>>} /\ Len(chain) <= MaxVersions
    /\ versions \in Chains
    /\ asked \in Seq(Questions)
    /\ metaAsked \in Seq(BOOLEAN \cup {None, Failed})
    /\ call # None =>
          /\ call \in Calls
          /\ call.act = "checkin" => call.file # None

(* The question after a call is the last one, and the call waits for it.   *)
QuestionEndsCall ==
    \A i \in DOMAIN asked : ~asked[i].first => i = Len(asked) /\ call # None /\ call.step = "reload"

(* What the panel will know of lock and versions, and of confidentiality,  *)
(* when the last question in flight is answered.                           *)
LockWillBeKnown ==
    \/ call # None /\ call.step = "made"
    \/ asked # <<>> /\ asked[Len(asked)].doc \in {None, Failed, Document}
    \/ asked = <<>> /\ lock = holder /\ versions = Tail(chain)

SecretWillBeKnown ==
    \/ call # None /\ call.step \in {"made", "reload"}
    \/ metaAsked # <<>> /\ metaAsked[Len(metaAsked)] \in {None, Failed, confidential}
    \/ metaAsked = <<>> /\ secret = confidential

(* The file the panel remembers is the one the field shows.                *)
FileIsShown == ~leftover /\ file # None => file = field

DmsInv ==
    /\ DmsTypes /\ QuestionEndsCall /\ FileIsShown
    /\ ~trouble /\ ~unheard => LockWillBeKnown /\ SecretWillBeKnown

LEMMA DocumentIsRead == ASSUME DmsTypes PROVE Document \in Read /\ {None, Failed} \cap Read = {}
<1>1. Document \in Read
    BY DEF DmsTypes, Document, Read
<1>2. \A r \in Read : r \in [holder : Holders, chain : Chains]
    BY DEF Read
<1> QED
    BY <1>1, <1>2, PanelAssumption

LEMMA QuestionFields ==
    ASSUME NEW q \in Questions, NEW d \in Read \cup {None, Failed}
    PROVE  /\ q.doc \in Read \cup {None, Failed} /\ q.first \in BOOLEAN
           /\ [q EXCEPT !.doc = d] \in Questions
           /\ [q EXCEPT !.doc = d].doc = d /\ [q EXCEPT !.doc = d].first = q.first
BY DEF Questions

LEMMA PanelInitially == DmsInit => DmsInv
<1> SUFFICES ASSUME DmsInit PROVE DmsInv
    OBVIOUS
<1> DEFINE q == [doc |-> None, first |-> TRUE]
<1>1. q \in Questions /\ q.doc = None /\ q.first = TRUE
    BY DEF Questions
<1> HIDE DEF q
<1>2. asked = <<q>>
    BY DEF DmsInit, q
<1>3. asked \in Seq(Questions) /\ Len(asked) = 1 /\ asked[1] = q
    BY <1>1, <1>2
<1>4. chain \in Chains \ {<<>>} /\ Len(chain) <= MaxVersions /\ versions \in Chains
    BY PanelAssumption DEF DmsInit, Chains
<1>5. DmsTypes
  <2>1. /\ lock \in Holders /\ holder \in Holders
        /\ secret \in BOOLEAN /\ confidential \in BOOLEAN
        /\ trouble \in BOOLEAN /\ unheard \in BOOLEAN /\ leftover \in BOOLEAN
      BY DEF DmsInit, Holders
  <2>2. /\ file \in Files \cup {None} /\ field \in Files \cup {None, Gone}
        /\ (field = Gone) <=> (lock # Me)
        /\ call = None
      BY PanelAssumption DEF DmsInit
  <2>3. metaAsked \in Seq(BOOLEAN \cup {None, Failed})
      BY DEF DmsInit
  <2> QED
      BY <1>3, <1>4, <2>1, <2>2, <2>3 DEF DmsTypes
<1>6. QuestionEndsCall
    BY <1>1, <1>3 DEF QuestionEndsCall
<1>7. LockWillBeKnown /\ SecretWillBeKnown
    BY <1>1, <1>3 DEF DmsInit, LockWillBeKnown, SecretWillBeKnown
<1> QED
    BY <1>5, <1>6, <1>7 DEF DmsInit, DmsInv, FileIsShown

(* While a call is on its way, or none is, no question waits for its end.  *)
LEMMA NoLastQuestion ==
    ASSUME DmsInv, call = None \/ call.step # "reload"
    PROVE  \A i \in DOMAIN asked : asked[i].first
BY DEF DmsInv, DmsTypes, QuestionEndsCall, Questions

LEMMA RunKeepsInv == ASSUME DmsInv, NEW act \in Acts, Run(act) PROVE DmsInv'
<1> DEFINE c == [act |-> act, step |-> "asked",
                 file |-> IF act = "checkin" THEN file ELSE None,
                 shown |-> IF act = "checkin" THEN field ELSE None]
<1>1. /\ c \in Calls /\ c.step = "asked" /\ (c.act = "checkin" => c.file # None)
    BY DEF Run, Offers, DmsInv, DmsTypes, Calls
<1>2. call' = c /\ call = None
    BY DEF Run
<1>3. UNCHANGED <<lock, versions, secret, file, field, asked, metaAsked, holder, chain, confidential, trouble, unheard, leftover>>
    BY DEF Run
<1> HIDE DEF c
<1>4. DmsTypes'
    BY <1>1, <1>2, <1>3 DEF DmsInv, DmsTypes
<1>5. QuestionEndsCall'
    BY <1>2, <1>3, NoLastQuestion DEF QuestionEndsCall
<1>6. FileIsShown'
    BY <1>3 DEF DmsInv, FileIsShown
<1>7. ASSUME ~trouble', ~unheard' PROVE LockWillBeKnown' /\ SecretWillBeKnown'
    BY <1>2, <1>3, <1>7 DEF DmsInv, LockWillBeKnown, SecretWillBeKnown, Document
<1> QED
    BY <1>4, <1>5, <1>6, <1>7 DEF DmsInv

LEMMA PickFileKeepsInv == ASSUME DmsInv, NEW f \in Files, PickFile(f) PROVE DmsInv'
<1>1. UNCHANGED <<lock, versions, secret, call, asked, metaAsked, holder, chain, confidential, trouble, unheard>>
      /\ file' = f /\ field' = f /\ field # Gone
    BY DEF PickFile
<1>2. leftover' \in BOOLEAN
    BY DEF PickFile
<1>3. f # Gone
    BY PanelAssumption
<1>4. DmsTypes'
    BY <1>1, <1>2, <1>3 DEF DmsInv, DmsTypes
<1>5. QuestionEndsCall' /\ FileIsShown'
    BY <1>1 DEF DmsInv, QuestionEndsCall, FileIsShown
<1>6. ASSUME ~trouble', ~unheard' PROVE LockWillBeKnown' /\ SecretWillBeKnown'
    BY <1>1, <1>6 DEF DmsInv, LockWillBeKnown, SecretWillBeKnown, Document
<1> QED
    BY <1>4, <1>5, <1>6 DEF DmsInv

LEMMA ServeCallKeepsInv == ASSUME DmsInv, ServeCall PROVE DmsInv'
<1>1. UNCHANGED <<lock, versions, secret, file, field, asked, metaAsked, trouble, leftover>>
      /\ call # None /\ call.step = "asked" /\ call \in Calls
    BY DEF ServeCall, DmsInv, DmsTypes
<1>2. PICK x \in {"made", Refused} :
          /\ call' = [call EXCEPT !.step = x]
          /\ (x # "made" => UNCHANGED <<holder, chain, confidential, unheard>> \/ unheard' = TRUE)
          /\ (x = "made" => unheard' = unheard)
    BY PanelAssumption DEF ServeCall
<1>3. call' \in Calls /\ call'.step = x /\ call'.act = call.act /\ call'.file = call.file
    BY <1>1, <1>2 DEF Calls
<1>4. call' # None
    BY <1>3, PanelAssumption
<1>5. holder' \in Holders /\ confidential' \in BOOLEAN /\ unheard' \in BOOLEAN
    BY <1>2 DEF ServeCall, DmsInv, DmsTypes, Holders
<1>6. chain' \in Chains \ {<<>>} /\ Len(chain') <= MaxVersions
  <2>1. CASE UNCHANGED chain
      BY <2>1 DEF DmsInv, DmsTypes
  <2>2. CASE chain' = Append(chain, call.file) /\ call.act = "checkin" /\ Allows(call.act)
    <3>1. call.file \in Files /\ Len(chain) < MaxVersions
        BY <1>1, <2>2 DEF DmsInv, DmsTypes, Calls, Allows
    <3>2. chain \in Seq(Files \cup {Original}) /\ call.file \in Files \cup {Original}
        BY <3>1 DEF DmsInv, DmsTypes, Chains
    <3>3. Append(chain, call.file) \in Seq(Files \cup {Original}) /\ Len(Append(chain, call.file)) = Len(chain) + 1
        BY <3>2
    <3> QED
        BY <2>2, <3>1, <3>2, <3>3, PanelAssumption DEF Chains
  <2> QED
      BY <2>1, <2>2 DEF ServeCall
<1>7. DmsTypes'
    BY <1>1, <1>3, <1>5, <1>6 DEF DmsInv, DmsTypes
<1>8. QuestionEndsCall'
    BY <1>1, NoLastQuestion DEF QuestionEndsCall
<1>9. FileIsShown'
    BY <1>1 DEF DmsInv, FileIsShown
<1>10. ASSUME ~trouble', ~unheard' PROVE LockWillBeKnown' /\ SecretWillBeKnown'
  <2>1. CASE x = "made"
      BY <1>3, <1>4, <2>1 DEF LockWillBeKnown, SecretWillBeKnown
  <2>2. CASE x # "made"
      BY <1>1, <1>2, <1>10, <2>2 DEF DmsInv, LockWillBeKnown, SecretWillBeKnown, Document
  <2> QED
      BY <2>1, <2>2
<1> QED
    BY <1>7, <1>8, <1>9, <1>10 DEF DmsInv

LEMMA HearRefusalKeepsInv == ASSUME DmsInv, HearRefusal PROVE DmsInv'
<1>1. UNCHANGED <<lock, versions, secret, field, asked, metaAsked, holder, chain, confidential, trouble, unheard>>
      /\ call' = None /\ call.step # "made" /\ call.step # "reload"
    BY PanelAssumption DEF HearRefusal
<1>2. leftover' \in BOOLEAN /\ (file' = None \/ (file' = file /\ leftover' = leftover))
    BY DEF HearRefusal, Forget, DmsInv, DmsTypes
<1>3. DmsTypes'
    BY <1>1, <1>2 DEF DmsInv, DmsTypes
<1>4. QuestionEndsCall'
    BY <1>1, NoLastQuestion DEF QuestionEndsCall
<1>5. FileIsShown'
    BY <1>1, <1>2 DEF DmsInv, FileIsShown
<1>6. ASSUME ~trouble', ~unheard' PROVE LockWillBeKnown' /\ SecretWillBeKnown'
    BY <1>1, <1>6 DEF DmsInv, LockWillBeKnown, SecretWillBeKnown, Document
<1> QED
    BY <1>3, <1>4, <1>5, <1>6 DEF DmsInv

LEMMA HearMadeKeepsInv == ASSUME DmsInv, HearMade PROVE DmsInv'
<1> DEFINE q == [doc |-> None, first |-> FALSE]
<1>1. q \in Questions /\ q.doc = None
    BY DEF Questions
<1>2. UNCHANGED <<lock, versions, secret, file, field, metaAsked, holder, chain, confidential, trouble, leftover>>
      /\ call # None /\ call.step = "made" /\ call' = [call EXCEPT !.step = "reload"]
      /\ asked' = Append(asked, q) /\ unheard' = FALSE
    BY DEF HearMade
<1> HIDE DEF q
<1>3. /\ asked' \in Seq(Questions) /\ Len(asked') = Len(asked) + 1
      /\ DOMAIN asked' = DOMAIN asked \cup {Len(asked) + 1}
      /\ \A k \in DOMAIN asked : asked'[k] = asked[k]
      /\ asked'[Len(asked) + 1] = q
    BY <1>1, <1>2, Extension DEF DmsInv, DmsTypes
<1>4. call' \in Calls /\ call'.step = "reload" /\ call'.act = call.act /\ call'.file = call.file
    BY <1>2 DEF DmsInv, DmsTypes, Calls
<1>5. call' # None
    BY <1>4, PanelAssumption
<1>6. DmsTypes'
    BY <1>2, <1>3, <1>4 DEF DmsInv, DmsTypes
<1>7. QuestionEndsCall'
  <2>1. \A k \in DOMAIN asked : asked[k].first
      BY <1>2, NoLastQuestion
  <2> QED
      BY <1>3, <1>4, <1>5, <2>1 DEF QuestionEndsCall
<1>8. FileIsShown'
    BY <1>2 DEF DmsInv, FileIsShown
<1>9. asked' # <<>> /\ asked'[Len(asked')].doc = None
    BY <1>1, <1>3 DEF DmsInv, DmsTypes
<1>10. LockWillBeKnown' /\ SecretWillBeKnown'
    BY <1>4, <1>5, <1>9 DEF LockWillBeKnown, SecretWillBeKnown
<1> QED
    BY <1>6, <1>7, <1>8, <1>10 DEF DmsInv

LEMMA ReadDocumentKeepsInv == ASSUME DmsInv, NEW i \in DOMAIN asked, ReadDocument(i) PROVE DmsInv'
<1>1. PICK a \in {Document, Failed} : asked' = [asked EXCEPT ![i].doc = a]
    BY DEF ReadDocument
<1> DEFINE q == [asked[i] EXCEPT !.doc = a]
<1>2. asked \in Seq(Questions) /\ i \in 1..Len(asked) /\ asked[i] \in Questions /\ a \in Read \cup {None, Failed}
    BY DocumentIsRead DEF DmsInv, DmsTypes
<1>3. q \in Questions /\ q.doc = a /\ q.first = asked[i].first
    BY <1>2, QuestionFields
<1>4. asked' = [asked EXCEPT ![i] = q]
    BY <1>1, <1>2
<1> HIDE DEF q
<1>5. /\ asked' \in Seq(Questions) /\ Len(asked') = Len(asked)
      /\ \A k \in 1..Len(asked) : asked'[k] = IF k = i THEN q ELSE asked[k]
    BY <1>2, <1>3, <1>4, Replacement
<1>6. UNCHANGED <<lock, versions, secret, file, field, call, metaAsked, holder, chain, confidential, trouble, unheard, leftover>>
    BY DEF ReadDocument
<1>7. DmsTypes'
    BY <1>5, <1>6 DEF DmsInv, DmsTypes
<1>8. QuestionEndsCall'
  <2>1. \A k \in DOMAIN asked' : k \in DOMAIN asked /\ asked'[k].first = asked[k].first
      BY <1>2, <1>3, <1>5
  <2> QED
      BY <1>5, <1>6, <2>1 DEF DmsInv, QuestionEndsCall
<1>9. FileIsShown'
    BY <1>6 DEF DmsInv, FileIsShown
<1>10. ASSUME ~trouble', ~unheard' PROVE LockWillBeKnown' /\ SecretWillBeKnown'
  <2>1. SecretWillBeKnown'
      BY <1>6, <1>10 DEF DmsInv, SecretWillBeKnown
  <2>2. LockWillBeKnown /\ Document' = Document
      BY <1>6, <1>10 DEF DmsInv, Document
  <2>3. asked' # <<>> /\ Len(asked) \in 1..Len(asked)
      BY <1>2, <1>5
  <2>4. asked'[Len(asked')] = IF Len(asked) = i THEN q ELSE asked[Len(asked)]
      BY <1>5, <2>3
  <2>5. LockWillBeKnown'
      BY <1>1, <1>2, <1>3, <1>6, <2>2, <2>3, <2>4 DEF LockWillBeKnown
  <2> QED
      BY <2>1, <2>5
<1> QED
    BY <1>7, <1>8, <1>9, <1>10 DEF DmsInv

(* The panel takes what was read.  The last question is the one whose      *)
(* answer stays.                                                           *)
LEMMA TakeDocumentKeepsInv == ASSUME DmsInv, NEW i \in DOMAIN asked, TakeDocument(i) PROVE DmsInv'
<1> DEFINE q == asked[i]
<1>1. /\ q \in Questions /\ q.doc \in Read \cup {Failed} /\ q.first \in BOOLEAN
      /\ asked \in Seq(Questions) /\ Len(asked) \in Nat /\ i \in 1..Len(asked)
  <2>1. q \in Questions /\ asked \in Seq(Questions) /\ Len(asked) \in Nat /\ i \in 1..Len(asked)
      BY DEF DmsInv, DmsTypes
  <2> QED
      BY <2>1, QuestionFields DEF TakeDocument
<1>2. /\ asked' = RemoveAt(asked, i)
      /\ UNCHANGED <<secret, holder, chain, confidential, unheard>>
      /\ q.doc = Failed => UNCHANGED <<lock, versions, field, leftover>>
      /\ q.doc # Failed => ShowLock(q.doc.holder) /\ versions' = Tail(q.doc.chain)
    BY DEF TakeDocument
<1>3. /\ q.first => UNCHANGED <<call, metaAsked, file>>
      /\ ~q.first => /\ metaAsked' = Append(metaAsked, None) /\ call' = None
                     /\ file' = IF call.act = "checkin" THEN None ELSE file
    BY DEF TakeDocument
<1>4. trouble' = (trouble \/ i > 1 \/ q.doc = Failed)
    BY DEF TakeDocument
<1>5. trouble' \in BOOLEAN
    BY <1>4
<1>6. ASSUME ~trouble' PROVE ~trouble /\ i = 1 /\ q.doc \in Read
  <2>1. ~(trouble \/ i > 1 \/ q.doc = Failed)
      BY <1>4, <1>6
  <2> QED
      BY <1>1, <2>1
<1>7. ~q.first => i = Len(asked) /\ call # None /\ call.step = "reload"
    BY DEF DmsInv, QuestionEndsCall
<1> HIDE DEF q
<1>8. /\ asked' \in Seq(Questions) /\ Len(asked') = Len(asked) - 1
      /\ \A k \in 1..Len(asked) - 1 : asked'[k] = IF k < i THEN asked[k] ELSE asked[k + 1]
    BY <1>1, <1>2, Removal
<1>9. /\ lock' \in Holders /\ versions' \in Chains /\ field' \in Files \cup {None, Gone}
      /\ (field' = Gone) <=> (lock' # Me)
      /\ leftover' \in BOOLEAN
  <2>1. CASE q.doc = Failed
      BY <1>2, <2>1 DEF DmsInv, DmsTypes
  <2>2. CASE q.doc # Failed
    <3>1. q.doc.holder \in Holders /\ q.doc.chain \in Chains /\ q.doc.chain # <<>>
        BY <1>1, <2>2 DEF Read
    <3>2. Tail(q.doc.chain) \in Chains
        BY <3>1 DEF Chains
    <3>3. leftover' \in BOOLEAN
        BY <1>2, <2>2 DEF ShowLock
    <3> QED
        BY <1>2, <2>2, <3>1, <3>2, <3>3, PanelAssumption, MarksAssumption DEF ShowLock, DmsInv, DmsTypes
  <2> QED
      BY <2>1, <2>2
<1>10. /\ metaAsked' \in Seq(BOOLEAN \cup {None, Failed})
       /\ file' \in {None, file}
    BY <1>1, <1>3 DEF DmsInv, DmsTypes
<1>11. call' # None => call' = call
    BY <1>1, <1>3
<1>12. DmsTypes'
    BY <1>2, <1>5, <1>8, <1>9, <1>10, <1>11 DEF DmsInv, DmsTypes
<1>13. QuestionEndsCall'
  <2> SUFFICES ASSUME NEW k \in DOMAIN asked', ~asked'[k].first
               PROVE  k = Len(asked') /\ call' # None /\ call'.step = "reload"
      BY DEF QuestionEndsCall
  <2>1. k \in 1..Len(asked) - 1
      BY <1>8
  <2>2. PICK o \in 1..Len(asked) : asked'[k] = asked[o] /\ o # i /\ (o = Len(asked) => k = Len(asked) - 1)
    <3>1. CASE k < i
        BY <1>1, <1>8, <2>1, <3>1
    <3>2. CASE ~(k < i)
      <4>1. k + 1 \in 1..Len(asked) /\ k + 1 # i /\ (k + 1 = Len(asked) => k = Len(asked) - 1)
          BY <1>1, <2>1, <3>2
      <4> QED
          BY <1>8, <2>1, <3>2, <4>1
    <3> QED
        BY <3>1, <3>2
  <2>3. o = Len(asked) /\ call # None /\ call.step = "reload"
      BY <1>1, <2>2 DEF DmsInv, QuestionEndsCall
  <2>4. q.first
      BY <1>7, <2>2, <2>3
  <2> QED
      BY <1>3, <1>8, <2>2, <2>3, <2>4
<1>14. FileIsShown'
  <2> SUFFICES ASSUME ~leftover', file' # None PROVE file' = field'
      BY DEF FileIsShown
  <2>1. file' = file
      BY <1>10
  <2>2. CASE q.doc = Failed
      BY <1>2, <2>1, <2>2 DEF DmsInv, FileIsShown
  <2>3. CASE q.doc # Failed
    <3>1. ~leftover /\ ~(q.doc.holder # Me /\ field # Gone /\ file # None)
        BY <1>2, <2>3 DEF ShowLock
    <3>2. file = field /\ field # Gone
        BY <2>1, <3>1, PanelAssumption DEF DmsInv, FileIsShown, DmsTypes
    <3> QED
        BY <1>2, <2>1, <2>3, <3>1, <3>2 DEF ShowLock
  <2> QED
      BY <2>2, <2>3
<1>15. ASSUME ~trouble', ~unheard' PROVE LockWillBeKnown'
  <2>1. LockWillBeKnown /\ Document' = Document
      BY <1>2, <1>6, <1>15 DEF DmsInv, Document
  <2>2. CASE call # None /\ call.step = "made"
    <3>1. q.first
        BY <1>1, <1>7, <2>2
    <3> QED
        BY <1>3, <2>2, <3>1 DEF LockWillBeKnown
  <2>3. CASE ~(call # None /\ call.step = "made")
    <3>1. asked # <<>> /\ asked[Len(asked)].doc \in {None, Failed, Document}
        BY <1>1, <2>1, <2>3 DEF LockWillBeKnown
    <3>2. CASE Len(asked) = 1
      <4>1. i = 1 /\ q = asked[1] /\ asked' = <<>>
          BY <1>1, <1>8, <3>2 DEF q
      <4>2. q.doc = Document
          BY <1>6, <1>15, <3>1, <3>2, <4>1, DocumentIsRead DEF DmsInv
      <4>3. q.doc # Failed /\ q.doc.holder = holder /\ q.doc.chain = chain
          BY <1>6, <1>15, <4>2, DocumentIsRead DEF DmsInv, Document
      <4>4. lock' = holder /\ versions' = Tail(chain)
          BY <1>2, <4>3 DEF ShowLock
      <4> QED
          BY <1>2, <4>1, <4>4 DEF LockWillBeKnown
    <3>3. CASE Len(asked) # 1
      <4>1. i # Len(asked)
          BY <1>6, <1>15, <3>3
      <4>2. RemoveAt(asked, i) # <<>> /\ RemoveAt(asked, i)[Len(RemoveAt(asked, i))] = asked[Len(asked)]
          BY <1>1, <4>1, Remaining
      <4>3. asked' # <<>> /\ asked'[Len(asked')] = asked[Len(asked)]
          BY <1>2, <4>2
      <4> QED
          BY <2>1, <3>1, <4>3 DEF LockWillBeKnown
    <3> QED
        BY <3>2, <3>3
  <2> QED
      BY <2>2, <2>3
<1>16. ASSUME ~trouble', ~unheard' PROVE SecretWillBeKnown'
  <2>1. CASE q.first
      BY <1>2, <1>3, <1>6, <1>16, <2>1 DEF DmsInv, SecretWillBeKnown
  <2>2. CASE ~q.first
    <3>1. metaAsked \in Seq(BOOLEAN \cup {None, Failed}) /\ metaAsked' = Append(metaAsked, None)
        BY <1>3, <2>2 DEF DmsInv, DmsTypes
    <3>2. metaAsked' # <<>> /\ metaAsked'[Len(metaAsked')] = None
        BY <3>1
    <3> QED
        BY <3>2 DEF SecretWillBeKnown
  <2> QED
      BY <1>1, <2>1, <2>2
<1> QED
    BY <1>12, <1>13, <1>14, <1>15, <1>16 DEF DmsInv

LEMMA ReadMetaKeepsInv == ASSUME DmsInv, NEW i \in DOMAIN metaAsked, ReadMeta(i) PROVE DmsInv'
<1>1. PICK a \in {confidential, Failed} : metaAsked' = [metaAsked EXCEPT ![i] = a]
    BY DEF ReadMeta
<1> DEFINE M == BOOLEAN \cup {None, Failed}
<1>2. metaAsked \in Seq(M) /\ i \in 1..Len(metaAsked) /\ a \in M
    BY <1>1 DEF DmsInv, DmsTypes
<1> HIDE DEF M
<1>3. /\ metaAsked' \in Seq(M) /\ Len(metaAsked') = Len(metaAsked)
      /\ \A k \in 1..Len(metaAsked) : metaAsked'[k] = IF k = i THEN a ELSE metaAsked[k]
    BY <1>1, <1>2, Replacement
<1>4. UNCHANGED <<lock, versions, secret, file, field, call, asked, holder, chain, confidential, trouble, unheard, leftover>>
    BY DEF ReadMeta
<1>5. DmsTypes'
    BY <1>3, <1>4 DEF DmsInv, DmsTypes, M
<1>6. QuestionEndsCall' /\ FileIsShown'
    BY <1>4 DEF DmsInv, QuestionEndsCall, FileIsShown
<1>7. ASSUME ~trouble', ~unheard' PROVE LockWillBeKnown' /\ SecretWillBeKnown'
  <2>1. LockWillBeKnown'
      BY <1>4, <1>7 DEF DmsInv, LockWillBeKnown, Document
  <2>2. metaAsked' # <<>> /\ metaAsked # <<>>
        /\ metaAsked'[Len(metaAsked')] = IF Len(metaAsked) = i THEN a ELSE metaAsked[Len(metaAsked)]
      BY <1>2, <1>3
  <2>3. SecretWillBeKnown
      BY <1>4, <1>7 DEF DmsInv
  <2>4. CASE call # None /\ call.step \in {"made", "reload"}
      BY <1>4, <2>1, <2>4 DEF SecretWillBeKnown
  <2>5. CASE metaAsked[Len(metaAsked)] \in {None, Failed, confidential}
      BY <1>1, <1>4, <2>1, <2>2, <2>5 DEF SecretWillBeKnown
  <2> QED
      BY <2>1, <2>2, <2>3, <2>4, <2>5 DEF SecretWillBeKnown
<1> QED
    BY <1>5, <1>6, <1>7 DEF DmsInv

LEMMA TakeMetaKeepsInv == ASSUME DmsInv, NEW i \in DOMAIN metaAsked, TakeMeta(i) PROVE DmsInv'
<1> DEFINE M == BOOLEAN \cup {None, Failed}
           m == metaAsked[i]
<1>1. /\ metaAsked \in Seq(M) /\ Len(metaAsked) \in Nat /\ i \in 1..Len(metaAsked) /\ m \in BOOLEAN \cup {Failed}
    BY DEF DmsInv, DmsTypes, TakeMeta
<1>2. /\ metaAsked' = RemoveAt(metaAsked, i) /\ secret' = IF m = Failed THEN secret ELSE m
      /\ UNCHANGED <<lock, versions, file, field, call, asked, holder, chain, confidential, unheard, leftover>>
    BY DEF TakeMeta
<1>3. trouble' = (trouble \/ i > 1 \/ m = Failed)
    BY DEF TakeMeta
<1>4. trouble' \in BOOLEAN
    BY <1>3
<1>5. ASSUME ~trouble' PROVE ~trouble /\ i = 1 /\ m # Failed
  <2>1. ~(trouble \/ i > 1 \/ m = Failed)
      BY <1>3, <1>5
  <2> QED
      BY <1>1, <2>1
<1> HIDE DEF M, m
<1>6. /\ metaAsked' \in Seq(M) /\ Len(metaAsked') = Len(metaAsked) - 1
      /\ \A k \in 1..Len(metaAsked) - 1 : metaAsked'[k] = IF k < i THEN metaAsked[k] ELSE metaAsked[k + 1]
    BY <1>1, <1>2, Removal
<1>7. secret' \in BOOLEAN
    BY <1>1, <1>2 DEF DmsInv, DmsTypes
<1>8. DmsTypes'
    BY <1>2, <1>4, <1>6, <1>7 DEF DmsInv, DmsTypes, M
<1>9. QuestionEndsCall' /\ FileIsShown'
    BY <1>2 DEF DmsInv, QuestionEndsCall, FileIsShown
<1>10. ASSUME ~trouble', ~unheard' PROVE LockWillBeKnown' /\ SecretWillBeKnown'
  <2>1. LockWillBeKnown' /\ SecretWillBeKnown
      BY <1>2, <1>5, <1>10 DEF DmsInv, LockWillBeKnown, Document
  <2>2. CASE call # None /\ call.step \in {"made", "reload"}
      BY <1>2, <2>1, <2>2 DEF SecretWillBeKnown
  <2>3. CASE metaAsked[Len(metaAsked)] \in {None, Failed, confidential}
    <3>1. CASE Len(metaAsked) = 1
      <4>1. i = 1 /\ m = metaAsked[1] /\ metaAsked' = <<>>
          BY <1>1, <1>6, <3>1 DEF m
      <4>2. m = confidential
          BY <1>1, <1>5, <1>10, <2>3, <3>1, <4>1, PanelAssumption
      <4>3. secret' = m
          BY <1>2, <1>5, <1>10
      <4>4. secret' = confidential'
          BY <1>2, <4>2, <4>3
      <4> QED
          BY <2>1, <4>1, <4>4 DEF SecretWillBeKnown
    <3>2. CASE Len(metaAsked) # 1
      <4>1. i # Len(metaAsked)
          BY <1>5, <1>10, <3>2
      <4>2. RemoveAt(metaAsked, i) # <<>> /\ RemoveAt(metaAsked, i)[Len(RemoveAt(metaAsked, i))] = metaAsked[Len(metaAsked)]
          BY <1>1, <4>1, Remaining
      <4>3. metaAsked' # <<>> /\ metaAsked'[Len(metaAsked')] = metaAsked[Len(metaAsked)]
          BY <1>2, <4>2
      <4> QED
          BY <1>2, <2>1, <2>3, <4>3 DEF SecretWillBeKnown
    <3> QED
        BY <3>1, <3>2
  <2> QED
      BY <1>1, <2>1, <2>2, <2>3 DEF SecretWillBeKnown
<1> QED
    BY <1>8, <1>9, <1>10 DEF DmsInv

LEMMA ActElsewhereKeepsInv == ASSUME DmsInv, ActElsewhere PROVE DmsInv'
<1>1. UNCHANGED <<lock, versions, secret, file, field, call, asked, metaAsked, chain, trouble, leftover>> /\ unheard' = TRUE
    BY DEF ActElsewhere
<1>2. holder' \in Holders /\ confidential' \in BOOLEAN
    BY DEF ActElsewhere, DmsInv, DmsTypes, Holders
<1>3. DmsTypes'
    BY <1>1, <1>2 DEF DmsInv, DmsTypes
<1> QED
    BY <1>1, <1>3 DEF DmsInv, QuestionEndsCall, FileIsShown

LEMMA PanelStep == ASSUME DmsInv, [DmsNext]_dmsVars PROVE DmsInv'
<1>1. CASE UNCHANGED dmsVars
    BY <1>1 DEF dmsVars, DmsInv, DmsTypes, QuestionEndsCall, LockWillBeKnown, SecretWillBeKnown, FileIsShown, Document
<1>2. CASE DmsNext
    BY <1>2, RunKeepsInv, PickFileKeepsInv, ServeCallKeepsInv, HearRefusalKeepsInv, HearMadeKeepsInv,
       ActElsewhereKeepsInv, ReadDocumentKeepsInv, TakeDocumentKeepsInv, ReadMetaKeepsInv, TakeMetaKeepsInv
    DEF DmsNext
<1> QED
    BY <1>1, <1>2

LEMMA PanelInvariance == DmsSpec => []DmsInv
<1>1. DmsInit => DmsInv
    BY PanelInitially
<1>2. DmsInv /\ [DmsNext]_dmsVars => DmsInv'
    BY PanelStep
<1> QED
    BY <1>1, <1>2, PTL DEF DmsSpec

(* The file field is on the page when the panel believes that the user     *)
(* holds the lock, and the chain of versions stays within its bound        *)
(* (DmsControls.tsx:98-110).                                               *)
THEOREM PanelTypeCorrect == DmsSpec => []DmsTypeOK
<1>1. DmsInv => DmsTypeOK
    BY DEF DmsInv, DmsTypes, DmsTypeOK, Holders, Chains
<1> QED
    BY <1>1, PanelInvariance, PTL

(* Once every question of the panel and of the page is answered in order,  *)
(* they show lock, versions and confidentiality as they are: run waits for *)
(* reload, and onMetaChange for both (DmsControls.tsx:62-96).  Unless the  *)
(* document changed without an answer for the panel since it asked last.   *)
THEOREM SettledPanels == DmsSpec => []SettledPanelIsCurrent
<1>1. DmsInv => SettledPanelIsCurrent
    BY DEF DmsInv, SettledPanelIsCurrent, DmsQuiet, LockWillBeKnown, SecretWillBeKnown
<1> QED
    BY <1>1, PanelInvariance, PTL

(* handleCheckin sends the file that the field shows, whatever else was    *)
(* picked, forgotten and hidden before (DmsControls.tsx:101-110).          *)
THEOREM ShownFilesAreCheckedIn == DmsSpec => ChecksInShownFile
<1>1. ASSUME DmsInv, [DmsNext]_dmsVars
      PROVE  call = None /\ call' # None /\ call'.act = "checkin" /\ ~leftover => call'.file = field
  <2> SUFFICES ASSUME call = None, call' # None, call'.act = "checkin", ~leftover PROVE call'.file = field
      OBVIOUS
  <2>1. DmsNext
      BY <1>1 DEF dmsVars
  <2>2. ~ServeCall /\ ~HearRefusal /\ ~HearMade /\ ~ActElsewhere
      BY DEF ServeCall, HearRefusal, HearMade, ActElsewhere
  <2>3. /\ \A f \in Files : ~PickFile(f)
        /\ \A i \in DOMAIN asked : ~ReadDocument(i) /\ ~TakeDocument(i)
        /\ \A i \in DOMAIN metaAsked : ~ReadMeta(i) /\ ~TakeMeta(i)
      BY DEF PickFile, ReadDocument, TakeDocument, ReadMeta, TakeMeta
  <2>4. PICK act \in Acts : Run(act)
      BY <2>1, <2>2, <2>3 DEF DmsNext
  <2>5. call'.act = act /\ call'.file = IF act = "checkin" THEN file ELSE None
      BY <2>4 DEF Run
  <2>6. file # None
      BY <2>4, <2>5 DEF Run, Offers
  <2> QED
      BY <1>1, <2>5, <2>6 DEF DmsInv, FileIsShown
<1> QED
    BY <1>1, PanelInvariance, PTL DEF DmsSpec, ChecksInShownFile
-------------------------------------------------------------------------------
(* The documents.  A row the page has, or is about to get, is of a document *)
(* that is there and at least as far.                                      *)
BehindRows == {r \in RowType : status[r.doc] \in Stages /\ r.status <= status[r.doc]}

Polls ==
    {p \in [left : Seq(BehindRows) \ {<<>>}, answer : Stages \cup {None}] :
        p.answer # None => p.answer <= status[p.left[1].doc]}

DocTypes ==
    /\ chosen \in Cases \cup {None}
    /\ docsLoading \in BOOLEAN /\ error \in BOOLEAN
    /\ status \in [Docs -> Stages \cup {Gone}]
    /\ strays \subseteq Docs /\ choices \in 0..MaxChoices

RowsAreBehind ==
    /\ docs \in Seq(BehindRows)
    /\ polls \in Seq(Polls)
    /\ question # None =>
          /\ question \in [case : Cases, answer : Seq(BehindRows) \cup {None, Failed}]
          /\ question.case = chosen /\ docsLoading
    /\ uploading # None =>
          /\ uploading \in [doc : Docs, made : BehindRows \cup {None, Refused}]
          /\ uploading.made = None => status[uploading.doc] = Gone
          /\ uploading.made \in BehindRows => uploading.made.doc = uploading.doc

(* The list that is awaited is of the case that was asked for.             *)
AnswerIsOfCase ==
    question # None /\ question.answer \notin {None, Failed} =>
        \A k \in DOMAIN question.answer : CaseOf[question.answer[k].doc] = question.case

DocInv == DocTypes /\ RowsAreBehind /\ AnswerIsOfCase /\ ListIsOfChosenCase

(* A sequence of a finite set's elements.                                  *)
LEMMA Enumeration ==
    ASSUME NEW S, IsFiniteSet(S)
    PROVE  Cardinality(S) \in Nat /\ SetToSeq(S) \in [1..Cardinality(S) -> S]
<1>1. Cardinality(S) \in Nat /\ ExistsBijection(1..Cardinality(S), S)
    BY FS_CardinalityType
<1>2. \E f \in [1..Cardinality(S) -> S] : IsInjective(f)
    BY <1>1 DEF ExistsBijection, Bijection, Injection
<1> QED
    BY <1>1, <1>2 DEF SetToSeq

LEMMA Widening ==
    ASSUME NEW S, NEW T, S \subseteq T
    PROVE  Seq(S) \subseteq Seq(T)
<1> SUFFICES ASSUME NEW s \in Seq(S) PROVE s \in Seq(T)
    OBVIOUS
<1>1. s \in [1..Len(s) -> S] /\ Len(s) \in Nat
    OBVIOUS
<1>2. s \in [1..Len(s) -> T]
    BY <1>1
<1> QED
    BY <1>1, <1>2

LEMMA DocMarks ==
    /\ {None, Gone} \cap Stages = {} /\ None \notin Cases /\ Stages = 0..2
    /\ {None, Refused} \cap BehindRows = {}
    /\ {None, Failed} \cap Seq(BehindRows) = {}
<1>1. BehindRows \subseteq RowType
    BY DEF BehindRows
<1>2. Seq(BehindRows) \subseteq Seq(RowType)
    BY <1>1, Widening
<1> QED
    BY <1>1, <1>2, DocumentsAssumption

LEMMA RowFields ==
    ASSUME NEW r \in BehindRows
    PROVE  r \in RowType /\ r.doc \in Docs /\ r.status \in Stages
           /\ status[r.doc] \in Stages /\ r.status <= status[r.doc]
BY DEF BehindRows, RowType

(* Documents only move on, and what is behind stays behind.                *)
LEMMA BehindStays ==
    ASSUME \A d \in Docs : status[d] \in Stages => status'[d] \in Stages /\ status[d] <= status'[d]
    PROVE  /\ BehindRows \subseteq BehindRows' /\ Seq(BehindRows) \subseteq Seq(BehindRows')
           /\ Polls \subseteq Polls' /\ Seq(Polls) \subseteq Seq(Polls')
<1>1. BehindRows \subseteq BehindRows'
  <2> SUFFICES ASSUME NEW r \in BehindRows PROVE r \in RowType /\ status'[r.doc] \in Stages /\ r.status <= status'[r.doc]
      BY DEF BehindRows
  <2>1. r \in RowType /\ r.doc \in Docs /\ r.status \in 0..2 /\ status[r.doc] \in 0..2 /\ r.status <= status[r.doc]
      BY RowFields, DocMarks
  <2>2. status'[r.doc] \in 0..2 /\ status[r.doc] <= status'[r.doc]
      BY <2>1, DocMarks
  <2> QED
      BY <2>1, <2>2, DocMarks
<1>2. Seq(BehindRows) \subseteq Seq(BehindRows')
    BY <1>1, Widening
<1>3. Polls \subseteq Polls'
  <2> SUFFICES ASSUME NEW p \in Polls PROVE p \in Polls'
      OBVIOUS
  <2>1. /\ p \in [left : Seq(BehindRows) \ {<<>>}, answer : Stages \cup {None}]
        /\ p.answer # None => p.answer <= status[p.left[1].doc]
      BY DEF Polls
  <2>2. p \in [left : Seq(BehindRows') \ {<<>>}, answer : Stages \cup {None}]
      BY <1>2, <2>1
  <2>3. ASSUME p.answer # None PROVE p.answer <= status'[p.left[1].doc]
    <3>1. p.left \in Seq(BehindRows) /\ p.left # <<>>
        BY <2>1
    <3>2. p.left[1] \in BehindRows
        BY <3>1
    <3>3. p.left[1].doc \in Docs /\ status[p.left[1].doc] \in 0..2 /\ p.answer \in 0..2
        BY <2>1, <2>3, <3>2, RowFields, DocMarks
    <3>4. status'[p.left[1].doc] \in 0..2 /\ status[p.left[1].doc] <= status'[p.left[1].doc]
        BY <3>3, DocMarks
    <3> QED
        BY <2>1, <2>3, <3>3, <3>4
  <2> QED
      BY <2>2, <2>3 DEF Polls
<1>4. Seq(Polls) \subseteq Seq(Polls')
    BY <1>3, Widening
<1> QED
    BY <1>1, <1>2, <1>3, <1>4

LEMMA BehindSame == ASSUME UNCHANGED status PROVE BehindRows' = BehindRows /\ Polls' = Polls
BY DEF BehindRows, Polls

LEMMA DocInitially == DocInit => DocInv
<1> SUFFICES ASSUME DocInit PROVE DocInv
    OBVIOUS
<1>1. docs \in Seq(BehindRows) /\ polls \in Seq(Polls)
    BY DEF DocInit
<1>2. DocTypes
  <2>1. 0 \in Stages /\ 0 \in 0..MaxChoices
      BY DocumentsAssumption
  <2>2. status \in [Docs -> Stages \cup {Gone}]
    <3>1. status \in [Docs -> {0, Gone}] /\ {0, Gone} \subseteq Stages \cup {Gone}
        BY <2>1 DEF DocInit
    <3> QED
        BY ONLY <3>1
  <2> QED
      BY <2>1, <2>2 DEF DocInit, DocTypes
<1> QED
    BY <1>1, <1>2 DEF DocInit, DocInv, RowsAreBehind, AnswerIsOfCase, ListIsOfChosenCase

LEMMA ChooseKeepsInv == ASSUME DocInv, NEW c \in Cases \cup {None}, Choose(c) PROVE DocInv'
<1>1. BehindRows' = BehindRows /\ Polls' = Polls
    BY BehindSame DEF Choose
<1>2. DocTypes'
  <2>1. choices \in 0..MaxChoices /\ choices < MaxChoices /\ MaxChoices \in Nat
      BY DocumentsAssumption DEF Choose, DocInv, DocTypes
  <2>2. choices' \in 0..MaxChoices
      BY <2>1 DEF Choose
  <2> QED
      BY <2>2 DEF Choose, DocInv, DocTypes
<1>3. CASE c = None
  <2>1. docs' \in Seq(BehindRows')
      BY <1>3 DEF Choose
  <2>2. RowsAreBehind'
      BY <1>1, <1>3, <2>1 DEF Choose, DocInv, RowsAreBehind
  <2> QED
      BY <1>2, <1>3, <2>2 DEF Choose, DocInv, AnswerIsOfCase, ListIsOfChosenCase
<1>4. CASE c # None
  <2> DEFINE q == [case |-> c, answer |-> None]
  <2>1. q \in [case : Cases, answer : Seq(BehindRows) \cup {None, Failed}] /\ q.case = c /\ q.answer = None
      BY <1>4
  <2>2. question' = q /\ chosen' = c /\ docsLoading' = TRUE /\ UNCHANGED <<docs, uploading, polls, status>>
      BY <1>4 DEF Choose
  <2> HIDE DEF q
  <2>3. RowsAreBehind'
      BY <1>1, <2>1, <2>2 DEF DocInv, RowsAreBehind
  <2> QED
      BY <1>2, <2>1, <2>2, <2>3 DEF DocInv, AnswerIsOfCase, ListIsOfChosenCase
<1> QED
    BY <1>3, <1>4

(* The server's list of a case.                                            *)
LEMMA ServerListsKeepsInv == ASSUME DocInv, ServerLists PROVE DocInv'
<1> DEFINE there == {d \in Docs : CaseOf[d] = question.case /\ status[d] # Gone}
           list == [i \in DOMAIN SetToSeq(there) |-> Row(SetToSeq(there)[i])]
<1>1. UNCHANGED <<chosen, docs, docsLoading, error, uploading, polls, status, strays, choices>>
      /\ question # None /\ question.answer = None
    BY DEF ServerLists
<1>2. PICK a \in {list, Failed} : question' = [question EXCEPT !.answer = a]
    BY DEF ServerLists
<1>3. IsFiniteSet(there)
    BY FS_Subset, DocumentsAssumption
<1>4. PICK n \in Nat : SetToSeq(there) \in [1..n -> there]
    BY <1>3, Enumeration
<1>5. \A i \in 1..n : SetToSeq(there)[i] \in there
    BY <1>4
<1>6. \A d \in there : Row(d) \in BehindRows /\ Row(d).doc = d /\ CaseOf[d] = question.case
    BY DocMarks DEF DocInv, DocTypes, BehindRows, RowType, Row
<1>7. DOMAIN list = 1..n /\ \A i \in 1..n : list[i] \in BehindRows /\ CaseOf[list[i].doc] = question.case
  <2>1. DOMAIN list = 1..n /\ \A i \in 1..n : list[i] = Row(SetToSeq(there)[i])
      BY <1>4
  <2> QED
      BY <1>5, <1>6, <2>1
<1>8. list \in Seq(BehindRows)
  <2>1. list = [i \in DOMAIN list |-> list[i]]
      OBVIOUS
  <2> HIDE DEF list
  <2>2. list \in [1..n -> BehindRows]
      BY <1>7, <2>1
  <2> QED
      BY <2>2
<1> HIDE DEF list
<1>9. question' \in [case : Cases, answer : Seq(BehindRows) \cup {None, Failed}]
      /\ question'.case = question.case /\ question'.answer = a
    BY <1>1, <1>2, <1>8 DEF DocInv, RowsAreBehind
<1>10. BehindRows' = BehindRows /\ Polls' = Polls
    BY <1>1, BehindSame
<1>11. DocTypes'
    BY <1>1 DEF DocInv, DocTypes
<1>12. RowsAreBehind'
    BY <1>1, <1>9, <1>10 DEF DocInv, RowsAreBehind
<1>13. AnswerIsOfCase'
    BY <1>2, <1>7, <1>9 DEF AnswerIsOfCase
<1> QED
    BY <1>1, <1>11, <1>12, <1>13 DEF DocInv, ListIsOfChosenCase

LEMMA ShowListKeepsInv == ASSUME DocInv, ShowList PROVE DocInv'
<1>1. /\ UNCHANGED <<chosen, uploading, polls, status, strays, choices>>
      /\ question # None /\ question.answer # None /\ question' = None /\ docsLoading' = FALSE
      /\ question.case = chosen /\ question.answer \in Seq(BehindRows) \cup {Failed}
    BY DEF ShowList, DocInv, RowsAreBehind
<1>2. /\ question.answer = Failed => error' = TRUE /\ docs' = docs
      /\ question.answer # Failed => error' = error /\ docs' = question.answer
    BY DEF ShowList
<1>3. BehindRows' = BehindRows /\ Polls' = Polls
    BY <1>1, BehindSame
<1>4. DocTypes'
    BY <1>1, <1>2 DEF DocInv, DocTypes
<1>5. RowsAreBehind' /\ AnswerIsOfCase'
    BY <1>1, <1>2, <1>3 DEF DocInv, RowsAreBehind, AnswerIsOfCase
<1>6. ListIsOfChosenCase'
    BY <1>1, <1>2 DEF DocInv, AnswerIsOfCase, ListIsOfChosenCase
<1> QED
    BY <1>4, <1>5, <1>6 DEF DocInv

LEMMA UploadKeepsInv == ASSUME DocInv, NEW d \in Docs, Upload(d) PROVE DocInv'
<1> DEFINE u == [doc |-> d, made |-> None]
<1>1. u \in [doc : Docs, made : BehindRows \cup {None, Refused}] /\ u.doc = d /\ u.made = None
    OBVIOUS
<1>2. uploading' = u /\ status[d] = Gone
      /\ UNCHANGED <<chosen, docs, docsLoading, error, question, polls, status, strays, choices>>
    BY DEF Upload
<1> HIDE DEF u
<1>3. BehindRows' = BehindRows /\ Polls' = Polls
    BY <1>2, BehindSame
<1>4. RowsAreBehind'
    BY <1>1, <1>2, <1>3, DocMarks DEF DocInv, RowsAreBehind
<1> QED
    BY <1>2, <1>4 DEF DocInv, DocTypes, AnswerIsOfCase, ListIsOfChosenCase

(* The documents move on while nothing else changes.                       *)
LEMMA DocumentsMoveOn ==
    ASSUME DocInv, UNCHANGED <<chosen, docs, docsLoading, error, question, polls, strays, choices>>,
           status' \in [Docs -> Stages \cup {Gone}],
           \A d \in Docs : status[d] \in Stages => status'[d] \in Stages /\ status[d] <= status'[d],
           uploading' # None =>
               /\ uploading' \in [doc : Docs, made : BehindRows' \cup {None, Refused}]
               /\ uploading'.made = None => status'[uploading'.doc] = Gone
               /\ uploading'.made \in BehindRows' => uploading'.made.doc = uploading'.doc
    PROVE  DocInv'
<1>1. /\ Seq(BehindRows) \subseteq Seq(BehindRows') /\ Seq(Polls) \subseteq Seq(Polls')
    BY BehindStays
<1>2. docs' \in Seq(BehindRows') /\ polls' \in Seq(Polls')
    BY <1>1 DEF DocInv, RowsAreBehind
<1>3. question' # None =>
          /\ question' \in [case : Cases, answer : Seq(BehindRows') \cup {None, Failed}]
          /\ question'.case = chosen' /\ docsLoading'
    BY <1>1 DEF DocInv, RowsAreBehind
<1>4. RowsAreBehind'
    BY <1>2, <1>3 DEF RowsAreBehind
<1> QED
    BY <1>4 DEF DocInv, DocTypes, AnswerIsOfCase, ListIsOfChosenCase

LEMMA ServerStoresKeepsInv == ASSUME DocInv, ServerStores PROVE DocInv'
<1> DEFINE r == [doc |-> uploading.doc, status |-> 0]
<1>1. uploading # None /\ uploading.made = None /\ uploading.doc \in Docs /\ status[uploading.doc] = Gone
      /\ uploading \in [doc : Docs, made : BehindRows \cup {None, Refused}]
      /\ UNCHANGED <<chosen, docs, docsLoading, error, question, polls, strays, choices>>
    BY DEF ServerStores, DocInv, RowsAreBehind
<1>2. PICK a \in {r, Refused} :
          /\ uploading' = [uploading EXCEPT !.made = a]
          /\ \/ status' = [status EXCEPT ![uploading.doc] = 0]
             \/ a = Refused /\ UNCHANGED status
    BY DEF ServerStores
<1>3. r \in RowType /\ r.doc = uploading.doc /\ r.status = 0 /\ r # None
    BY <1>1, DocMarks, DocumentsAssumption DEF RowType
<1>4. ASSUME NEW d \in Docs, status[d] \in Stages PROVE status'[d] \in Stages /\ status[d] <= status'[d]
  <2>1. Gone \notin Stages /\ status[d] \in 0..2
      BY <1>4, DocMarks
  <2>2. d # uploading.doc
      BY <1>1, <1>4, <2>1
  <2>3. status'[d] = status[d]
      BY <1>2, <2>2 DEF DocInv, DocTypes
  <2> QED
      BY <1>4, <2>1, <2>3
<1>5. status' \in [Docs -> Stages \cup {Gone}] /\ (a = r /\ a # Refused => status'[uploading.doc] = 0)
    BY <1>1, <1>2, DocMarks DEF DocInv, DocTypes
<1> HIDE DEF r
<1>6. a = Refused \/ a \in BehindRows'
    BY <1>2, <1>3, <1>5, DocMarks DEF BehindRows
<1>7. /\ uploading' \in [doc : Docs, made : BehindRows' \cup {None, Refused}]
      /\ uploading'.doc = uploading.doc /\ uploading'.made = a
    BY <1>1, <1>2, <1>6
<1>8. a # None /\ (a = r \/ a = Refused)
    BY <1>2, <1>3, MarksAssumption
<1>9. Refused \notin BehindRows'
    BY DocMarks, DocumentsAssumption, MarksAssumption DEF BehindRows, RowType
<1>10. a \in BehindRows' => a.doc = uploading.doc
  <2>1. CASE a = r
      BY <1>3, <2>1
  <2>2. CASE a = Refused
      BY <1>9, <2>2
  <2> QED
      BY <1>8, <2>1, <2>2
<1>11. /\ uploading'.made # None
       /\ (uploading'.made \in BehindRows' => uploading'.made.doc = uploading'.doc)
    BY <1>7, <1>8, <1>10
<1> QED
    BY <1>1, <1>4, <1>5, <1>7, <1>11, DocumentsMoveOn

LEMMA ProgressKeepsInv == ASSUME DocInv, NEW d \in Docs, Progress(d) PROVE DocInv'
<1>1. status[d] \in {0, 1} /\ status' = [status EXCEPT ![d] = status[d] + 1]
      /\ UNCHANGED <<chosen, docs, docsLoading, error, question, uploading, polls, strays, choices>>
    BY DEF Progress, Pollable
<1>2. status' \in [Docs -> Stages \cup {Gone}]
    BY <1>1, DocMarks DEF DocInv, DocTypes
<1>3. \A e \in Docs : status[e] \in Stages => status'[e] \in Stages /\ status[e] <= status'[e]
    BY <1>1, DocMarks DEF DocInv, DocTypes
<1>4. BehindRows \subseteq BehindRows'
    BY <1>3, BehindStays
<1>5. ASSUME uploading # None
      PROVE  /\ uploading \in [doc : Docs, made : BehindRows' \cup {None, Refused}]
             /\ uploading.made = None => status'[uploading.doc] = Gone
             /\ uploading.made \in BehindRows' => uploading.made.doc = uploading.doc
  <2>1. /\ uploading \in [doc : Docs, made : BehindRows \cup {None, Refused}]
        /\ uploading.made = None => status[uploading.doc] = Gone
        /\ uploading.made \in BehindRows => uploading.made.doc = uploading.doc
      BY <1>5 DEF DocInv, RowsAreBehind
  <2>2. uploading.made = None => uploading.doc # d
    <3>1. Gone \notin Stages /\ 0 \in Stages /\ 1 \in Stages
      <4>1. Gone \notin Stages
          BY DocMarks, Zenon
      <4>2. 0 \in Stages /\ 1 \in Stages
          BY DocMarks
      <4> QED
          BY <4>1, <4>2
    <3>2. status[d] \in {0, 1}
        BY <1>1
    <3>3. status[d] # Gone
        BY ONLY <3>1, <3>2
    <3> QED
        BY <2>1, <3>3
  <2>3. uploading.made = None => status'[uploading.doc] = Gone
      BY <1>1, <2>1, <2>2 DEF DocInv, DocTypes
  <2>4. uploading.made \in BehindRows' => uploading.made \in BehindRows
    <3>1. \A r \in BehindRows' : r \in RowType
        BY DEF BehindRows
    <3> QED
        BY <2>1, <3>1, DocumentsAssumption
  <2>5. uploading \in [doc : Docs, made : BehindRows' \cup {None, Refused}]
      BY <1>4, <2>1
  <2> QED
      BY <2>1, <2>3, <2>4, <2>5
<1> QED
    BY <1>1, <1>2, <1>3, <1>5, DocumentsMoveOn

LEMMA ShowUploadedKeepsInv == ASSUME DocInv, ShowUploaded PROVE DocInv'
<1>1. /\ uploading.made \in BehindRows \cup {Refused} /\ uploading' = None /\ uploading.doc \in Docs
      /\ uploading.made \in BehindRows => uploading.made.doc = uploading.doc
      /\ UNCHANGED <<chosen, docsLoading, error, question, polls, status, choices>>
    BY DEF ShowUploaded, DocInv, RowsAreBehind
<1>2. BehindRows' = BehindRows /\ Polls' = Polls
    BY <1>1, BehindSame
<1>3. CASE uploading.made = Refused
  <2>1. UNCHANGED <<docs, strays>>
      BY <1>3 DEF ShowUploaded
  <2> QED
      BY <1>1, <1>2, <2>1 DEF DocInv, DocTypes, RowsAreBehind, AnswerIsOfCase, ListIsOfChosenCase
<1>4. CASE uploading.made # Refused
  <2>1. /\ docs' = <<uploading.made>> \o docs /\ uploading.made \in BehindRows /\ docs \in Seq(BehindRows)
        /\ strays' = IF CaseOf[uploading.doc] = chosen THEN strays ELSE strays \cup {uploading.doc}
      BY <1>1, <1>4 DEF ShowUploaded, DocInv, RowsAreBehind
  <2>2. <<uploading.made>> \in Seq(BehindRows) /\ Len(<<uploading.made>>) = 1 /\ <<uploading.made>>[1] = uploading.made
      BY <2>1
  <2>3. /\ docs' \in Seq(BehindRows) /\ Len(docs') = 1 + Len(docs)
        /\ docs'[1] = uploading.made
        /\ \A k \in 1..Len(docs) : docs'[1 + k] = docs[k]
    <3> DEFINE one == <<uploading.made>>
    <3>1. one \in Seq(BehindRows) /\ Len(one) = 1 /\ one[1] = uploading.made /\ docs' = one \o docs
        BY <2>1, <2>2
    <3> HIDE DEF one
    <3>2. /\ docs' \in Seq(BehindRows) /\ Len(docs') = Len(one) + Len(docs)
          /\ \A k \in 1..Len(one) : docs'[k] = one[k]
          /\ \A k \in 1..Len(docs) : docs'[Len(one) + k] = docs[k]
        BY <2>1, <3>1, Concatenation
    <3> QED
        BY <3>1, <3>2
  <2>4. strays' \subseteq Docs /\ strays \subseteq strays'
      BY <1>1, <2>1 DEF DocInv, DocTypes
  <2>5. DocTypes'
      BY <1>1, <2>4 DEF DocInv, DocTypes
  <2>6. RowsAreBehind' /\ AnswerIsOfCase'
      BY <1>1, <1>2, <2>3 DEF DocInv, RowsAreBehind, AnswerIsOfCase
  <2>7. ListIsOfChosenCase'
    <3> SUFFICES ASSUME chosen # None, ~docsLoading, ~error, NEW k \in DOMAIN docs'
                 PROVE  CaseOf[docs'[k].doc] = chosen \/ docs'[k].doc \in strays'
        BY <1>1 DEF ListIsOfChosenCase
    <3>1. CASE k = 1
        BY <1>1, <2>1, <2>3, <3>1
    <3>2. CASE k # 1
      <4>1. k - 1 \in 1..Len(docs) /\ 1 + (k - 1) = k /\ k - 1 \in DOMAIN docs
          BY <2>1, <2>3, <3>2
      <4>2. docs'[k] = docs[k - 1]
          BY <2>3, <4>1
      <4> QED
          BY <2>4, <4>1, <4>2 DEF DocInv, ListIsOfChosenCase
    <3> QED
        BY <3>1, <3>2
  <2> QED
      BY <2>5, <2>6, <2>7 DEF DocInv
<1> QED
    BY <1>3, <1>4

(* What a poll has left are rows as the page had them.                     *)
LEMMA PollFromIs ==
    ASSUME NEW list \in Seq(BehindRows), NEW k \in DOMAIN list
    PROVE  PollFrom(list, k) \in Polls
<1> DEFINE rest == SubSeq(list, k, Len(list))
<1>1. rest \in Seq(BehindRows) /\ rest # <<>>
  <2>1. k \in 1..Len(list) /\ Len(list) \in Nat
      OBVIOUS
  <2>2. rest \in Seq(BehindRows) /\ Len(rest) = Len(list) - k + 1
      BY <2>1
  <2> HIDE DEF rest
  <2>3. Len(rest) # 0
      BY <2>1, <2>2
  <2> QED
      BY <2>2, <2>3
<1> HIDE DEF rest
<1>2. [left |-> rest, answer |-> None] \in [left : Seq(BehindRows) \ {<<>>}, answer : Stages \cup {None}]
    BY <1>1
<1> QED
    BY <1>2 DEF Polls, PollFrom, rest

LEMMA PollFields ==
    ASSUME NEW p \in Polls
    PROVE  /\ p.left \in Seq(BehindRows) /\ p.left # <<>> /\ p.left[1] \in BehindRows
           /\ Tail(p.left) \in Seq(BehindRows)
           /\ p.answer \in Stages \cup {None}
           /\ p.answer # None => p.answer <= status[p.left[1].doc]
<1>1. p.left \in Seq(BehindRows) /\ p.left # <<>>
    BY DEF Polls
<1>2. p.left[1] \in BehindRows /\ Tail(p.left) \in Seq(BehindRows)
    BY <1>1
<1> QED
    BY <1>1, <1>2 DEF Polls

(* What only changes the polls.                                            *)
LEMMA PollsKeepInv ==
    ASSUME DocInv, UNCHANGED <<chosen, docs, docsLoading, error, question, uploading, status, strays, choices>>,
           polls' \in Seq(Polls)
    PROVE  DocInv'
<1>1. BehindRows' = BehindRows /\ Polls' = Polls
    BY BehindSame
<1> QED
    BY <1>1 DEF DocInv, DocTypes, RowsAreBehind, AnswerIsOfCase, ListIsOfChosenCase

LEMMA TickKeepsInv == ASSUME DocInv, Tick PROVE DocInv'
<1>1. PICK k \in DOMAIN docs : polls' = Append(polls, PollFrom(docs, k))
    BY DEF Tick
<1>2. docs \in Seq(BehindRows) /\ polls \in Seq(Polls)
    BY DEF DocInv, RowsAreBehind
<1>3. PollFrom(docs, k) \in Polls
    BY <1>2, PollFromIs
<1>4. polls' \in Seq(Polls)
    BY <1>1, <1>2, <1>3, Extension
<1> QED
    BY <1>4, PollsKeepInv DEF Tick

LEMMA ServerTellsKeepsInv == ASSUME DocInv, NEW i \in DOMAIN polls, ServerTells(i) PROVE DocInv'
<1> DEFINE s == status[polls[i].left[1].doc]
           p == [polls[i] EXCEPT !.answer = s]
<1>1. polls \in Seq(Polls) /\ i \in 1..Len(polls) /\ polls[i] \in Polls
    BY DEF DocInv, RowsAreBehind
<1>2. s \in Stages /\ s <= s
    BY <1>1, PollFields, RowFields, DocMarks
<1> HIDE DEF s
<1>3. p \in [left : Seq(BehindRows) \ {<<>>}, answer : Stages \cup {None}] /\ p.left = polls[i].left /\ p.answer = s
    BY <1>1, <1>2 DEF Polls
<1> HIDE DEF p
<1>4. p \in Polls
    BY <1>2, <1>3 DEF Polls, s
<1>5. polls' = [polls EXCEPT ![i] = p]
    BY <1>1 DEF ServerTells, p, s
<1>6. polls' \in Seq(Polls)
    BY <1>1, <1>4, <1>5, Replacement
<1> QED
    BY <1>6, PollsKeepInv DEF ServerTells

LEMMA AdvanceKeepsPolls == ASSUME DocInv, NEW i \in DOMAIN polls, Advance(i) PROVE polls' \in Seq(Polls)
<1> DEFINE rest == Tail(polls[i].left)
<1>1. polls \in Seq(Polls) /\ i \in 1..Len(polls) /\ polls[i] \in Polls
    BY DEF DocInv, RowsAreBehind
<1>2. rest \in Seq(BehindRows)
    BY <1>1, PollFields
<1>3. CASE polls' = RemoveAt(polls, i)
    BY <1>1, <1>3, Removal
<1>4. ASSUME NEW k \in DOMAIN rest, polls' = [polls EXCEPT ![i] = PollFrom(rest, k)] PROVE polls' \in Seq(Polls)
  <2>1. PollFrom(rest, k) \in Polls
      BY <1>2, PollFromIs
  <2> QED
      BY <1>1, <1>4, <2>1, Replacement
<1> QED
    BY <1>3, <1>4 DEF Advance

LEMMA PassOverKeepsInv == ASSUME DocInv, NEW i \in DOMAIN polls, PassOver(i) PROVE DocInv'
BY AdvanceKeepsPolls, PollsKeepInv DEF PassOver

(* A poll's answer goes to the rows of its document, which stay behind.    *)
LEMMA TakeStatusKeepsInv == ASSUME DocInv, NEW i \in DOMAIN polls, TakeStatus(i) PROVE DocInv'
<1> DEFINE row == polls[i].left[1]
           s == polls[i].answer
<1>1. polls \in Seq(Polls) /\ polls[i] \in Polls /\ docs \in Seq(BehindRows)
    BY DEF DocInv, RowsAreBehind
<1>2. s \in Stages /\ s <= status[row.doc] /\ row \in BehindRows
    BY <1>1, PollFields DEF TakeStatus
<1>3. /\ docs' = IF s = row.status THEN docs
                 ELSE [j \in DOMAIN docs |-> IF docs[j].doc = row.doc THEN [docs[j] EXCEPT !.status = s] ELSE docs[j]]
      /\ Advance(i) /\ UNCHANGED <<chosen, docsLoading, error, question, uploading, status, strays, choices>>
    BY DEF TakeStatus
<1> HIDE DEF row, s
<1>4. docs' \in Seq(BehindRows) /\ DOMAIN docs' = DOMAIN docs /\ \A j \in DOMAIN docs : docs'[j].doc = docs[j].doc
  <2>1. CASE s = row.status
      BY <1>1, <1>3, <2>1
  <2>2. CASE s # row.status
    <3> DEFINE new(j) == IF docs[j].doc = row.doc THEN [docs[j] EXCEPT !.status = s] ELSE docs[j]
    <3>1. ASSUME NEW j \in DOMAIN docs PROVE new(j) \in BehindRows /\ new(j).doc = docs[j].doc
      <4>1. docs[j] \in BehindRows /\ docs[j] \in RowType
          BY <1>1, <3>1, RowFields
      <4>2. CASE docs[j].doc = row.doc
        <5> DEFINE r == [docs[j] EXCEPT !.status = s]
        <5>1. r \in RowType /\ r.doc = docs[j].doc /\ r.status = s
            BY <1>2, <4>1 DEF RowType
        <5>2. r.doc = row.doc /\ status[row.doc] \in Stages
            BY <1>2, <4>2, <5>1, RowFields
        <5>3. new(j) = r
            BY <4>2
        <5> HIDE DEF r, new
        <5>4. r \in BehindRows
            BY <1>2, <5>1, <5>2 DEF BehindRows
        <5> QED
            BY <5>1, <5>3, <5>4
      <4>3. CASE docs[j].doc # row.doc
          BY <4>1, <4>3
      <4> QED
          BY <4>2, <4>3
    <3>2. docs' = [j \in DOMAIN docs |-> new(j)]
        BY <1>3, <2>2
    <3> HIDE DEF new
    <3>3. DOMAIN docs = 1..Len(docs) /\ Len(docs) \in Nat
        BY <1>1
    <3>4. docs' \in [1..Len(docs) -> BehindRows]
        BY <3>1, <3>2, <3>3
    <3> QED
        BY <3>1, <3>2, <3>3, <3>4
  <2> QED
      BY <2>1, <2>2
<1>5. BehindRows' = BehindRows /\ Polls' = Polls
    BY <1>3, BehindSame
<1>6. polls' \in Seq(Polls)
    BY <1>3, AdvanceKeepsPolls
<1>7. RowsAreBehind'
    BY <1>3, <1>4, <1>5, <1>6 DEF DocInv, RowsAreBehind
<1> QED
    BY <1>3, <1>4, <1>7 DEF DocInv, DocTypes, AnswerIsOfCase, ListIsOfChosenCase

LEMMA DocStep == ASSUME DocInv, [DocNext]_docVars PROVE DocInv'
<1>1. CASE UNCHANGED docVars
  <2>1. UNCHANGED <<chosen, docs, docsLoading, error, question, uploading, polls, status, strays, choices>>
      BY <1>1 DEF docVars
  <2> QED
      BY <2>1, PollsKeepInv DEF DocInv, RowsAreBehind
<1>2. CASE DocNext
    BY <1>2, ChooseKeepsInv, ServerListsKeepsInv, ShowListKeepsInv, UploadKeepsInv, ProgressKeepsInv,
       ServerStoresKeepsInv, ShowUploadedKeepsInv, TickKeepsInv, ServerTellsKeepsInv, TakeStatusKeepsInv,
       PassOverKeepsInv
    DEF DocNext
<1> QED
    BY <1>1, <1>2

LEMMA DocInvariance == DocSpec => []DocInv
<1>1. DocInit => DocInv
    BY DocInitially
<1>2. DocInv /\ [DocNext]_docVars => DocInv'
    BY DocStep
<1> QED
    BY <1>1, <1>2, PTL DEF DocSpec

(* The list is always a list of documents with a status, and the load that *)
(* is awaited is of the chosen case: the clean-up of the effect of         *)
(* documents/page.tsx drops every other.                                   *)
THEOREM DocTypeCorrect == DocSpec => []DocTypeOK
<1>1. DocInv => DocTypeOK
  <2>1. BehindRows \subseteq RowType
      BY DEF BehindRows
  <2>2. Seq(BehindRows) \subseteq Seq(RowType)
      BY <2>1, Widening
  <2> QED
      BY <2>2 DEF DocInv, DocTypes, RowsAreBehind, DocTypeOK
<1> QED
    BY <1>1, DocInvariance, PTL

(* Polls that overlap, in any number, never show a document further than   *)
(* it is, whatever list they began on (documents/page.tsx:113-132).        *)
THEOREM RowsNeverAhead == DocSpec => []NeverAhead
<1>1. DocInv => NeverAhead
  <2> SUFFICES ASSUME DocInv, NEW i \in DOMAIN docs PROVE docs[i].status <= status[docs[i].doc]
      BY DEF NeverAhead
  <2>1. docs \in Seq(BehindRows)
      BY DEF DocInv, RowsAreBehind
  <2>2. docs[i] \in BehindRows
      BY <2>1
  <2> QED
      BY <2>2, RowFields
<1> QED
    BY <1>1, DocInvariance, PTL

(* Late lists, uploads and polls of other cases leave nothing on the list  *)
(* of the chosen case but the uploads themselves (documents/page.tsx).     *)
THEOREM ListsOfChosenCase == DocSpec => []ListIsOfChosenCase
<1>1. DocInv => ListIsOfChosenCase
    BY DEF DocInv
<1> QED
    BY <1>1, DocInvariance, PTL
-------------------------------------------------------------------------------
(* The case.                                                               *)
Answers == {None, "made", Refused, Failed}

CaseCalls ==
    [kind : {"save"}, what : Contents, from : CaseCopy, live : BOOLEAN, answer : Answers]
        \cup [kind : {"assign", "unassign"}, what : People, from : CaseCopy, live : BOOLEAN, answer : Answers]
        \cup [kind : {"delete"}, what : {None}, from : CaseCopy, live : BOOLEAN, answer : Answers]

CaseTypes ==
    /\ detail \in CaseCopy \cup {None} /\ case \in CaseCopy \cup {Gone}
    /\ form \in Contents \cup {None} /\ selected \in People \cup {None}
    /\ editing => form # None
    /\ people \in (SUBSET People) \cup {None}
    /\ broken \in BOOLEAN /\ editing \in BOOLEAN /\ crossed \in BOOLEAN
    /\ busy \subseteq {"save", "assign", "delete"} /\ place \in {"here", "gone"}
    /\ loads \in Seq(CaseCopy \cup {None, Failed})
    /\ calls \in Seq(CaseCalls)

(* One edit at a time is being saved, and it was sent from the copy the    *)
(* page has.                                                               *)
OneSave ==
    \A i \in DOMAIN calls : calls[i].kind = "save" =>
        /\ calls[i].from = detail
        /\ \A j \in DOMAIN calls : calls[j].kind = "save" => j = i

Saving == \E i \in DOMAIN calls : calls[i].kind = "save"

(* No change of the team, and no deletion, that the page has yet to hear   *)
(* of: it will ask for the case again, or leave, when it does.             *)
NothingToHear ==
    place = "here" /\ \A i \in DOMAIN calls : calls[i].answer = "made" => calls[i].kind = "save"

(* Then the last load will bring the case as it is, unless it comes during *)
(* a save; and when no load is awaited the page shows it, or will with the *)
(* save it has yet to hear of.                                             *)
LastLoadBringsIt == loads # <<>> => Saving \/ loads[Len(loads)] \in {None, Failed, case}

PageShowsIt ==
    loads = <<>> /\ ~broken /\ detail # None =>
        /\ (\A i \in DOMAIN calls : calls[i].answer # "made") => detail = case
        /\ \A i \in DOMAIN calls : calls[i].answer = "made" =>
               [calls[i].from EXCEPT !.fields = calls[i].what] = case

CaseWillBeKnown == NothingToHear => LastLoadBringsIt /\ PageShowsIt

CaseInv == CaseTypes /\ (~crossed => OneSave /\ CaseWillBeKnown)

LEMMA CallFields ==
    ASSUME NEW c \in CaseCalls
    PROVE  /\ c.kind \in {"save", "assign", "unassign", "delete"}
           /\ c.from \in CaseCopy /\ c.live \in BOOLEAN /\ c.answer \in Answers
           /\ c.kind = "save" => c.what \in Contents
BY DEF CaseCalls

LEMMA CallAnswered ==
    ASSUME NEW c \in CaseCalls, NEW a \in Answers
    PROVE  /\ [c EXCEPT !.answer = a] \in CaseCalls
           /\ [c EXCEPT !.answer = a].kind = c.kind /\ [c EXCEPT !.answer = a].what = c.what
           /\ [c EXCEPT !.answer = a].from = c.from /\ [c EXCEPT !.answer = a].answer = a
BY DEF CaseCalls

LEMMA CallOrphaned ==
    ASSUME NEW c \in CaseCalls
    PROVE  /\ [c EXCEPT !.live = FALSE] \in CaseCalls
           /\ [c EXCEPT !.live = FALSE].kind = c.kind /\ [c EXCEPT !.live = FALSE].what = c.what
           /\ [c EXCEPT !.live = FALSE].from = c.from /\ [c EXCEPT !.live = FALSE].answer = c.answer
BY DEF CaseCalls

LEMMA CaseInitially == CaseInit => CaseInv
<1> SUFFICES ASSUME CaseInit PROVE CaseInv
    OBVIOUS
<1>1. loads \in Seq(CaseCopy \cup {None, Failed}) /\ loads # <<>> /\ loads[Len(loads)] = None
    BY DEF CaseInit
<1>2. CaseTypes
  <2>1. case \in CaseCopy /\ calls \in Seq(CaseCalls)
      BY DEF CaseInit
  <2>2. /\ detail = None /\ form = None /\ selected = None /\ people = None /\ place = "here" /\ busy = {}
        /\ broken = FALSE /\ editing = FALSE /\ crossed = FALSE
      BY DEF CaseInit
  <2>3. /\ detail \in CaseCopy \cup {None} /\ form \in Contents \cup {None} /\ selected \in People \cup {None}
        /\ people \in (SUBSET People) \cup {None} /\ busy \subseteq {"save", "assign", "delete"} /\ place \in {"here", "gone"}
      BY <2>2
  <2>4. broken \in BOOLEAN /\ editing \in BOOLEAN /\ crossed \in BOOLEAN /\ ~editing
      BY <2>2
  <2> QED
      BY <1>1, <2>1, <2>3, <2>4 DEF CaseTypes
<1>3. OneSave /\ CaseWillBeKnown
    BY <1>1 DEF CaseInit, OneSave, CaseWillBeKnown, LastLoadBringsIt, PageShowsIt
<1> QED
    BY <1>2, <1>3 DEF CaseInv

(* What only the fields that are edited and the lists to pick from know.   *)
LEMMA EditingKeepsInv ==
    ASSUME CaseInv, UNCHANGED <<detail, broken, loads, calls, place, case, crossed, busy>>,
           form' \in Contents \cup {None}, selected' \in People \cup {None},
           editing' => form' # None, editing' \in BOOLEAN, people' \in (SUBSET People) \cup {None}
    PROVE  CaseInv'
<1>1. CaseTypes'
    BY DEF CaseInv, CaseTypes
<1>2. ASSUME ~crossed' PROVE OneSave' /\ CaseWillBeKnown'
    BY <1>2 DEF CaseInv, OneSave, CaseWillBeKnown, NothingToHear, LastLoadBringsIt, PageShowsIt, Saving
<1> QED
    BY <1>1, <1>2 DEF CaseInv

LEMMA LoadPeopleKeepsInv == ASSUME CaseInv, LoadPeople PROVE CaseInv'
BY EditingKeepsInv DEF LoadPeople, CaseInv, CaseTypes

LEMMA StartEditKeepsInv == ASSUME CaseInv, StartEdit PROVE CaseInv'
<1>1. detail.fields \in Contents /\ detail.fields # None
  <2>1. detail \in CaseCopy
      BY DEF StartEdit, Usable, CaseInv, CaseTypes
  <2> QED
      BY <2>1, CaseAssumption DEF CaseCopy
<1> QED
    BY <1>1, EditingKeepsInv DEF StartEdit, CaseInv, CaseTypes

LEMMA TypeFieldKeepsInv == ASSUME CaseInv, NEW v \in Contents, TypeField(v) PROVE CaseInv'
<1>1. v # None
    BY CaseAssumption
<1> QED
    BY <1>1, EditingKeepsInv DEF TypeField, CaseInv, CaseTypes

LEMMA CancelEditKeepsInv == ASSUME CaseInv, CancelEdit PROVE CaseInv'
BY EditingKeepsInv DEF CancelEdit, CaseInv, CaseTypes

LEMMA SelectKeepsInv == ASSUME CaseInv, NEW p \in People, Select(p) PROVE CaseInv'
BY EditingKeepsInv DEF Select, CaseInv, CaseTypes

(* A call that is made.                                                    *)
LEMMA CallMadeKeepsInv ==
    ASSUME CaseInv, NEW kind, NEW what, Call(kind, what),
           UNCHANGED <<detail, broken, editing, form, selected, people, loads, place, case>>,
           busy' \subseteq {"save", "assign", "delete"}, crossed' \in BOOLEAN,
           NEW c \in CaseCalls, c = [kind |-> kind, what |-> what, from |-> detail, live |-> TRUE, answer |-> None],
           ~crossed' => ~crossed /\ (kind = "save" => ~Saving)
    PROVE  CaseInv'
<1>1. calls \in Seq(CaseCalls) /\ calls' = Append(calls, c)
    BY DEF CaseInv, CaseTypes, Call
<1>2. c.kind = kind /\ c.from = detail /\ c.answer = None
    OBVIOUS
<1>3. /\ calls' \in Seq(CaseCalls)
      /\ DOMAIN calls' = DOMAIN calls \cup {Len(calls) + 1}
      /\ \A k \in DOMAIN calls : calls'[k] = calls[k]
      /\ calls'[Len(calls) + 1] = c
    BY <1>1, Extension
<1>4. CaseTypes'
    BY <1>3 DEF CaseInv, CaseTypes
<1>5. ASSUME ~crossed' PROVE OneSave'
    BY <1>2, <1>3, <1>5 DEF CaseInv, OneSave, Saving
<1>6. ASSUME ~crossed', NothingToHear' PROVE LastLoadBringsIt' /\ PageShowsIt'
  <2>1. None # "made"
      BY CaseAssumption
  <2>2. NothingToHear
      BY <1>3, <1>6 DEF NothingToHear
  <2>3. LastLoadBringsIt'
      BY <1>3, <1>6, <2>2 DEF CaseInv, CaseWillBeKnown, LastLoadBringsIt, Saving
  <2>4. PageShowsIt'
      BY <1>2, <1>3, <1>6, <2>1, <2>2 DEF CaseInv, CaseWillBeKnown, PageShowsIt
  <2> QED
      BY <2>3, <2>4
<1> QED
    BY <1>4, <1>5, <1>6 DEF CaseInv, CaseWillBeKnown

LEMMA SaveFieldsKeepsInv == ASSUME CaseInv, SaveFields PROVE CaseInv'
<1> DEFINE c == [kind |-> "save", what |-> form, from |-> detail, live |-> TRUE, answer |-> None]
<1>1. detail \in CaseCopy /\ form \in Contents
    BY DEF SaveFields, Usable, CaseInv, CaseTypes
<1>2. c \in CaseCalls
    BY <1>1 DEF CaseCalls, Answers
<1>3. crossed' = (crossed \/ Saving)
    BY DEF SaveFields, Saving
<1>4. crossed' \in BOOLEAN /\ (~crossed' => ~crossed /\ ~Saving)
    BY <1>3
<1>5. Call("save", form) /\ busy' \subseteq {"save", "assign", "delete"}
      /\ UNCHANGED <<detail, broken, editing, form, selected, people, loads, place, case>>
    BY DEF SaveFields, CaseInv, CaseTypes
<1> HIDE DEF c
<1> QED
    BY <1>2, <1>4, <1>5, CallMadeKeepsInv DEF c

LEMMA AssignSelectedKeepsInv == ASSUME CaseInv, AssignSelected PROVE CaseInv'
<1> DEFINE c == [kind |-> "assign", what |-> selected, from |-> detail, live |-> TRUE, answer |-> None]
<1>1. detail \in CaseCopy /\ selected \in People
    BY DEF AssignSelected, Usable, CaseInv, CaseTypes
<1>2. c \in CaseCalls
    BY <1>1 DEF CaseCalls, Answers
<1>3. Call("assign", selected) /\ busy' \subseteq {"save", "assign", "delete"} /\ crossed' = crossed /\ crossed \in BOOLEAN
      /\ UNCHANGED <<detail, broken, editing, form, selected, people, loads, place, case>>
    BY DEF AssignSelected, CaseInv, CaseTypes
<1> QED
    BY <1>2, <1>3, CallMadeKeepsInv

LEMMA UnassignKeepsInv == ASSUME CaseInv, NEW p \in People, Unassign(p) PROVE CaseInv'
<1> DEFINE c == [kind |-> "unassign", what |-> p, from |-> detail, live |-> TRUE, answer |-> None]
<1>1. detail \in CaseCopy
    BY DEF Unassign, Usable, CaseInv, CaseTypes
<1>2. c \in CaseCalls
    BY <1>1 DEF CaseCalls, Answers
<1>3. Call("unassign", p) /\ busy' \subseteq {"save", "assign", "delete"} /\ crossed' = crossed /\ crossed \in BOOLEAN
      /\ UNCHANGED <<detail, broken, editing, form, selected, people, loads, place, case>>
    BY DEF Unassign, CaseInv, CaseTypes
<1> QED
    BY <1>2, <1>3, CallMadeKeepsInv

LEMMA DeleteKeepsInv == ASSUME CaseInv, Delete PROVE CaseInv'
<1> DEFINE c == [kind |-> "delete", what |-> None, from |-> detail, live |-> TRUE, answer |-> None]
<1>1. detail \in CaseCopy
    BY DEF Delete, Usable, CaseInv, CaseTypes
<1>2. c \in CaseCalls
    BY <1>1 DEF CaseCalls, Answers
<1>3. Call("delete", None) /\ busy' \subseteq {"save", "assign", "delete"} /\ crossed' = crossed /\ crossed \in BOOLEAN
      /\ UNCHANGED <<detail, broken, editing, form, selected, people, loads, place, case>>
    BY DEF Delete, CaseInv, CaseTypes
<1> QED
    BY <1>2, <1>3, CallMadeKeepsInv

LEMMA ReadCaseKeepsInv == ASSUME CaseInv, NEW i \in DOMAIN loads, ReadCase(i) PROVE CaseInv'
<1> DEFINE L == CaseCopy \cup {None, Failed}
<1>1. PICK a \in {IF Allowed THEN case ELSE Failed, Failed} : loads' = [loads EXCEPT ![i] = a]
    BY DEF ReadCase
<1>2. a \in {case, Failed} /\ a \in L
    BY DEF Allowed, CaseInv, CaseTypes
<1>3. loads \in Seq(L) /\ i \in 1..Len(loads)
    BY DEF CaseInv, CaseTypes
<1> HIDE DEF L
<1>4. /\ loads' \in Seq(L) /\ Len(loads') = Len(loads)
      /\ \A k \in 1..Len(loads) : loads'[k] = IF k = i THEN a ELSE loads[k]
    BY <1>1, <1>2, <1>3, Replacement
<1>5. UNCHANGED <<detail, broken, editing, form, selected, people, busy, calls, place, case, crossed>>
    BY DEF ReadCase
<1>6. CaseTypes'
    BY <1>4, <1>5 DEF CaseInv, CaseTypes, L
<1>7. loads # <<>> /\ loads' # <<>> /\ Len(loads) \in 1..Len(loads)
    BY <1>3, <1>4
<1>8. ASSUME ~crossed', NothingToHear' PROVE LastLoadBringsIt'
  <2>1. LastLoadBringsIt
      BY <1>5, <1>8 DEF CaseInv, CaseWillBeKnown, NothingToHear
  <2>2. loads'[Len(loads')] = IF Len(loads) = i THEN a ELSE loads[Len(loads)]
      BY <1>4, <1>7
  <2> QED
      BY <1>2, <1>5, <1>7, <2>1, <2>2 DEF LastLoadBringsIt, Saving
<1>9. ASSUME ~crossed' PROVE OneSave' /\ CaseWillBeKnown'
    BY <1>5, <1>7, <1>8, <1>9 DEF CaseInv, OneSave, CaseWillBeKnown, PageShowsIt
<1> QED
    BY <1>6, <1>9 DEF CaseInv

(* A load comes: in order, and during no save, or it is told as crossed.   *)
LEMMA TakeCaseKeepsInv == ASSUME CaseInv, NEW i \in DOMAIN loads, TakeCase(i) PROVE CaseInv'
<1> DEFINE L == CaseCopy \cup {None, Failed}
           got == loads[i]
<1>1. /\ loads \in Seq(L) /\ i \in DOMAIN loads /\ Len(loads) \in Nat /\ DOMAIN loads = 1..Len(loads)
      /\ got \in CaseCopy \cup {Failed}
    BY DEF TakeCase, CaseInv, CaseTypes
<1>2. loads' = RemoveAt(loads, i) /\ UNCHANGED <<place, case>>
    BY DEF TakeCase
<1>3. /\ got = Failed =>
            /\ broken' = TRUE /\ editing' = FALSE /\ form' = None /\ selected' = None /\ people' = None
            /\ busy' = busy \ {"save", "assign"} /\ detail' = detail
            /\ calls' = [j \in DOMAIN calls |-> [calls[j] EXCEPT !.live = FALSE]]
      /\ got # Failed => detail' = got /\ broken' = FALSE /\ UNCHANGED <<editing, form, selected, people, busy, calls>>
    BY DEF TakeCase
<1>4. crossed' = (crossed \/ i > 1 \/ Saving)
    BY DEF TakeCase, Saving
<1>5. crossed' \in BOOLEAN
    BY <1>4
<1>6. ASSUME ~crossed' PROVE ~crossed /\ i = 1 /\ ~Saving
  <2>1. ~(crossed \/ i > 1 \/ Saving)
      BY <1>4, <1>6
  <2> QED
      BY <1>1, <2>1
<1> HIDE DEF L, got
<1>7. /\ loads' \in Seq(L)
      /\ i # Len(loads) => loads' # <<>> /\ loads'[Len(loads')] = loads[Len(loads)]
      /\ i = 1 /\ i = Len(loads) => loads' = <<>>
  <2>1. /\ RemoveAt(loads, i) \in Seq(L)
        /\ i # Len(loads) => RemoveAt(loads, i) # <<>> /\ RemoveAt(loads, i)[Len(RemoveAt(loads, i))] = loads[Len(loads)]
      BY <1>1, Remaining
  <2>2. i = 1 /\ i = Len(loads) => RemoveAt(loads, i) = <<>>
      BY <1>1, Remaining
  <2> QED
      BY <1>2, <2>1, <2>2
<1>8. /\ calls' \in Seq(CaseCalls) /\ DOMAIN calls' = DOMAIN calls
      /\ \A j \in DOMAIN calls : /\ calls'[j].kind = calls[j].kind /\ calls'[j].answer = calls[j].answer
                                /\ calls'[j].from = calls[j].from /\ calls'[j].what = calls[j].what
  <2>1. calls \in Seq(CaseCalls) /\ DOMAIN calls = 1..Len(calls) /\ Len(calls) \in Nat
      BY DEF CaseInv, CaseTypes
  <2>2. CASE got = Failed
    <3> DEFINE orphan(j) == [calls[j] EXCEPT !.live = FALSE]
    <3>1. calls' = [j \in 1..Len(calls) |-> orphan(j)]
        BY <1>3, <2>1, <2>2
    <3>2. \A j \in 1..Len(calls) : /\ orphan(j) \in CaseCalls
                                   /\ orphan(j).kind = calls[j].kind /\ orphan(j).answer = calls[j].answer
                                   /\ orphan(j).from = calls[j].from /\ orphan(j).what = calls[j].what
      <4>1. \A j \in 1..Len(calls) : calls[j] \in CaseCalls
          BY <2>1
      <4> QED
          BY <4>1, CallOrphaned
    <3> HIDE DEF orphan
    <3>3. calls' \in [1..Len(calls) -> CaseCalls]
        BY <3>1, <3>2
    <3> QED
        BY <2>1, <3>1, <3>2, <3>3
  <2>3. CASE got # Failed
      BY <1>3, <2>1, <2>3
  <2> QED
      BY <2>2, <2>3
<1>9. CaseTypes'
  <2>1. /\ broken' \in BOOLEAN /\ editing' \in BOOLEAN /\ (editing' => form' # None)
        /\ form' \in Contents \cup {None} /\ selected' \in People \cup {None}
        /\ people' \in (SUBSET People) \cup {None} /\ busy' \subseteq {"save", "assign", "delete"}
    <3>1. CASE got = Failed
      <4>1. broken' \in BOOLEAN /\ editing' \in BOOLEAN /\ ~editing'
          BY <1>3, <3>1
      <4>2. form' = None /\ selected' = None /\ people' = None /\ busy' \subseteq busy
          BY <1>3, <3>1
      <4> QED
          BY <4>1, <4>2 DEF CaseInv, CaseTypes
    <3>2. CASE got # Failed
      <4>1. broken' = FALSE /\ UNCHANGED <<editing, form, selected, people, busy>>
          BY <1>3, <3>2
      <4>2. broken' \in BOOLEAN
          BY <4>1
      <4> QED
          BY <4>1, <4>2 DEF CaseInv, CaseTypes
    <3> QED
        BY <3>1, <3>2
  <2>2. detail' \in CaseCopy \cup {None}
      BY <1>1, <1>3 DEF CaseInv, CaseTypes
  <2>3. loads' \in Seq(CaseCopy \cup {None, Failed})
      BY <1>7 DEF L
  <2> QED
      BY <1>2, <1>5, <1>8, <2>1, <2>2, <2>3 DEF CaseInv, CaseTypes
<1>10. ASSUME ~crossed' PROVE OneSave' /\ ~Saving'
    BY <1>6, <1>8, <1>10 DEF OneSave, Saving
<1>11. ASSUME ~crossed', NothingToHear' PROVE LastLoadBringsIt' /\ PageShowsIt'
  <2>1. NothingToHear
      BY <1>2, <1>8, <1>11 DEF NothingToHear
  <2>2. loads[Len(loads)] \in {None, Failed, case}
    <3>1. LastLoadBringsIt /\ ~Saving /\ loads # <<>>
        BY <1>1, <1>6, <1>11, <2>1 DEF CaseInv, CaseWillBeKnown
    <3> QED
        BY <3>1 DEF LastLoadBringsIt
  <2>3. \A j \in DOMAIN calls' : calls'[j].answer # "made"
      BY <1>10, <1>11 DEF NothingToHear, Saving
  <2>4. CASE i # Len(loads)
      BY <1>2, <1>7, <2>2, <2>4 DEF LastLoadBringsIt, PageShowsIt
  <2>5. CASE i = Len(loads)
    <3>1. loads' = <<>>
        BY <1>6, <1>7, <1>11, <2>5
    <3>2. CASE got = Failed
        BY <1>3, <3>1, <3>2 DEF LastLoadBringsIt, PageShowsIt
    <3>3. CASE got # Failed
      <4>1. got = case
          BY <1>1, <2>2, <2>5, <3>3, CaseAssumption DEF got
      <4>2. detail' = case'
          BY <1>2, <1>3, <3>3, <4>1
      <4> QED
          BY <2>3, <3>1, <4>2 DEF LastLoadBringsIt, PageShowsIt
    <3> QED
        BY <3>2, <3>3
  <2> QED
      BY <2>4, <2>5
<1> QED
    BY <1>9, <1>10, <1>11 DEF CaseInv, CaseWillBeKnown

(* The server acts on a call.  A change of the case is made known, by the  *)
(* answer, or the answer is lost.                                          *)
LEMMA ServeKeepsInv == ASSUME CaseInv, NEW i \in DOMAIN calls, Serve(i) PROVE CaseInv'
<1> DEFINE c == calls[i]
           R == Result(c)
<1>1. PICK a \in {IF R = Refused THEN Refused ELSE "made", Failed} :
          /\ calls' = [calls EXCEPT ![i].answer = a]
          /\ \/ a # "made" /\ UNCHANGED <<case, crossed>>
             \/ R # Refused /\ case' = R /\ crossed' = (crossed \/ a = Failed)
    BY DEF Serve
<1>2. calls \in Seq(CaseCalls) /\ i \in 1..Len(calls) /\ c \in CaseCalls /\ a \in Answers /\ c.answer = None
    BY DEF Serve, CaseInv, CaseTypes, Answers
<1> DEFINE d == [c EXCEPT !.answer = a]
<1>3. d \in CaseCalls /\ d.kind = c.kind /\ d.what = c.what /\ d.from = c.from /\ d.answer = a
    BY <1>2, CallAnswered
<1>4. calls' = [calls EXCEPT ![i] = d]
    BY <1>1, <1>2
<1> HIDE DEF d
<1>5. /\ calls' \in Seq(CaseCalls) /\ DOMAIN calls' = DOMAIN calls
      /\ \A k \in DOMAIN calls : calls'[k] = IF k = i THEN d ELSE calls[k]
    BY <1>2, <1>3, <1>4, Replacement
<1>6. UNCHANGED <<detail, broken, editing, form, selected, people, busy, loads, place>>
    BY DEF Serve
<1>7. R # Refused => R \in CaseCopy \cup {Gone} /\ case \in CaseCopy
                     /\ (c.kind = "save" => R = [case EXCEPT !.fields = c.what])
  <2>1. ASSUME R # Refused PROVE Allowed /\ c.kind \in {"save", "unassign", "delete"}
    <3>1. ~Allowed => R = Refused
        BY DEF Result
    <3>2. c.kind = "assign" => R = Refused
        BY DEF Result
    <3> QED
        BY <1>2, <2>1, <3>1, <3>2, CallFields
  <2>2. Allowed => case \in CaseCopy
      BY DEF Allowed, CaseInv, CaseTypes
  <2>3. ASSUME Allowed, c.kind = "save" PROVE R = [case EXCEPT !.fields = c.what] /\ R \in CaseCopy
    <3>1. R = [case EXCEPT !.fields = c.what]
        BY <2>3 DEF Result
    <3>2. c.what \in Contents
        BY <1>2, <2>3, CallFields
    <3> QED
        BY <2>2, <2>3, <3>1, <3>2 DEF CaseCopy
  <2>4. ASSUME Allowed, c.kind = "unassign", R # Refused PROVE R \in CaseCopy
    <3>1. R = [case EXCEPT !.team = case.team \ {c.what}]
        BY <2>4 DEF Result
    <3> QED
        BY <2>2, <2>4, <3>1 DEF CaseCopy
  <2>5. Allowed /\ c.kind = "delete" => R = Gone
      BY DEF Result
  <2> QED
      BY <2>1, <2>2, <2>3, <2>4, <2>5
<1>8. case' \in CaseCopy \cup {Gone} /\ crossed' \in BOOLEAN
  <2>1. CASE a # "made" /\ UNCHANGED <<case, crossed>>
      BY <2>1 DEF CaseInv, CaseTypes
  <2>2. CASE R # Refused /\ case' = R /\ crossed' = (crossed \/ a = Failed)
      BY <1>7, <2>2
  <2> QED
      BY <1>1, <2>1, <2>2
<1>9. CaseTypes'
    BY <1>5, <1>6, <1>8 DEF CaseInv, CaseTypes
<1>10. ~crossed' => ~crossed
    BY <1>1
<1>11. ASSUME ~crossed' PROVE OneSave'
    BY <1>3, <1>5, <1>6, <1>10, <1>11 DEF CaseInv, OneSave
<1>12. Saving' <=> Saving
    BY <1>3, <1>5 DEF Saving
<1>13. None # "made" /\ Failed # "made" /\ Refused # "made"
    BY CaseAssumption
<1>14. ASSUME ~crossed', NothingToHear' PROVE LastLoadBringsIt' /\ PageShowsIt'
  <2>1. NothingToHear /\ OneSave /\ LastLoadBringsIt /\ PageShowsIt
    <3>1. NothingToHear
      <4> SUFFICES ASSUME NEW k \in DOMAIN calls, calls[k].answer = "made" PROVE calls[k].kind = "save"
          BY <1>6, <1>14 DEF NothingToHear
      <4>1. k # i
          BY <1>2, <1>13
      <4> QED
          BY <1>5, <1>14, <4>1 DEF NothingToHear
    <3> QED
        BY <1>10, <1>14, <3>1 DEF CaseInv, CaseWillBeKnown
  <2>2. CASE a # "made" /\ UNCHANGED case
    <3>1. LastLoadBringsIt'
        BY <1>6, <1>12, <2>1, <2>2 DEF LastLoadBringsIt
    <3>2. \A k \in DOMAIN calls : calls'[k].answer = "made" => k # i /\ calls'[k] = calls[k]
        BY <1>3, <1>5, <2>2
    <3>3. \A k \in DOMAIN calls : calls[k].answer = "made" => calls'[k].answer = "made"
        BY <1>2, <1>5, <1>13
    <3>4. PageShowsIt'
        BY <1>5, <1>6, <2>1, <2>2, <3>2, <3>3 DEF PageShowsIt
    <3> QED
        BY <3>1, <3>4
  <2>3. CASE a = "made" /\ R # Refused /\ case' = R
    <3>1. c.kind = "save"
        BY <1>3, <1>5, <1>14, <2>3 DEF NothingToHear
    <3>2. Saving'
        BY <1>3, <1>5, <3>1 DEF Saving
    <3>3. \A k \in DOMAIN calls : calls[k].answer # "made"
      <4> SUFFICES ASSUME NEW k \in DOMAIN calls, calls[k].answer = "made" PROVE FALSE
          OBVIOUS
      <4>1. calls[k].kind = "save"
          BY <2>1 DEF NothingToHear
      <4>2. k = i
          BY <2>1, <3>1, <4>1 DEF OneSave
      <4> QED
          BY <1>2, <1>13, <4>2
    <3>4. ASSUME loads = <<>>, ~broken, detail # None
          PROVE  [d.from EXCEPT !.fields = d.what] = case'
      <4>1. detail = case
          BY <2>1, <3>3, <3>4 DEF PageShowsIt
      <4>2. d.from = case
          BY <1>3, <2>1, <3>1, <4>1 DEF OneSave
      <4> QED
          BY <1>3, <1>7, <2>3, <3>1, <4>2
    <3>5. \A k \in DOMAIN calls' : calls'[k].answer = "made" => calls'[k] = d
        BY <1>5, <3>3
    <3>6. calls'[i].answer = "made" /\ i \in DOMAIN calls'
        BY <1>3, <1>5, <2>3
    <3>7. PageShowsIt'
        BY <1>6, <3>4, <3>5, <3>6 DEF PageShowsIt
    <3> QED
        BY <3>2, <3>7 DEF LastLoadBringsIt
  <2>4. a # "made" => a = Failed \/ R = Refused
      BY <1>1, <1>13
  <2>5. CASE R # Refused /\ case' = R /\ crossed' = (crossed \/ a = Failed)
    <3>1. a # Failed
        BY <1>14, <2>5
    <3>2. a = "made"
        BY <2>4, <2>5, <3>1
    <3> QED
        BY <2>3, <2>5, <3>2
  <2> QED
      BY <1>1, <2>2, <2>5
<1> QED
    BY <1>9, <1>11, <1>14 DEF CaseInv, CaseWillBeKnown

(* The calls that are left, once the page has heard of one.                *)
LEMMA CallsLeft ==
    ASSUME CaseInv, NEW i \in DOMAIN calls, calls' = RemoveAt(calls, i)
    PROVE  /\ calls' \in Seq(CaseCalls)
           /\ \A k \in DOMAIN calls' : \E o \in DOMAIN calls \ {i} : calls'[k] = calls[o]
           /\ \A o \in DOMAIN calls \ {i} : \E k \in DOMAIN calls' : calls'[k] = calls[o]
           /\ \A k, l \in DOMAIN calls' : \E o, p \in DOMAIN calls \ {i} :
                 calls'[k] = calls[o] /\ calls'[l] = calls[p] /\ (o = p => k = l)
<1>1. calls \in Seq(CaseCalls) /\ i \in DOMAIN calls
    BY DEF CaseInv, CaseTypes
<1>2. RemoveAt(calls, i) \in Seq(CaseCalls)
    BY <1>1, Remaining
<1>3. \A k \in DOMAIN RemoveAt(calls, i) : \E o \in DOMAIN calls \ {i} : RemoveAt(calls, i)[k] = calls[o]
    BY <1>1, Remaining
<1>4. \A o \in DOMAIN calls \ {i} : \E k \in DOMAIN RemoveAt(calls, i) : RemoveAt(calls, i)[k] = calls[o]
    BY <1>1, Remaining
<1>5. \A k, l \in DOMAIN RemoveAt(calls, i) : \E o, p \in DOMAIN calls \ {i} :
          RemoveAt(calls, i)[k] = calls[o] /\ RemoveAt(calls, i)[l] = calls[p] /\ (o = p => k = l)
    BY <1>1, RemainingApart
<1> QED
    BY <1>2, <1>3, <1>4, <1>5

(* A call that changed nothing, or was not the saving of an edit, is gone. *)
LEMMA OtherCallGone ==
    ASSUME CaseInv, NEW i \in DOMAIN calls, calls' = RemoveAt(calls, i), UNCHANGED <<detail, crossed>>,
           calls[i].kind # "save", ~crossed
    PROVE  OneSave' /\ (Saving' <=> Saving)
<1>1. OneSave
    BY DEF CaseInv
<1>2. OneSave'
  <2> SUFFICES ASSUME NEW k \in DOMAIN calls', calls'[k].kind = "save"
               PROVE  calls'[k].from = detail /\ \A l \in DOMAIN calls' : calls'[l].kind = "save" => l = k
      BY DEF OneSave
  <2>1. calls'[k].from = detail
    <3>1. PICK o \in DOMAIN calls \ {i} : calls'[k] = calls[o]
        BY CallsLeft
    <3> QED
        BY <1>1, <3>1 DEF OneSave
  <2>2. ASSUME NEW l \in DOMAIN calls', calls'[l].kind = "save" PROVE l = k
    <3>1. PICK o \in DOMAIN calls \ {i}, p \in DOMAIN calls \ {i} :
              calls'[k] = calls[o] /\ calls'[l] = calls[p] /\ (o = p => k = l)
        BY <2>2, CallsLeft
    <3>2. o = p
        BY <1>1, <2>2, <3>1 DEF OneSave
    <3> QED
        BY <3>1, <3>2
  <2> QED
      BY <2>1, <2>2
<1>3. Saving' <=> Saving
  <2>1. \A k \in DOMAIN calls' : \E o \in DOMAIN calls \ {i} : calls'[k] = calls[o]
      BY CallsLeft
  <2>2. \A o \in DOMAIN calls \ {i} : \E k \in DOMAIN calls' : calls'[k] = calls[o]
      BY CallsLeft
  <2> QED
      BY <2>1, <2>2 DEF Saving
<1> QED
    BY <1>2, <1>3

LEMMA UnansweredGone ==
    ASSUME CaseInv, NEW i \in DOMAIN calls, calls' = RemoveAt(calls, i),
           UNCHANGED <<detail, broken, loads, place, case, crossed>>,
           calls[i].kind # "save", calls[i].answer # "made", ~crossed
    PROVE  OneSave' /\ CaseWillBeKnown'
<1>1. OneSave' /\ (Saving' <=> Saving)
    BY OtherCallGone
<1>2. \A k \in DOMAIN calls' : \E o \in DOMAIN calls \ {i} : calls'[k] = calls[o]
    BY CallsLeft
<1>3. \A o \in DOMAIN calls \ {i} : \E k \in DOMAIN calls' : calls'[k] = calls[o]
    BY CallsLeft
<1>4. ASSUME NothingToHear' PROVE LastLoadBringsIt' /\ PageShowsIt'
  <2>1. NothingToHear
      BY <1>3, <1>4 DEF NothingToHear
  <2>2. LastLoadBringsIt /\ PageShowsIt
      BY <2>1 DEF CaseInv, CaseWillBeKnown
  <2>3. LastLoadBringsIt'
      BY <1>1, <2>2 DEF LastLoadBringsIt
  <2>4. (\A k \in DOMAIN calls' : calls'[k].answer # "made") => \A o \in DOMAIN calls : calls[o].answer # "made"
      BY <1>3
  <2>5. PageShowsIt'
      BY <1>2, <2>2, <2>4 DEF PageShowsIt
  <2> QED
      BY <2>3, <2>5
<1> QED
    BY <1>1, <1>4 DEF CaseWillBeKnown

LEMMA BusyAfter ==
    ASSUME CaseInv, NEW i \in DOMAIN calls, NEW kind, Over(i, kind)
    PROVE  busy' \subseteq {"save", "assign", "delete"}
BY DEF Over, CaseInv, CaseTypes

(* The page hears of its edit: the load that is awaited has yet to be read *)
(* or there is none, so what the page puts together is the case.           *)
LEMMA HearSaveKeepsInv == ASSUME CaseInv, NEW i \in DOMAIN calls, HearSave(i) PROVE CaseInv'
<1> DEFINE c == calls[i]
<1>1. /\ c.kind = "save" /\ calls' = RemoveAt(calls, i) /\ Over(i, "save")
      /\ c.answer # "made" => UNCHANGED <<detail, editing>>
      /\ c.answer = "made" => detail' = [c.from EXCEPT !.fields = c.what] /\ editing' = (editing /\ ~c.live)
      /\ UNCHANGED <<broken, form, selected, people, loads, place, case>>
    BY DEF HearSave
<1>2. crossed' = (crossed \/ \E j \in DOMAIN loads : loads[j] # None)
    BY DEF HearSave
<1>3. crossed' \in BOOLEAN
    BY <1>2
<1>4. ASSUME ~crossed' PROVE ~crossed /\ \A j \in DOMAIN loads : loads[j] = None
    BY <1>2, <1>4
<1>5. c \in CaseCalls
    BY DEF CaseInv, CaseTypes
<1>6. c.from \in CaseCopy /\ c.what \in Contents
    BY <1>1, <1>5, CallFields
<1> HIDE DEF c
<1>7. detail' \in CaseCopy \cup {None}
  <2>1. [c.from EXCEPT !.fields = c.what] \in CaseCopy
      BY <1>6 DEF CaseCopy
  <2> QED
      BY <1>1, <2>1 DEF CaseInv, CaseTypes
<1>8. editing' \in BOOLEAN /\ (editing' => editing)
  <2>1. CASE c.answer # "made"
      BY <1>1, <2>1 DEF CaseInv, CaseTypes
  <2>2. CASE c.answer = "made"
    <3>1. editing' = (editing /\ ~c.live)
        BY <1>1, <2>2
    <3> QED
        BY <3>1
  <2> QED
      BY <2>1, <2>2
<1>9. calls' \in Seq(CaseCalls) /\ busy' \subseteq {"save", "assign", "delete"}
    BY <1>1, CallsLeft, BusyAfter
<1>10. CaseTypes'
    BY <1>1, <1>3, <1>7, <1>8, <1>9 DEF CaseInv, CaseTypes
<1>11. ASSUME ~crossed' PROVE ~Saving'
  <2>1. \A o \in DOMAIN calls \ {i} : calls[o].kind # "save"
      BY <1>1, <1>4, <1>11 DEF CaseInv, OneSave, c
  <2>2. \A k \in DOMAIN calls' : \E o \in DOMAIN calls \ {i} : calls'[k] = calls[o]
      BY <1>1, CallsLeft
  <2> QED
      BY <2>1, <2>2 DEF Saving
<1>12. ASSUME ~crossed', NothingToHear' PROVE LastLoadBringsIt' /\ PageShowsIt'
  <2>1. \A o \in DOMAIN calls \ {i} : \E k \in DOMAIN calls' : calls'[k] = calls[o]
      BY <1>1, CallsLeft
  <2>2. NothingToHear
      BY <1>1, <1>12, <2>1 DEF NothingToHear, c
  <2>3. OneSave /\ PageShowsIt
      BY <1>4, <1>12, <2>2 DEF CaseInv, CaseWillBeKnown
  <2>4. \A k \in DOMAIN calls' : calls'[k].answer # "made"
      BY <1>11, <1>12 DEF NothingToHear, Saving
  <2>5. LastLoadBringsIt'
    <3>1. loads # <<>> => Len(loads) \in DOMAIN loads
        BY DEF CaseInv, CaseTypes
    <3> QED
        BY <1>1, <1>4, <1>12, <3>1 DEF LastLoadBringsIt
  <2>6. ASSUME loads = <<>>, ~broken, detail' # None PROVE detail' = case
    <3>1. c.from = detail /\ detail # None
        BY <1>1, <1>6, <2>3, CaseAssumption DEF OneSave, c
    <3>2. CASE c.answer = "made"
        BY <1>1, <2>3, <2>6, <3>1, <3>2 DEF PageShowsIt, c
    <3>3. CASE c.answer # "made"
      <4>1. \A o \in DOMAIN calls : calls[o].answer # "made"
          BY <2>1, <2>4, <3>3 DEF c
      <4>2. detail = case
          BY <2>3, <2>6, <3>1, <4>1 DEF PageShowsIt
      <4> QED
          BY <1>1, <3>3, <4>2
    <3> QED
        BY <3>2, <3>3
  <2>7. PageShowsIt'
      BY <1>1, <2>4, <2>6 DEF PageShowsIt
  <2> QED
      BY <2>5, <2>7
<1> QED
    BY <1>10, <1>11, <1>12 DEF CaseInv, CaseWillBeKnown, OneSave, Saving

LEMMA HearTeamKeepsInv == ASSUME CaseInv, NEW i \in DOMAIN calls, HearTeam(i) PROVE CaseInv'
<1> DEFINE L == CaseCopy \cup {None, Failed}
<1>1. /\ calls[i].kind # "save" /\ calls' = RemoveAt(calls, i)
      /\ calls[i].answer # "made" => UNCHANGED <<loads, selected>>
      /\ calls[i].answer = "made" => loads' = Append(loads, None)
      /\ UNCHANGED <<detail, broken, editing, form, people, place, case, crossed>>
    BY DEF HearTeam, Reload
<1>2. selected' \in {selected, None}
    BY DEF HearTeam
<1>3. busy' \subseteq {"save", "assign", "delete"}
  <2>1. CASE calls[i].kind = "assign"
      BY <2>1, BusyAfter DEF HearTeam
  <2>2. CASE calls[i].kind # "assign"
      BY <2>2 DEF HearTeam, CaseInv, CaseTypes
  <2> QED
      BY <2>1, <2>2
<1>4. calls' \in Seq(CaseCalls)
    BY <1>1, CallsLeft
<1>5. loads \in Seq(L) /\ None \in L
    BY DEF CaseInv, CaseTypes
<1> HIDE DEF L
<1>6. calls[i].answer = "made" =>
          /\ loads' \in Seq(L) /\ Len(loads') = Len(loads) + 1 /\ loads'[Len(loads) + 1] = None
    BY <1>1, <1>5, Extension
<1>7. loads' \in Seq(L)
    BY <1>1, <1>5, <1>6
<1>8. CaseTypes'
    BY <1>1, <1>2, <1>3, <1>4, <1>7 DEF CaseInv, CaseTypes, L
<1>9. ASSUME ~crossed' PROVE OneSave' /\ CaseWillBeKnown'
  <2>1. CASE calls[i].answer # "made"
      BY <1>1, <1>9, <2>1, UnansweredGone
  <2>2. CASE calls[i].answer = "made"
    <3>1. OneSave'
        BY <1>1, <1>9, OtherCallGone
    <3>2. loads' # <<>> /\ loads'[Len(loads')] = None
      <4>1. Len(loads) \in Nat /\ Len(loads') = Len(loads) + 1 /\ loads'[Len(loads) + 1] = None
          BY <1>5, <1>6, <2>2
      <4> QED
          BY <4>1
    <3>3. LastLoadBringsIt' /\ PageShowsIt'
        BY <3>2 DEF LastLoadBringsIt, PageShowsIt
    <3> QED
        BY <3>1, <3>3 DEF CaseWillBeKnown
  <2> QED
      BY <2>1, <2>2
<1> QED
    BY <1>8, <1>9 DEF CaseInv

LEMMA HearDeleteKeepsInv == ASSUME CaseInv, NEW i \in DOMAIN calls, HearDelete(i) PROVE CaseInv'
<1>1. /\ calls[i].kind # "save" /\ calls' = RemoveAt(calls, i)
      /\ calls[i].answer # "made" => UNCHANGED place
      /\ calls[i].answer = "made" => place' = "gone"
      /\ busy' \subseteq busy
      /\ UNCHANGED <<detail, broken, editing, form, selected, people, loads, case, crossed>>
    BY DEF HearDelete
<1>2. calls' \in Seq(CaseCalls)
    BY <1>1, CallsLeft
<1>3. CaseTypes'
    BY <1>1, <1>2 DEF CaseInv, CaseTypes
<1>4. ASSUME ~crossed' PROVE OneSave' /\ CaseWillBeKnown'
  <2>1. CASE calls[i].answer # "made"
      BY <1>1, <1>4, <2>1, UnansweredGone
  <2>2. CASE calls[i].answer = "made"
    <3>1. OneSave'
        BY <1>1, <1>4, OtherCallGone
    <3> QED
        BY <1>1, <2>2, <3>1 DEF CaseWillBeKnown, NothingToHear
  <2> QED
      BY <2>1, <2>2
<1> QED
    BY <1>3, <1>4 DEF CaseInv

LEMMA CaseStep == ASSUME CaseInv, [CaseNext]_caseVars PROVE CaseInv'
<1>1. CASE UNCHANGED caseVars
  <2>1. UNCHANGED <<detail, broken, editing, form, selected, people, busy, loads, calls, place, case, crossed>>
      BY <1>1 DEF caseVars
  <2> QED
      BY <2>1, EditingKeepsInv DEF CaseInv, CaseTypes
<1>2. CASE CaseNext
    BY <1>2, ReadCaseKeepsInv, TakeCaseKeepsInv, LoadPeopleKeepsInv, StartEditKeepsInv, CancelEditKeepsInv,
       SaveFieldsKeepsInv, AssignSelectedKeepsInv, DeleteKeepsInv, TypeFieldKeepsInv, SelectKeepsInv,
       UnassignKeepsInv, ServeKeepsInv, HearSaveKeepsInv, HearTeamKeepsInv, HearDeleteKeepsInv
    DEF CaseNext
<1> QED
    BY <1>1, <1>2

LEMMA CaseInvariance == CaseSpec => []CaseInv
<1>1. CaseInit => CaseInv
    BY CaseInitially
<1>2. CaseInv /\ [CaseNext]_caseVars => CaseInv'
    BY CaseStep
<1> QED
    BY <1>1, <1>2, PTL DEF CaseSpec

(* The page's copy is a whole case or none, and what is sent is typed in.  *)
THEOREM CaseTypeCorrect == CaseSpec => []CaseTypeOK
<1>1. CaseInv => CaseTypeOK
  <2> SUFFICES ASSUME CaseInv PROVE CaseTypeOK
      OBVIOUS
  <2>1. \A j \in DOMAIN calls : calls[j].answer \in Answers
      BY CallFields DEF CaseInv, CaseTypes
  <2>2. loads \in Seq({None, Failed} \cup CaseCopy)
    <3>1. CaseCopy \cup {None, Failed} = {None, Failed} \cup CaseCopy
        OBVIOUS
    <3> QED
        BY <3>1 DEF CaseInv, CaseTypes
  <2> QED
      BY <2>1, <2>2 DEF CaseInv, CaseTypes, CaseTypeOK, Answers
<1> QED
    BY <1>1, CaseInvariance, PTL

(* onSaved, refetch and onDeleted of cases/[id]/page.tsx leave the page    *)
(* with the case as it is: the copy an edit was sent from is still the     *)
(* page's, and a change of the team is followed by a load of its own.      *)
THEOREM SettledCases == CaseSpec => []SettledCaseIsCurrent
<1>1. CaseInv => SettledCaseIsCurrent
    BY DEF CaseInv, CaseWillBeKnown, NothingToHear, PageShowsIt, Usable, SettledCaseIsCurrent
<1> QED
    BY <1>1, CaseInvariance, PTL
-------------------------------------------------------------------------------
(* The four pages together: any of them at rest shows what the server      *)
(* holds, up to the overlaps and lost answers that each module names.      *)
THEOREM SettledPages == PagesSpec => []SettledPagesAreCurrent
BY SettledTables, ListsOfChosenCase, RowsNeverAhead, SettledCases, SettledPanels, PTL
DEF PagesSpec, SettledPagesAreCurrent
===============================================================================
