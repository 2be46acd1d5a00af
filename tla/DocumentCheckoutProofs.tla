------------------------- MODULE DocumentCheckoutProofs ------------------------
(***************************************************************************)
(* Proofs about DocumentCheckout, for any number of documents, users,      *)
(* requests and uploads.  The inductive invariant has four parts, each     *)
(* preserved by a lemma of its own:                                        *)
(*   TypeOK     every variable has its type;                               *)
(*   Chains     the rows of a document are numbered 1..n, n # 1;           *)
(*   Overtaking a request never knows more than the chain has, and one     *)
(*              that has inserted knows all of it, alone;                  *)
(*   Objects    every file named anywhere is stored, and named once.       *)
(***************************************************************************)
EXTENDS DocumentCheckout, TLAPS, Sequences, SequenceTheorems

IsChain(chain, n) ==
    /\ DOMAIN chain = 1..n
    /\ \A i \in 1..n : chain[i].prev = i - 1

Chains == \A d \in Documents : \E n \in Nat \ {1} : IsChain(versions[d], n)

Overtaking ==
    /\ \A s \in Sessions :
           /\ request[s].step \in {"upload", "insert"}
              => request[s].base <= Latest(request[s].doc) /\ request[s].base # 1
           /\ request[s].step \in {"point", "commit"}
              => request[s].base = Latest(request[s].doc)
    /\ \A s, t \in Sessions :
           /\ request[s].step \in {"point", "commit"}
           /\ request[t].step \in {"point", "commit"}
           /\ request[s].doc = request[t].doc
           => s = t

HasUploaded(s) == request[s].step \in {"insert", "point", "commit"}

Objects ==
    /\ \A d \in Documents :
           /\ Original \in stored[d]
           /\ filePath[d] \in stored[d]
           /\ Latest(d) = 0 => filePath[d] = Original
           /\ \A n \in DOMAIN versions[d] : versions[d][n].file \in stored[d]
           /\ \A n, i \in DOMAIN versions[d] :
                  versions[d][n].file = versions[d][i].file => n = i
    /\ \A s \in Sessions : HasUploaded(s) =>
           /\ request[s].upload \in stored[request[s].doc]
           /\ request[s].upload # Original
           /\ \A n \in DOMAIN versions[request[s].doc] :
                  versions[request[s].doc][n].file # request[s].upload
    /\ \A s, t \in Sessions :
           /\ HasUploaded(s) /\ HasUploaded(t)
           /\ request[s].doc = request[t].doc
           /\ request[s].upload = request[t].upload
           => s = t

IInv == TypeOK /\ Chains /\ Overtaking /\ Objects
-------------------------------------------------------------------------------
(* What ORDER BY version_number DESC LIMIT 1 reads from a chain.           *)
LEMMA NewestOfChain ==
    ASSUME NEW chain, NEW n \in Nat, IsChain(chain, n)
    PROVE  Newest(chain) = n
<1>1. CASE n = 0
    BY <1>1 DEF IsChain, Newest
<1>2. CASE n # 0
    <2>1. n \in DOMAIN chain /\ \A i \in DOMAIN chain : i <= n
        BY <1>2 DEF IsChain
    <2>2. ASSUME NEW k \in DOMAIN chain, \A i \in DOMAIN chain : i <= k
          PROVE  k = n
        <3>1. n <= k /\ k <= n
            BY <2>1, <2>2
        <3>2. k \in Nat
            BY DEF IsChain
        <3> QED
            BY <3>1, <3>2
    <2> QED
        BY <2>1, <2>2 DEF Newest
<1> QED
    BY <1>1, <1>2

LEMMA LatestType ==
    ASSUME Chains, NEW d \in Documents
    PROVE  Latest(d) \in Nat \ {1} /\ IsChain(versions[d], Latest(d))
BY NewestOfChain DEF Chains, Latest

(* A request between its first and its last statement has its type.        *)
LEMMA BusyRequest ==
    ASSUME TypeOK, NEW s \in Sessions, request[s].step # "idle"
    PROVE  request[s] \in Request
BY DEF TypeOK, Idle

LEMMA StillAllowedType ==
    ASSUME NEW s \in Sessions
    PROVE  StillAllowed(s) \in BOOLEAN
BY DEF StillAllowed, CanAccess

(* The chain a check-in commits when what it read is the latest version.   *)
LEMMA ExtendedChain ==
    ASSUME NEW chain, NEW n \in Nat \ {1}, NEW f \in Files, NEW orig \in Files,
           IsChain(chain, n), chain \in [1..n -> Row]
    PROVE  LET new == Extended(chain, n, f, orig)
               last == VersionSeen(n)
           IN  /\ IsChain(new, last + 1)
               /\ new \in [1..(last + 1) -> Row]
               /\ new[last + 1] = [file |-> f, prev |-> last]
               /\ n = 0 => new[1] = [file |-> orig, prev |-> 0]
               /\ \A i \in 1..n : new[i] = chain[i]
<1> DEFINE last == VersionSeen(n)
           new == Extended(chain, n, f, orig)
<1>1. last \in Nat /\ (n = 0 => last = 1) /\ (n # 0 => last = n)
    BY DEF VersionSeen
<1> HIDE DEF last
<1>2. 1..n \cup Inserts(n) = 1..(last + 1)
    BY <1>1 DEF Inserts
<1>3. new = [i \in 1..(last + 1) |->
                IF i = last + 1 THEN [file |-> f, prev |-> last]
                ELSE IF i = 1 /\ n = 0 THEN [file |-> orig, prev |-> 0]
                ELSE chain[i]]
    BY <1>2 DEF Extended, IsChain, last
<1>4. \A i \in 1..(last + 1) : i # last + 1 /\ ~(i = 1 /\ n = 0) => i \in 1..n
    BY <1>1
<1>5. [file |-> f, prev |-> last] \in Row /\ [file |-> orig, prev |-> 0] \in Row
    BY <1>1 DEF Row
<1>6. new \in [1..(last + 1) -> Row]
    BY <1>3, <1>4, <1>5
<1>7. new[last + 1] = [file |-> f, prev |-> last]
    BY <1>1, <1>3
<1>8. n = 0 => new[1] = [file |-> orig, prev |-> 0]
    BY <1>1, <1>3
<1>9. \A i \in 1..n : new[i] = chain[i]
    BY <1>1, <1>3
<1>10. IsChain(new, last + 1)
    <2>1. DOMAIN new = 1..(last + 1)
        BY <1>3
    <2>2. ASSUME NEW i \in 1..(last + 1)
          PROVE  new[i].prev = i - 1
        <3>1. CASE i = last + 1
            BY <1>1, <1>7, <3>1
        <3>2. CASE i = 1 /\ n = 0
            BY <1>8, <3>2
        <3>3. CASE i \in 1..n
            BY <1>9, <3>3 DEF IsChain
        <3> QED
            BY <1>4, <3>1, <3>2, <3>3
    <2> QED
        BY <2>1, <2>2 DEF IsChain
<1> QED
    BY <1>6, <1>7, <1>8, <1>9, <1>10 DEF last
-------------------------------------------------------------------------------
(* What a committing check-in reads and writes.                            *)
LEMMA CommitChain ==
    ASSUME TypeOK, Chains, Overtaking, Objects, NEW s \in Sessions, CommitCheckIn(s)
    PROVE  LET r    == request[s]
               last == VersionSeen(r.base)
           IN  /\ r \in Request
               /\ r.base = Latest(r.doc) /\ r.base \in Nat \ {1} /\ IsChain(versions[r.doc], r.base)
               /\ r.upload \in Files
               /\ last \in Nat /\ last # 0 /\ last + 1 \in Nat
               /\ \A d \in Documents : d # r.doc => versions'[d] = versions[d]
               /\ r.base < last + 1 /\ last + 1 # 1
               /\ IsChain(versions'[r.doc], last + 1)
               /\ versions'[r.doc] \in [1..(last + 1) -> Row]
               /\ versions'[r.doc][last + 1] = [file |-> r.upload, prev |-> last]
               /\ r.base = 0 => versions'[r.doc][1] = [file |-> filePath[r.doc], prev |-> 0]
               /\ \A i \in 1..r.base : versions'[r.doc][i] = versions[r.doc][i]
               /\ DOMAIN versions' = Documents
<1> DEFINE r == request[s]
           last == VersionSeen(r.base)
<1>1. r.step = "commit" /\ r \in Request
    BY BusyRequest DEF CommitCheckIn
<1>2. r.doc \in Documents
    BY <1>1 DEF Request
<1>3. r.base = Latest(r.doc) /\ r.base \in Nat \ {1} /\ IsChain(versions[r.doc], r.base)
    BY <1>1, <1>2, LatestType DEF Overtaking
<1>4. r.upload \in Files
    BY <1>1, <1>2 DEF Objects, HasUploaded, TypeOK
<1>5. versions' = [versions EXCEPT ![r.doc] =
                      Extended(versions[r.doc], r.base, r.upload, filePath[r.doc])]
    BY DEF CommitCheckIn
<1>6. versions[r.doc] \in [1..r.base -> Row] /\ filePath[r.doc] \in Files
    BY <1>2, <1>3 DEF TypeOK, IsChain
<1>7. DOMAIN versions = Documents
    BY DEF TypeOK
<1>8. versions'[r.doc] = Extended(versions[r.doc], r.base, r.upload, filePath[r.doc])
    BY <1>2, <1>5, <1>7
<1>9. last \in Nat /\ last # 0 /\ last + 1 \in Nat /\ r.base < last + 1 /\ last + 1 # 1
    BY <1>3 DEF VersionSeen
<1>11. /\ IsChain(versions'[r.doc], last + 1)
       /\ versions'[r.doc] \in [1..(last + 1) -> Row]
       /\ versions'[r.doc][last + 1] = [file |-> r.upload, prev |-> last]
       /\ r.base = 0 => versions'[r.doc][1] = [file |-> filePath[r.doc], prev |-> 0]
       /\ \A i \in 1..r.base : versions'[r.doc][i] = versions[r.doc][i]
    BY <1>3, <1>4, <1>6, <1>8, ExtendedChain
<1>12. \A d \in Documents : d # r.doc => versions'[d] = versions[d]
    BY <1>5, <1>7
<1>13. DOMAIN versions' = Documents
    BY <1>5, <1>7
<1> HIDE DEF last
<1> QED
    BY <1>1, <1>3, <1>4, <1>9, <1>11, <1>12, <1>13 DEF last

LEMMA TypeStep ==
    ASSUME TypeOK, Chains, Overtaking, Objects, [Next]_vars
    PROVE  TypeOK'
<1> USE DocumentsAssumption, TimeoutAssumption
<1>1. ASSUME NEW s \in Sessions, NEW u \in Users, NEW d \in Documents, Begin(s, u, d)
      PROVE  TypeOK'
    <2>1. PICK step \in Steps : Enter(s, u, d, step)
        BY <1>1 DEF Begin, BeginCheckOut, BeginRelease, BeginCheckIn, Steps
    <2>2. [Idle EXCEPT !.step = step, !.user = u, !.doc = d] \in Request
        BY DEF Idle, Request
    <2> QED
        BY <2>1, <2>2 DEF Enter, TypeOK, lockVars, chainVars, userVars
<1>2. ASSUME NEW s \in Sessions, TakeLock(s)
      PROVE  TypeOK'
    <2>1. request[s] \in Request
        BY <1>2, BusyRequest DEF TakeLock
    <2>2. request[s].user \in Users /\ request[s].doc \in Documents
        BY <2>1 DEF Request
    <2>3. VersionSeen(Latest(request[s].doc)) \in Nat
        BY <2>2, LatestType DEF VersionSeen
    <2>4. 0 \in 0..MaxAge
        BY TimeoutAssumption
    <2>5. CASE StillAllowed(s) /\ holder[request[s].doc] = None
        BY <1>2, <2>2, <2>3, <2>4, <2>5
        DEF TakeLock, Finish, TypeOK, chainVars, userVars
    <2>6. CASE ~(StillAllowed(s) /\ holder[request[s].doc] = None)
        BY <1>2, <2>6 DEF TakeLock, Finish, TypeOK, lockVars, chainVars, userVars
    <2> QED
        BY <2>5, <2>6
<1>3. ASSUME NEW s \in Sessions, DropLock(s), request[s] \in Request
      PROVE  /\ holder' \in [Documents -> Users \cup {None}]
             /\ age' \in [Documents -> 0..MaxAge]
             /\ working' = working
    <2>1. request[s].doc \in Documents /\ 0 \in 0..MaxAge
        BY <1>3, TimeoutAssumption DEF Request
    <2>2. CASE StillAllowed(s)
        BY <1>3, <2>1, <2>2 DEF DropLock, TypeOK
    <2>3. CASE ~StillAllowed(s)
        BY <1>3, <2>3 DEF DropLock, TypeOK
    <2> QED
        BY <2>2, <2>3
<1>4. ASSUME NEW s \in Sessions, FinishRelease(s)
      PROVE  TypeOK'
    <2>1. request[s] \in Request
        BY <1>4, BusyRequest DEF FinishRelease
    <2> QED
        BY <1>3, <1>4, <2>1 DEF FinishRelease, Finish, TypeOK, chainVars, userVars
<1>5. ASSUME NEW s \in Sessions, ReadLatest(s)
      PROVE  TypeOK'
    <2>1. request[s] \in Request
        BY <1>5, BusyRequest DEF ReadLatest
    <2>2. (IF StillAllowed(s) THEN Latest(request[s].doc) ELSE 0) \in Nat
        BY <2>1, LatestType DEF Request
    <2>3. request'[s] \in Request
        BY <1>5, <2>1, <2>2 DEF ReadLatest, Request, Steps, TypeOK
    <2> QED
        BY <1>5, <2>3 DEF ReadLatest, TypeOK, lockVars, chainVars, userVars
<1>6. ASSUME NEW s \in Sessions, Upload(s)
      PROVE  TypeOK'
    <2>1. request[s] \in Request
        BY <1>6, BusyRequest DEF Upload
    <2>2. PICK f \in Files :
              /\ Store(request[s].doc, f)
              /\ request' = [request EXCEPT ![s].step = "insert", ![s].upload = f]
        BY <1>6 DEF Upload
    <2>3. request'[s] \in Request
        BY <2>1, <2>2 DEF Request, Steps, TypeOK
    <2>4. stored' \in [Documents -> SUBSET Files]
        BY <2>2 DEF Store, TypeOK
    <2> QED
        BY <1>6, <2>2, <2>3, <2>4 DEF Upload, TypeOK, lockVars, chainVars, userVars
<1>7. ASSUME NEW s \in Sessions, UploadFails(s)
      PROVE  TypeOK'
    <2>1. stored' \in [Documents -> SUBSET Files]
        BY <1>7 DEF UploadFails, Store, TypeOK
    <2> QED
        BY <1>7, <2>1 DEF UploadFails, Finish, TypeOK, lockVars, chainVars, userVars
<1>8. ASSUME NEW s \in Sessions, InsertVersion(s)
      PROVE  TypeOK'
    <2>1. request[s] \in Request
        BY <1>8, BusyRequest DEF InsertVersion
    <2>2. [request[s] EXCEPT !.step = "point"] \in Request
        BY <2>1 DEF Request, Steps
    <2>3. request' \in [Sessions -> Request \cup {Idle}]
        BY <1>8, <2>2 DEF InsertVersion, Goto, Finish, TypeOK
    <2> QED
        BY <1>8, <2>3 DEF InsertVersion, TypeOK, lockVars, chainVars, userVars
<1>9. ASSUME NEW s \in Sessions, PointDocument(s)
      PROVE  TypeOK'
    <2>1. request[s] \in Request
        BY <1>9, BusyRequest DEF PointDocument
    <2>2. request'[s] \in Request
        BY <1>9, <2>1, StillAllowedType DEF PointDocument, Request, Steps, TypeOK
    <2> QED
        BY <1>9, <2>2 DEF PointDocument, TypeOK, lockVars, chainVars, userVars
<1>10. ASSUME NEW s \in Sessions, CommitCheckIn(s)
       PROVE  TypeOK'
    <2> DEFINE d == request[s].doc
    <2>1. request[s] \in Request /\ d \in Documents /\ request[s].upload \in Files
        BY <1>10, CommitChain DEF Request
    <2>2. filePath' \in [Documents -> Files]
        BY <1>10, <2>1 DEF CommitCheckIn, TypeOK
    <2>3. DOMAIN versions' = Documents
        BY <1>10, CommitChain
    <2>4. \A e \in Documents : /\ DOMAIN versions'[e] \in SUBSET Nat
                              /\ versions'[e] \in [DOMAIN versions'[e] -> Row]
        <3>1. PICK k \in Nat : versions'[d] \in [1..k -> Row]
            BY <1>10, CommitChain
        <3>2. \A e \in Documents : e # d => versions'[e] = versions[e]
            BY <1>10, CommitChain
        <3>3. DOMAIN versions'[d] = 1..k /\ 1..k \in SUBSET Nat
            BY <3>1
        <3>4. \A e \in Documents : /\ DOMAIN versions[e] \in SUBSET Nat
                                  /\ versions[e] \in [DOMAIN versions[e] -> Row]
            BY DEF TypeOK
        <3> QED
            BY <3>1, <3>2, <3>3, <3>4
    <2>5. request' \in [Sessions -> Request \cup {Idle}]
        BY <1>10 DEF CommitCheckIn, Finish, TypeOK
    <2> QED
        BY <1>3, <1>10, <2>1, <2>2, <2>3, <2>4, <2>5 DEF CommitCheckIn, TypeOK, userVars
<1>11. ASSUME NEW s \in Sessions, Crash(s)
       PROVE  TypeOK'
    BY <1>11 DEF Crash, Finish, TypeOK, lockVars, chainVars, userVars
<1>12. CASE ReleaseStale
    BY <1>12 DEF ReleaseStale, TypeOK, chainVars, userVars
<1>13. CASE Tick
    BY <1>13 DEF Tick, TypeOK, chainVars, userVars
<1>14. ASSUME NEW u \in Users, SetStatus(u) \/ \E c \in Cases : Unassign(u, c)
       PROVE  TypeOK'
    BY <1>14 DEF SetStatus, Unassign, TypeOK, lockVars, chainVars
<1>15. CASE UNCHANGED vars
    BY <1>15 DEF vars, TypeOK, lockVars, chainVars, userVars
<1> QED
    BY <1>1, <1>2, <1>4, <1>5, <1>6, <1>7, <1>8, <1>9, <1>10, <1>11, <1>12,
       <1>13, <1>14, <1>15 DEF Next, Continue
-------------------------------------------------------------------------------
(* Only a committing check-in changes a chain, and it makes it longer.     *)
LEMMA ChainsStep ==
    ASSUME TypeOK, Chains, Overtaking, Objects, [Next]_vars
    PROVE  /\ Chains'
           /\ \A d \in Documents : Latest(d) <= Latest(d)'
<1>1. ASSUME NEW s \in Sessions, CommitCheckIn(s)
      PROVE  /\ Chains'
             /\ \A d \in Documents : Latest(d) <= Latest(d)'
    <2>1. PICK d \in Documents, n \in Nat : d = request[s].doc /\ n = request[s].base
        BY <1>1, CommitChain DEF Request
    <2>2. PICK k \in Nat : k # 1 /\ n < k /\ IsChain(versions'[d], k)
        BY <1>1, <2>1, CommitChain
    <2>3. Latest(d) = n
        BY <1>1, <2>1, CommitChain
    <2>4. Latest(d)' = k
        BY <2>2, NewestOfChain DEF Latest
    <2>5. \A e \in Documents : e # d => versions'[e] = versions[e]
        BY <1>1, <2>1, CommitChain
    <2>6. \A e \in Documents : e # d => Latest(e)' = Latest(e) /\ Latest(e) \in Nat
        BY <2>5, LatestType DEF Latest
    <2>7. Chains'
        BY <2>2, <2>5 DEF Chains
    <2> QED
        BY <2>2, <2>3, <2>4, <2>6, <2>7
<1>2. CASE versions' = versions
    <2>1. \A d \in Documents : Latest(d)' = Latest(d) /\ Latest(d) \in Nat
        BY <1>2, LatestType DEF Latest
    <2> QED
        BY <1>2, <2>1 DEF Chains
<1>3. (\E s \in Sessions : CommitCheckIn(s)) \/ versions' = versions
    BY DEF Next, vars, Continue, Begin, BeginCheckOut, BeginRelease, BeginCheckIn,
           Enter, TakeLock, FinishRelease, ReadLatest, Upload, UploadFails,
           InsertVersion, PointDocument, Crash, ReleaseStale, Tick, SetStatus,
           Unassign, chainVars, lockVars, userVars
<1> QED
    BY <1>1, <1>2, <1>3
-------------------------------------------------------------------------------
(* A step that leaves the chains alone and moves at most session s keeps   *)
(* Overtaking if it does for what it made of s.                            *)
LEMMA OvertakingFrame ==
    ASSUME TypeOK, Overtaking, versions' = versions, NEW s \in Sessions,
           \A t \in Sessions : t # s => request'[t] = request[t],
           request'[s].step \in {"upload", "insert"}
               => request'[s].base <= Latest(request'[s].doc) /\ request'[s].base # 1,
           request'[s].step \in {"point", "commit"}
               => /\ request'[s].base = Latest(request'[s].doc)
                  /\ \A t \in InTransaction(request'[s].doc) : t = s
    PROVE  Overtaking'
<1>1. \A d : Latest(d)' = Latest(d)
    BY DEF Latest
<1>2. ASSUME NEW t \in Sessions
      PROVE  /\ request'[t].step \in {"upload", "insert"}
                => request'[t].base <= Latest(request'[t].doc) /\ request'[t].base # 1
             /\ request'[t].step \in {"point", "commit"}
                => request'[t].base = Latest(request'[t].doc)
    BY DEF Overtaking
<1>3. ASSUME NEW t \in Sessions, NEW v \in Sessions,
             request'[t].step \in {"point", "commit"},
             request'[v].step \in {"point", "commit"},
             request'[t].doc = request'[v].doc
      PROVE  t = v
    BY <1>3 DEF Overtaking, InTransaction
<1>4. \A t \in Sessions : Latest(request[t].doc)' = Latest(request'[t].doc)
    BY DEF Latest
<1> QED
    BY <1>2, <1>3, <1>4 DEF Overtaking

LEMMA OvertakingStep ==
    ASSUME TypeOK, Chains, Overtaking, Objects, [Next]_vars
    PROVE  Overtaking'
<1>1. ASSUME NEW s \in Sessions, NEW u \in Users, NEW d \in Documents, Begin(s, u, d)
      PROVE  Overtaking'
    <2>1. PICK step \in {"takeLock", "release", "readLatest"} : Enter(s, u, d, step)
        BY <1>1 DEF Begin, BeginCheckOut, BeginRelease, BeginCheckIn
    <2>2. /\ request'[s].step = step
          /\ \A t \in Sessions : t # s => request'[t] = request[t]
          /\ versions' = versions
        BY <2>1 DEF Enter, Idle, TypeOK, chainVars
    <2> QED
        BY <2>2, OvertakingFrame
<1>2. ASSUME NEW s \in Sessions, Finish(s), versions' = versions
      PROVE  Overtaking'
    <2>1. /\ request'[s].step = "idle"
          /\ \A t \in Sessions : t # s => request'[t] = request[t]
        BY <1>2 DEF Finish, Idle, TypeOK
    <2> QED
        BY <1>2, <2>1, OvertakingFrame
<1>3. ASSUME NEW s \in Sessions, ReadLatest(s)
      PROVE  Overtaking'
    <2>1. request[s] \in Request
        BY <1>3, BusyRequest DEF ReadLatest
    <2>2. /\ request'[s].step = "upload" /\ request'[s].doc = request[s].doc
          /\ request'[s].base \in {0, Latest(request[s].doc)}
          /\ \A t \in Sessions : t # s => request'[t] = request[t]
          /\ versions' = versions
        BY <1>3, <2>1 DEF ReadLatest, Request, TypeOK, chainVars
    <2>3. Latest(request[s].doc) \in Nat \ {1}
        BY <2>1, LatestType DEF Request
    <2> QED
        BY <2>2, <2>3, OvertakingFrame
<1>4. ASSUME NEW s \in Sessions, Upload(s)
      PROVE  Overtaking'
    <2>1. request[s] \in Request /\ request[s].step = "upload"
        BY <1>4, BusyRequest DEF Upload
    <2>2. /\ request'[s].step = "insert" /\ request'[s].doc = request[s].doc
          /\ request'[s].base = request[s].base
          /\ \A t \in Sessions : t # s => request'[t] = request[t]
          /\ versions' = versions
        BY <1>4, <2>1 DEF Upload, Request, TypeOK, chainVars
    <2>3. request[s].base <= Latest(request[s].doc) /\ request[s].base # 1
        BY <2>1 DEF Overtaking
    <2> QED
        BY <2>2, <2>3, OvertakingFrame
<1>5. ASSUME NEW s \in Sessions, InsertVersion(s)
      PROVE  Overtaking'
    <2> DEFINE b == request[s].base
               d == request[s].doc
    <2>1. request[s] \in Request /\ request[s].step = "insert" /\ d \in Documents /\ b \in Nat
        BY <1>5, BusyRequest DEF InsertVersion, Request
    <2>2. CASE Goto(s, "point") /\ Inserts(b) \cap DOMAIN versions[d] = {}
        <3>1. b <= Latest(d) /\ b # 1
            BY <2>1 DEF Overtaking
        <3>2. DOMAIN versions[d] = 1..Latest(d) /\ Latest(d) \in Nat
            BY <2>1, LatestType DEF IsChain
        <3>3. b = Latest(d)
            BY <2>1, <2>2, <3>1, <3>2 DEF Inserts
        <3>4. InTransaction(d) = {}
            <4>1. ASSUME NEW t \in InTransaction(d)
                  PROVE  FALSE
                <5>1. request[t].base = b
                    BY <3>3 DEF InTransaction, Overtaking
                <5>2. Inserts(request[t].base) \cap Inserts(b) = {}
                    BY <1>5 DEF InsertVersion
                <5>3. Inserts(b) # {}
                    BY DEF Inserts
                <5> QED
                    BY <5>1, <5>2, <5>3
            <4> QED
                BY <4>1
        <3>5. /\ request'[s].step = "point" /\ request'[s].doc = d /\ request'[s].base = b
              /\ \A t \in Sessions : t # s => request'[t] = request[t]
              /\ versions' = versions
            BY <1>5, <2>1, <2>2 DEF InsertVersion, Goto, Request, TypeOK, chainVars
        <3> QED
            BY <3>3, <3>4, <3>5, OvertakingFrame
    <2>3. CASE Finish(s)
        BY <1>2, <1>5, <2>3 DEF InsertVersion, chainVars
    <2> QED
        BY <1>5, <2>2, <2>3 DEF InsertVersion
<1>6. ASSUME NEW s \in Sessions, PointDocument(s)
      PROVE  Overtaking'
    <2>1. request[s] \in Request /\ request[s].step = "point"
        BY <1>6, BusyRequest DEF PointDocument
    <2>2. /\ request'[s].step = "commit" /\ request'[s].doc = request[s].doc
          /\ request'[s].base = request[s].base
          /\ \A t \in Sessions : t # s => request'[t] = request[t]
          /\ versions' = versions
        BY <1>6, <2>1 DEF PointDocument, Request, TypeOK, chainVars
    <2>3. request[s].base = Latest(request[s].doc)
        BY <2>1 DEF Overtaking
    <2>4. \A t \in InTransaction(request[s].doc) : t = s
        BY <2>1 DEF Overtaking, InTransaction
    <2> QED
        BY <2>2, <2>3, <2>4, OvertakingFrame
<1>7. ASSUME NEW s \in Sessions, CommitCheckIn(s)
      PROVE  Overtaking'
    <2>1. /\ request'[s].step = "idle"
          /\ \A t \in Sessions : t # s => request'[t] = request[t]
        BY <1>7 DEF CommitCheckIn, Finish, Idle, TypeOK
    <2>2. request[s].step = "commit"
        BY <1>7 DEF CommitCheckIn
    <2>3. \A d \in Documents : d # request[s].doc => versions'[d] = versions[d]
        BY <1>7, CommitChain
    <2>4. ASSUME NEW t \in Sessions, t # s, request[t].step # "idle"
          PROVE  /\ Latest(request[t].doc) \in Nat
                 /\ Newest(versions'[request[t].doc]) \in Nat
                 /\ Latest(request[t].doc) <= Newest(versions'[request[t].doc])
                 /\ request[t].base \in Nat
                 /\ request[t].doc # request[s].doc
                    => Newest(versions'[request[t].doc]) = Latest(request[t].doc)
        <3>1. PICK d \in Documents : d = request[t].doc /\ request[t].base \in Nat
            BY <2>4, BusyRequest DEF Request
        <3>2. Latest(d) <= Latest(d)' /\ Latest(d) \in Nat /\ Chains'
            BY ChainsStep, LatestType
        <3>3. Newest(versions'[d]) \in Nat
            BY <3>2, NewestOfChain DEF Chains
        <3> QED
            BY <2>3, <3>1, <3>2, <3>3 DEF Latest
    <2>5. ASSUME NEW t \in Sessions
          PROVE  /\ request'[t].step \in {"upload", "insert"}
                    => /\ request'[t].base <= Newest(versions'[request'[t].doc])
                       /\ request'[t].base # 1
                 /\ request'[t].step \in {"point", "commit"}
                    => request'[t].base = Newest(versions'[request'[t].doc])
        <3>1. CASE t = s
            BY <2>1, <3>1
        <3>2. CASE t # s /\ request[t].step \in {"upload", "insert"}
            BY <2>1, <2>4, <3>2 DEF Overtaking
        <3>3. CASE t # s /\ request[t].step \in {"point", "commit"}
            BY <2>1, <2>2, <2>4, <3>3 DEF Overtaking
        <3> QED
            BY <2>1, <3>1, <3>2, <3>3
    <2>6. ASSUME NEW t \in Sessions, NEW v \in Sessions,
                 request'[t].step \in {"point", "commit"},
                 request'[v].step \in {"point", "commit"},
                 request'[t].doc = request'[v].doc
          PROVE  t = v
        BY <2>1, <2>6 DEF Overtaking
    <2> QED
        BY <2>5, <2>6 DEF Overtaking, Latest
<1>8. CASE versions' = versions /\ request' = request
    BY <1>8 DEF Overtaking, Latest
<1>9. \/ \E s \in Sessions :
             \/ \E u \in Users, d \in Documents : Begin(s, u, d)
             \/ Finish(s) /\ versions' = versions
             \/ ReadLatest(s)
             \/ Upload(s)
             \/ InsertVersion(s)
             \/ PointDocument(s)
             \/ CommitCheckIn(s)
      \/ versions' = versions /\ request' = request
    BY DEF Next, vars, Continue, TakeLock, FinishRelease, UploadFails, Crash,
           ReleaseStale, Tick, SetStatus, Unassign, chainVars, lockVars, userVars
<1> QED
    BY <1>1, <1>2, <1>3, <1>4, <1>5, <1>6, <1>7, <1>8, <1>9
-------------------------------------------------------------------------------
(* A step that leaves the chains alone, forgets no object and moves at most *)
(* session s keeps Objects when s keeps its upload or stored a fresh one.   *)
LEMMA ObjectsFrame ==
    ASSUME TypeOK, Objects, versions' = versions, filePath' = filePath,
           \A d \in Documents : stored[d] \subseteq stored'[d],
           NEW s \in Sessions, \A t \in Sessions : t # s => request'[t] = request[t],
           HasUploaded(s)' =>
               LET d == request'[s].doc
                   f == request'[s].upload
               IN  /\ d \in Documents /\ f \in stored'[d]
                   /\ \/ HasUploaded(s) /\ d = request[s].doc /\ f = request[s].upload
                      \/ f \notin stored[d]
    PROVE  Objects'
<1>1. ASSUME NEW d \in Documents
      PROVE  /\ Original \in stored'[d]
             /\ filePath'[d] \in stored'[d]
             /\ Latest(d)' = 0 => filePath'[d] = Original
             /\ \A n \in DOMAIN versions'[d] : versions'[d][n].file \in stored'[d]
             /\ \A n, i \in DOMAIN versions'[d] :
                    versions'[d][n].file = versions'[d][i].file => n = i
    BY DEF Objects, Latest
<1>2. ASSUME NEW t \in Sessions, HasUploaded(t)
      PROVE  request[t].doc \in Documents
    BY <1>2, BusyRequest DEF HasUploaded, Request
<1>3. ASSUME NEW t \in Sessions, HasUploaded(t)'
      PROVE  /\ request'[t].upload \in stored'[request'[t].doc]
             /\ request'[t].upload # Original
             /\ \A n \in DOMAIN versions'[request'[t].doc] :
                    versions'[request'[t].doc][n].file # request'[t].upload
    <2>1. CASE t = s
        BY <1>3, <2>1 DEF Objects
    <2>2. CASE t # s
        BY <1>2, <1>3, <2>2 DEF Objects, HasUploaded
    <2> QED
        BY <2>1, <2>2
<1>4. ASSUME NEW t \in Sessions, NEW v \in Sessions, HasUploaded(t)', HasUploaded(v)',
             request'[t].doc = request'[v].doc, request'[t].upload = request'[v].upload
      PROVE  t = v
    <2>1. \A w \in Sessions : w # s /\ HasUploaded(w)' =>
              /\ HasUploaded(w) /\ request'[w] = request[w]
              /\ request[w].upload \in stored[request[w].doc]
        BY DEF Objects, HasUploaded
    <2> QED
        BY <1>4, <2>1 DEF Objects
<1> QED
    BY <1>1, <1>3, <1>4 DEF Objects

LEMMA ObjectsStep ==
    ASSUME TypeOK, Chains, Overtaking, Objects, [Next]_vars
    PROVE  Objects'
<1>1. ASSUME NEW s \in Sessions, NEW u \in Users, NEW d \in Documents, Begin(s, u, d)
      PROVE  Objects'
    <2>1. PICK step \in {"takeLock", "release", "readLatest"} : Enter(s, u, d, step)
        BY <1>1 DEF Begin, BeginCheckOut, BeginRelease, BeginCheckIn
    <2>2. /\ request'[s].step = step
          /\ \A t \in Sessions : t # s => request'[t] = request[t]
          /\ versions' = versions /\ filePath' = filePath /\ stored' = stored
        BY <2>1 DEF Enter, Idle, TypeOK, chainVars
    <2> QED
        BY <2>2, ObjectsFrame DEF HasUploaded
<1>2. ASSUME NEW s \in Sessions, Finish(s), versions' = versions, filePath' = filePath,
             \A d \in Documents : stored[d] \subseteq stored'[d]
      PROVE  Objects'
    <2>1. /\ request'[s].step = "idle"
          /\ \A t \in Sessions : t # s => request'[t] = request[t]
        BY <1>2 DEF Finish, Idle, TypeOK
    <2> QED
        BY <1>2, <2>1, ObjectsFrame DEF HasUploaded
<1>3. ASSUME NEW s \in Sessions, ReadLatest(s)
      PROVE  Objects'
    <2>1. /\ request'[s].step = "upload"
          /\ \A t \in Sessions : t # s => request'[t] = request[t]
          /\ versions' = versions /\ filePath' = filePath /\ stored' = stored
        BY <1>3, BusyRequest DEF ReadLatest, Request, TypeOK, chainVars
    <2> QED
        BY <2>1, ObjectsFrame DEF HasUploaded
<1>4. ASSUME NEW s \in Sessions, UploadFails(s)
      PROVE  Objects'
    <2>1. \A d \in Documents : stored[d] \subseteq stored'[d]
        BY <1>4 DEF UploadFails, Store, TypeOK
    <2> QED
        BY <1>2, <1>4, <2>1 DEF UploadFails, chainVars
<1>5. ASSUME NEW s \in Sessions, Upload(s)
      PROVE  Objects'
    <2>1. request[s] \in Request /\ request[s].doc \in Documents
        BY <1>5, BusyRequest DEF Upload, Request
    <2>2. PICK f \in Files :
              /\ Store(request[s].doc, f)
              /\ request' = [request EXCEPT ![s].step = "insert", ![s].upload = f]
        BY <1>5 DEF Upload
    <2>3. /\ request'[s].doc = request[s].doc /\ request'[s].upload = f
          /\ \A t \in Sessions : t # s => request'[t] = request[t]
        BY <2>1, <2>2 DEF Request, TypeOK
    <2>4. /\ \A d \in Documents : stored[d] \subseteq stored'[d]
          /\ f \in stored'[request[s].doc] /\ f \notin stored[request[s].doc]
        BY <2>1, <2>2 DEF Store, TypeOK
    <2>5. versions' = versions /\ filePath' = filePath
        BY <1>5 DEF Upload, chainVars
    <2> QED
        BY <2>1, <2>3, <2>4, <2>5, ObjectsFrame
<1>6. ASSUME NEW s \in Sessions, InsertVersion(s) \/ PointDocument(s)
      PROVE  Objects'
    <2>1. request[s] \in Request /\ HasUploaded(s) /\ request[s].doc \in Documents
        BY <1>6, BusyRequest DEF InsertVersion, PointDocument, HasUploaded, Request
    <2>2. versions' = versions /\ filePath' = filePath /\ stored' = stored
        BY <1>6 DEF InsertVersion, PointDocument, chainVars
    <2>3. request[s].upload \in stored[request[s].doc]
        BY <2>1 DEF Objects
    <2>4. CASE Finish(s)
        BY <1>2, <2>2, <2>4
    <2>5. CASE ~Finish(s)
        <3>1. /\ request'[s].doc = request[s].doc /\ request'[s].upload = request[s].upload
              /\ \A t \in Sessions : t # s => request'[t] = request[t]
            BY <1>6, <2>1, <2>5 DEF InsertVersion, PointDocument, Goto, Request, TypeOK
        <3> QED
            BY <2>1, <2>2, <2>3, <3>1, ObjectsFrame
    <2> QED
        BY <2>4, <2>5
<1>7. ASSUME NEW s \in Sessions, CommitCheckIn(s)
      PROVE  Objects'
    <2>1. PICK d \in Documents, f \in Files, n \in Nat :
              /\ d = request[s].doc /\ f = request[s].upload /\ n = request[s].base
              /\ n # 1 /\ n = Latest(d) /\ IsChain(versions[d], n)
        BY <1>7, CommitChain DEF Request
    <2>2. PICK k \in Nat \ {0, 1} :
              /\ k = VersionSeen(n) + 1 /\ IsChain(versions'[d], k)
              /\ versions'[d][k].file = f
              /\ n = 0 => versions'[d][1].file = filePath[d]
              /\ \A i \in 1..n : versions'[d][i] = versions[d][i]
        <3>1. IsChain(versions'[d], VersionSeen(n) + 1)
            BY <1>7, <2>1, CommitChain
        <3>2. versions'[d][VersionSeen(n) + 1] = [file |-> f, prev |-> VersionSeen(n)]
            BY <1>7, <2>1, CommitChain
        <3>3. n = 0 => versions'[d][1] = [file |-> filePath[d], prev |-> 0]
            BY <1>7, <2>1, CommitChain
        <3>4. \A i \in 1..n : versions'[d][i] = versions[d][i]
            BY <1>7, <2>1, CommitChain
        <3>5. VersionSeen(n) + 1 \in Nat \ {0, 1}
            BY DEF VersionSeen
        <3> QED
            BY <3>1, <3>2, <3>3, <3>4, <3>5
    <2>3. \A i \in 1..k : i = k \/ (n = 0 /\ i = 1) \/ i \in 1..n
        <3>1. n = 0 => k = 2
            BY <2>2 DEF VersionSeen
        <3>2. n # 0 => k = n + 1
            BY <2>2 DEF VersionSeen
        <3> QED
            BY <3>1, <3>2
    <2>4. DOMAIN versions[d] = 1..n /\ DOMAIN versions'[d] = 1..k
        BY <2>1, <2>2 DEF IsChain
    <2>5. Latest(d)' = k
        BY <2>2, NewestOfChain DEF Latest
    <2>6. HasUploaded(s)
        BY <1>7 DEF CommitCheckIn, HasUploaded
    <2>7. f \in stored[d] /\ f # Original /\ \A i \in 1..n : versions[d][i].file # f
        BY <2>1, <2>4, <2>6 DEF Objects
    <2>8. /\ Original \in stored[d] /\ filePath[d] \in stored[d]
          /\ n = 0 => filePath[d] = Original
          /\ \A i \in 1..n : versions[d][i].file \in stored[d]
          /\ \A i, j \in 1..n : versions[d][i].file = versions[d][j].file => i = j
        BY <2>1, <2>4 DEF Objects
    <2>9. /\ stored' = stored
          /\ filePath'[d] \in {f, filePath[d]}
          /\ \A e \in Documents : e # d => filePath'[e] = filePath[e]
        BY <1>7, <2>1 DEF CommitCheckIn, TypeOK
    <2>10. /\ \A i \in 1..k : versions'[d][i].file \in stored[d]
           /\ \A i, j \in 1..k : versions'[d][i].file = versions'[d][j].file => i = j
        BY <2>2, <2>3, <2>7, <2>8
    <2>11. \A e \in Documents : e # d => versions'[e] = versions[e]
        BY <1>7, <2>1, CommitChain
    <2>12. \A e \in Documents : e # d => Latest(e)' = Latest(e)
        BY <2>11 DEF Latest
    <2>13. ASSUME NEW e \in Documents
           PROVE  /\ Original \in stored'[e]
                  /\ filePath'[e] \in stored'[e]
                  /\ Latest(e)' = 0 => filePath'[e] = Original
                  /\ \A i \in DOMAIN versions'[e] : versions'[e][i].file \in stored'[e]
                  /\ \A i, j \in DOMAIN versions'[e] :
                         versions'[e][i].file = versions'[e][j].file => i = j
        <3>1. CASE e = d
            BY <2>2, <2>4, <2>5, <2>7, <2>8, <2>9, <2>10, <3>1
        <3>2. CASE e # d
            BY <2>9, <2>11, <2>12, <3>2 DEF Objects
        <3> QED
            BY <3>1, <3>2
    <2>14. \A t \in Sessions : HasUploaded(t)' =>
               t # s /\ HasUploaded(t) /\ request'[t] = request[t]
        BY <1>7 DEF CommitCheckIn, Finish, Idle, TypeOK, HasUploaded
    <2>15. ASSUME NEW t \in Sessions, HasUploaded(t)'
           PROVE  /\ request'[t].upload \in stored'[request'[t].doc]
                  /\ request'[t].upload # Original
                  /\ \A i \in DOMAIN versions'[request'[t].doc] :
                         versions'[request'[t].doc][i].file # request'[t].upload
        <3>1. PICK e \in Documents : e = request[t].doc
            BY <2>14, <2>15, BusyRequest DEF HasUploaded, Request
        <3>2. /\ request[t].upload \in stored[e] /\ request[t].upload # Original
              /\ \A i \in DOMAIN versions[e] : versions[e][i].file # request[t].upload
            BY <2>14, <2>15, <3>1 DEF Objects
        <3>3. CASE e = d
            <4>1. request[t].upload # f
                BY <2>1, <2>6, <2>14, <2>15, <3>1, <3>3 DEF Objects
            <4> QED
                <5>1. /\ request'[t].doc = d /\ request'[t].upload = request[t].upload
                      /\ stored' = stored
                    BY <2>9, <2>14, <2>15, <3>1, <3>3
                <5>2. \A i \in 1..k : versions'[d][i].file # request[t].upload
                    <6>1. \A i \in 1..n : versions'[d][i].file # request[t].upload
                        BY <2>2, <2>4, <3>2, <3>3
                    <6>2. n = 0 => versions'[d][1].file # request[t].upload
                        BY <2>2, <2>8, <3>2
                    <6> QED
                        BY <2>2, <2>3, <4>1, <6>1, <6>2
                <5> QED
                    BY <2>4, <3>2, <3>3, <5>1, <5>2
        <3>4. CASE e # d
            BY <2>9, <2>11, <2>14, <2>15, <3>1, <3>2, <3>4
        <3> QED
            BY <3>3, <3>4
    <2>16. ASSUME NEW t \in Sessions, NEW v \in Sessions, HasUploaded(t)', HasUploaded(v)',
                  request'[t].doc = request'[v].doc,
                  request'[t].upload = request'[v].upload
           PROVE  t = v
        BY <2>14, <2>16 DEF Objects
    <2> QED
        BY <2>13, <2>15, <2>16 DEF Objects
<1>8. CASE versions' = versions /\ filePath' = filePath /\ stored' = stored /\ request' = request
    BY <1>8 DEF Objects, HasUploaded, Latest
<1>9. \/ \E s \in Sessions :
             \/ \E u \in Users, d \in Documents : Begin(s, u, d)
             \/ Finish(s) /\ versions' = versions /\ filePath' = filePath /\ stored' = stored
             \/ ReadLatest(s)
             \/ UploadFails(s)
             \/ Upload(s)
             \/ InsertVersion(s) \/ PointDocument(s)
             \/ CommitCheckIn(s)
      \/ versions' = versions /\ filePath' = filePath /\ stored' = stored /\ request' = request
    BY DEF Next, vars, Continue, TakeLock, FinishRelease, Crash, ReleaseStale, Tick,
           SetStatus, Unassign, chainVars, lockVars, userVars
<1> QED
    BY <1>1, <1>2, <1>3, <1>4, <1>5, <1>6, <1>7, <1>8, <1>9
-------------------------------------------------------------------------------
(* IInv is inductive: it holds when the system starts, and every step of   *)
(* DocumentCheckout keeps it.                                              *)
LEMMA InitInvariant ==
    ASSUME Init
    PROVE  IInv
<1> USE DocumentsAssumption, TimeoutAssumption
<1>1. TypeOK
    BY DEF Init, TypeOK
<1>2. \A d \in Documents : IsChain(versions[d], 0)
    BY DEF Init, IsChain
<1>3. Chains
    BY <1>2 DEF Chains
<1>4. Overtaking
    BY DEF Init, Overtaking, Idle
<1>5. Objects
    BY DEF Init, Objects, HasUploaded, Idle
<1> QED
    BY <1>1, <1>3, <1>4, <1>5 DEF IInv

THEOREM Invariance == Spec => []IInv
<1>1. Init => IInv
    BY InitInvariant
<1>2. IInv /\ [Next]_vars => IInv'
    BY TypeStep, ChainsStep, OvertakingStep, ObjectsStep DEF IInv
<1> QED
    BY <1>1, <1>2, PTL DEF Spec

(* Every variable keeps its type, in particular a request that starts holds *)
(* nothing of the one its session served before.                            *)
THEOREM TypeCorrect == Spec => []TypeOK
<1>1. IInv => TypeOK
    BY DEF IInv
<1> QED
    BY <1>1, Invariance, PTL

(* However many check-ins of a document run at once, and whatever crashes,  *)
(* its rows in document_versions form one chain 1, 2, ..., n.               *)
THEOREM ChainIsLinear == Spec => []ChainLinear
<1>1. IInv => ChainLinear
    BY LatestType DEF IInv, ChainLinear, IsChain
<1> QED
    BY <1>1, Invariance, PTL

(* No version is ever without its object in storage, and no object is the   *)
(* file of two versions.                                                    *)
THEOREM VersionsAreKept == Spec => []VersionsKept
<1>1. IInv => VersionsKept
    BY DEF IInv, Objects, VersionsKept
<1> QED
    BY <1>1, Invariance, PTL

(* The unique constraint on version numbers is all the mutual exclusion     *)
(* checkin_document has, and it is enough: a transaction that has inserted  *)
(* is alone on its document and appends to what it read.                    *)
THEOREM TransactionAppends == Spec => []OpenTransactionAppends
<1>1. IInv => OpenTransactionAppends
    BY DEF IInv, Overtaking, OpenTransactionAppends, InTransaction
<1> QED
    BY <1>1, Invariance, PTL
-------------------------------------------------------------------------------
(* DocumentCheckout implements VersionHistory, and documents.file_path     *)
(* names the latest version as long as assignments stand.  Both rest on    *)
(* the invariant above and on two more:                                    *)
(*   Points  documents.file_path names a file of the document's history;   *)
(*   Follows while all assignments stand, the last one, and a check-in     *)
(*           that commits has moved it.                                    *)
Points == \A d \in Documents :
    Latest(d) # 0 => \E n \in 1..Latest(d) : versions[d][n].file = filePath[d]

Follows == assigned = Users \X Cases =>
    /\ LatestIsCurrent
    /\ \A s \in Sessions : request[s].step = "commit" => request[s].pointed

(* The history that a chain of rows stands for.                            *)
FilesOfChain(chain) ==
    IF Newest(chain) = 0 THEN <<Original>> ELSE [n \in 1..Newest(chain) |-> chain[n].file]

Distinct(h) == \A i, j \in 1..Len(h) : h[i] = h[j] => i = j
-------------------------------------------------------------------------------
(* Histories as sequences.                                                 *)
LEMMA ChainHistory ==
    ASSUME NEW chain, NEW n \in Nat \ {1}, IsChain(chain, n), chain \in [1..n -> Row]
    PROVE  /\ FilesOfChain(chain) \in Seq(Files)
           /\ Len(FilesOfChain(chain)) = VersionSeen(n)
           /\ n = 0 => FilesOfChain(chain)[1] = Original
           /\ \A i \in 1..n : FilesOfChain(chain)[i] = chain[i].file
<1>1. Newest(chain) = n
    BY NewestOfChain
<1>2. CASE n = 0
    BY <1>1, <1>2, DocumentsAssumption DEF FilesOfChain, VersionSeen
<1>3. CASE n # 0
  <2>1. FilesOfChain(chain) = [i \in 1..n |-> chain[i].file]
      BY <1>1, <1>3 DEF FilesOfChain
  <2>2. \A i \in 1..n : chain[i].file \in Files
      BY DEF Row
  <2> QED
      BY <1>3, <2>1, <2>2 DEF VersionSeen
<1> QED
    BY <1>2, <1>3

LEMMA Appended ==
    ASSUME NEW h \in Seq(Files), NEW f \in Files, NEW g \in Seq(Files), Len(g) = Len(h) + 1,
           g[Len(h) + 1] = f, \A i \in 1..Len(h) : g[i] = h[i]
    PROVE  g = Append(h, f)
<1>1. Append(h, f) \in Seq(Files) /\ Len(Append(h, f)) = Len(h) + 1
    OBVIOUS
<1>2. \A i \in 1..Len(g) : g[i] = Append(h, f)[i]
    OBVIOUS
<1> QED
    BY <1>1, <1>2, SeqEqual

LEMMA ChosenIndex ==
    ASSUME NEW h \in Seq(Files), Distinct(h), NEW i \in 1..Len(h)
    PROVE  (CHOOSE j \in DOMAIN h : h[j] = h[i]) = i
<1>1. DOMAIN h = 1..Len(h)
    OBVIOUS
<1> QED
    BY <1>1 DEF Distinct

(* A history that holds the file documents.file_path names.                *)
LEMMA HistoryFacts ==
    ASSUME IInv, Points, NEW d \in Documents
    PROVE  /\ HistoryOf(d) = FilesOfChain(versions[d])
           /\ HistoryOf(d) \in Seq(Files)
           /\ Len(HistoryOf(d)) = VersionSeen(Latest(d))
           /\ Latest(d) = 0 => HistoryOf(d)[1] = Original
           /\ \A i \in 1..Latest(d) : HistoryOf(d)[i] = versions[d][i].file
           /\ Distinct(HistoryOf(d))
           /\ CurrentOf(d) \in 1..Len(HistoryOf(d))
           /\ HistoryOf(d)[CurrentOf(d)] = filePath[d]
<1>1. HistoryOf(d) = FilesOfChain(versions[d])
    BY DEF HistoryOf, FilesOfChain, Latest
<1>2. Latest(d) \in Nat \ {1} /\ IsChain(versions[d], Latest(d)) /\ versions[d] \in [1..Latest(d) -> Row]
    BY LatestType DEF IInv, TypeOK, IsChain
<1>3. /\ HistoryOf(d) \in Seq(Files)
      /\ Len(HistoryOf(d)) = VersionSeen(Latest(d))
      /\ Latest(d) = 0 => HistoryOf(d)[1] = Original
      /\ \A i \in 1..Latest(d) : HistoryOf(d)[i] = versions[d][i].file
    BY <1>1, <1>2, ChainHistory
<1>4. Distinct(HistoryOf(d))
    BY <1>2, <1>3 DEF Distinct, IInv, Objects, VersionSeen, IsChain
<1>5. PICK i \in 1..Len(HistoryOf(d)) : HistoryOf(d)[i] = filePath[d]
  <2>1. CASE Latest(d) = 0
      BY <1>3, <2>1 DEF VersionSeen, IInv, Objects
  <2>2. CASE Latest(d) # 0
      BY <1>3, <2>2 DEF VersionSeen, Points
  <2> QED
      BY <2>1, <2>2
<1>6. CurrentOf(d) = i
    BY <1>3, <1>4, <1>5, ChosenIndex DEF CurrentOf
<1> QED
    BY <1>1, <1>3, <1>4, <1>5, <1>6
-------------------------------------------------------------------------------
(* What a check-in does to the history of its document and to the others.  *)
LEMMA CommitAppends ==
    ASSUME IInv, Points, NEW s \in Sessions, CommitCheckIn(s)
    PROVE  \E d \in Documents, f \in Files :
               /\ f \notin {HistoryOf(d)[i] : i \in DOMAIN HistoryOf(d)}
               /\ HistoryOf(d)' = Append(HistoryOf(d), f)
               /\ CurrentOf(d)' \in {CurrentOf(d), Len(HistoryOf(d)) + 1}
               /\ \A e \in Documents \ {d} : HistoryOf(e)' = HistoryOf(e) /\ CurrentOf(e)' = CurrentOf(e)
               /\ Latest(d)' # 0 => \E n \in 1..Latest(d)' : versions'[d][n].file = filePath'[d]
               /\ request[s].pointed => filePath'[d] = versions'[d][Latest(d)'].file
               /\ Latest(d)' # 0
               /\ \A e \in Documents \ {d} : versions'[e] = versions[e] /\ filePath'[e] = filePath[e]
<1>1. PICK d \in Documents, f \in Files, b \in Nat \ {1} :
          d = request[s].doc /\ f = request[s].upload /\ b = request[s].base
    BY CommitChain DEF IInv, Request
<1>2. PICK last \in Nat \ {0} : last = VersionSeen(b)
    BY DEF VersionSeen
<1>3. /\ b = Latest(d)
      /\ \A e \in Documents : e # d => versions'[e] = versions[e]
      /\ IsChain(versions'[d], last + 1) /\ versions'[d] \in [1..(last + 1) -> Row]
      /\ versions'[d][last + 1].file = f
      /\ b = 0 => versions'[d][1].file = filePath[d]
      /\ \A i \in 1..b : versions'[d][i] = versions[d][i]
  <2>1. /\ versions'[d][last + 1] = [file |-> f, prev |-> last]
        /\ b = 0 => versions'[d][1] = [file |-> filePath[d], prev |-> 0]
      BY <1>1, <1>2, CommitChain DEF IInv
  <2> QED
      BY <1>1, <1>2, <2>1, CommitChain DEF IInv
<1>4. Latest(d)' = last + 1
    BY <1>3, NewestOfChain DEF Latest
<1>5. /\ filePath \in [Documents -> Files]
      /\ filePath' = IF request[s].pointed THEN [filePath EXCEPT ![d] = f] ELSE filePath
    BY <1>1 DEF CommitCheckIn, IInv, TypeOK
<1> DEFINE h == HistoryOf(d)
           g == FilesOfChain(versions'[d])
<1>6. /\ h \in Seq(Files) /\ Len(h) = last /\ Distinct(h)
      /\ CurrentOf(d) \in 1..Len(h) /\ h[CurrentOf(d)] = filePath[d]
      /\ b = 0 => h[1] = Original
      /\ \A i \in 1..b : h[i] = versions[d][i].file
    BY <1>2, <1>3, HistoryFacts
<1>7. g = HistoryOf(d)'
    BY DEF HistoryOf, FilesOfChain, Latest
<1>8. /\ g \in Seq(Files) /\ Len(g) = last + 1
      /\ \A i \in 1..(last + 1) : g[i] = versions'[d][i].file
  <2>1. last + 1 \in Nat \ {1} /\ VersionSeen(last + 1) = last + 1
      BY DEF VersionSeen
  <2> QED
      BY <1>3, <2>1, ChainHistory
<1>9. b = 0 => last = 1 /\ filePath[d] = Original
    BY <1>1, <1>2, <1>3 DEF VersionSeen, IInv, Objects
<1>10. b # 0 => last = b
    BY <1>2 DEF VersionSeen
<1>11. \A i \in 1..last : g[i] = h[i]
  <2> HIDE DEF g, h
  <2>1. CASE b = 0
    <3>1. g[1] = Original /\ h[1] = Original
        BY <1>3, <1>6, <1>8, <1>9, <2>1
    <3> QED
        BY <1>9, <2>1, <3>1
  <2>2. CASE b # 0
    <3> SUFFICES ASSUME NEW i \in 1..last PROVE g[i] = h[i]
        OBVIOUS
    <3>1. i \in 1..b /\ i \in 1..(last + 1)
        BY <1>10, <2>2
    <3>2. g[i] = versions'[d][i].file
        BY <1>8, <3>1
    <3>3. versions'[d][i] = versions[d][i]
        BY <1>3, <3>1
    <3>4. h[i] = versions[d][i].file
        BY <1>6, <3>1
    <3> QED
        BY <3>2, <3>3, <3>4
  <2> QED
      BY <2>1, <2>2
<1>12. g[last + 1] = f
    BY <1>3, <1>8
<1>13. \A i \in 1..last : h[i] # f
  <2>1. f # Original /\ \A n \in DOMAIN versions[d] : versions[d][n].file # f
      BY <1>1 DEF CommitCheckIn, IInv, Objects, HasUploaded
  <2>2. DOMAIN versions[d] = 1..b
      BY <1>3, LatestType DEF IInv, IsChain
  <2> QED
      BY <1>6, <1>9, <1>10, <2>1, <2>2
<1> HIDE DEF g, h
<1>14. g = Append(h, f)
    BY <1>6, <1>8, <1>11, <1>12, Appended
<1>15. Distinct(g)
    BY <1>6, <1>8, <1>11, <1>12, <1>13 DEF Distinct
<1>16. CurrentOf(d)' = CHOOSE j \in DOMAIN g : g[j] = filePath'[d]
    BY <1>7 DEF CurrentOf
<1>17. CurrentOf(d)' \in {CurrentOf(d), Len(h) + 1}
  <2>1. CASE filePath'[d] = f
    <3>1. CurrentOf(d)' = last + 1
        BY <1>8, <1>12, <1>15, <1>16, <2>1, ChosenIndex
    <3> QED
        BY <1>6, <3>1
  <2>2. CASE filePath'[d] = filePath[d]
    <3>1. g[CurrentOf(d)] = filePath[d] /\ CurrentOf(d) \in 1..Len(g)
        BY <1>6, <1>8, <1>11
    <3>2. CurrentOf(d)' = CurrentOf(d)
        BY <1>8, <1>15, <1>16, <2>2, <3>1, ChosenIndex
    <3> QED
        BY <3>2
  <2> QED
      BY <1>5, <2>1, <2>2
<1>18. \A e \in Documents \ {d} : versions'[e] = versions[e] /\ filePath'[e] = filePath[e]
    BY <1>3, <1>5
<1>19. \A e \in Documents \ {d} : HistoryOf(e)' = HistoryOf(e) /\ CurrentOf(e)' = CurrentOf(e)
    BY <1>18 DEF HistoryOf, CurrentOf, Latest
<1>20. \E n \in 1..(last + 1) : versions'[d][n].file = filePath'[d]
    BY <1>3, <1>5, <1>6, <1>8, <1>11
<1>21. request[s].pointed => filePath'[d] = versions'[d][last + 1].file
    BY <1>3, <1>5
<1>22. f \notin {HistoryOf(d)[i] : i \in DOMAIN HistoryOf(d)}
    BY <1>6, <1>13 DEF h
<1>23. HistoryOf(d)' = Append(HistoryOf(d), f) /\ CurrentOf(d)' \in {CurrentOf(d), Len(HistoryOf(d)) + 1}
    BY <1>7, <1>14, <1>17 DEF h
<1>24. /\ Latest(d)' # 0
       /\ Latest(d)' # 0 => \E n \in 1..Latest(d)' : versions'[d][n].file = filePath'[d]
       /\ request[s].pointed => filePath'[d] = versions'[d][Latest(d)'].file
    BY <1>4, <1>20, <1>21
<1> QED
    BY <1>18, <1>19, <1>22, <1>23, <1>24
-------------------------------------------------------------------------------
(* Only a committing check-in moves chains and documents.file_path.        *)
LEMMA OthersLeaveChains ==
    ASSUME [Next]_vars
    PROVE  (\E s \in Sessions : CommitCheckIn(s)) \/ UNCHANGED <<versions, filePath>>
<1>1. ASSUME NEW s \in Sessions, NEW u \in Users, NEW d \in Documents, Begin(s, u, d)
      PROVE  UNCHANGED <<versions, filePath>>
    BY <1>1 DEF Begin, BeginCheckOut, BeginRelease, BeginCheckIn, Enter, chainVars, lockVars, userVars
<1>2. ASSUME NEW s \in Sessions, Continue(s), ~CommitCheckIn(s)
      PROVE  UNCHANGED <<versions, filePath>>
    BY <1>2 DEF Continue, TakeLock, FinishRelease, ReadLatest, Upload, UploadFails,
       InsertVersion, PointDocument, chainVars, lockVars, userVars
<1>3. ASSUME NEW s \in Sessions, Crash(s)
      PROVE  UNCHANGED <<versions, filePath>>
    BY <1>3 DEF Crash, chainVars, lockVars, userVars
<1>4. ReleaseStale \/ Tick \/ (\E u \in Users : SetStatus(u) \/ \E c \in Cases : Unassign(u, c))
          => UNCHANGED <<versions, filePath>>
    BY DEF ReleaseStale, Tick, SetStatus, Unassign, chainVars, lockVars, userVars
<1>5. UNCHANGED vars => UNCHANGED <<versions, filePath>>
    BY DEF vars, chainVars
<1> QED
    BY <1>1, <1>2, <1>3, <1>4, <1>5 DEF Next

LEMMA PointsStep ==
    ASSUME IInv, Points, [Next]_vars
    PROVE  Points'
<1>1. CASE UNCHANGED <<versions, filePath>>
    BY <1>1 DEF Points, Latest
<1>2. ASSUME NEW s \in Sessions, CommitCheckIn(s)
      PROVE  Points'
  <2>1. PICK d \in Documents :
            /\ \E n \in 1..Latest(d)' : versions'[d][n].file = filePath'[d]
            /\ \A e \in Documents \ {d} : versions'[e] = versions[e] /\ filePath'[e] = filePath[e]
      BY <1>2, CommitAppends
  <2>2. \A e \in Documents \ {d} : Latest(e)' = Latest(e)
      BY <2>1 DEF Latest
  <2> QED
      BY <2>1, <2>2 DEF Points
<1> QED
    BY <1>1, <1>2, OthersLeaveChains

(* Assignments only end, and while all of them stand a check-in is still   *)
(* allowed what it was allowed when it began.                              *)
LEMMA FollowsStep ==
    ASSUME IInv, Points, Follows, [Next]_vars
    PROVE  Follows'
<1> SUFFICES ASSUME assigned' = Users \X Cases
             PROVE  /\ LatestIsCurrent'
                    /\ \A s \in Sessions : request'[s].step = "commit" => request'[s].pointed
    BY DEF Follows
<1>1. assigned = Users \X Cases
  <2>1. ASSUME NEW u \in Users, NEW c \in Cases, Unassign(u, c)
        PROVE  FALSE
      BY <2>1 DEF Unassign
  <2>2. \/ UNCHANGED assigned
        \/ \E u \in Users, c \in Cases : Unassign(u, c)
      BY DEF Next, vars, Continue, Begin, BeginCheckOut, BeginRelease, BeginCheckIn,
             Enter, TakeLock, FinishRelease, ReadLatest, Upload, UploadFails,
             InsertVersion, PointDocument, CommitCheckIn, Crash, ReleaseStale, Tick, SetStatus, userVars
  <2> QED
      BY <2>1, <2>2
<1>2. LatestIsCurrent'
  <2>1. CASE UNCHANGED <<versions, filePath>>
      BY <1>1, <2>1 DEF Follows, LatestIsCurrent, Latest
  <2>2. ASSUME NEW s \in Sessions, CommitCheckIn(s)
        PROVE  LatestIsCurrent'
    <3>1. request[s].pointed
        BY <1>1, <2>2 DEF Follows, CommitCheckIn
    <3>2. PICK d \in Documents :
              /\ filePath'[d] = versions'[d][Latest(d)'].file /\ Latest(d)' # 0
              /\ \A e \in Documents \ {d} : versions'[e] = versions[e] /\ filePath'[e] = filePath[e]
        BY <2>2, <3>1, CommitAppends
    <3>3. \A e \in Documents \ {d} : Latest(e)' = Latest(e)
        BY <3>2 DEF Latest
    <3> QED
        BY <1>1, <3>2, <3>3 DEF Follows, LatestIsCurrent
  <2> QED
      BY <2>1, <2>2, OthersLeaveChains
<1>3. ASSUME NEW s \in Sessions, request'[s].step = "commit"
      PROVE  request'[s].pointed
  <2>1. CASE request'[s] = request[s]
      BY <1>1, <1>3, <2>1 DEF Follows
  <2>2. CASE PointDocument(s)
    <3>1. request[s] \in Request
        BY <2>2, BusyRequest DEF PointDocument, IInv
    <3>2. request[s].user \in Users /\ CaseOf[request[s].doc] \in Cases
        BY <3>1, DocumentsAssumption DEF Request
    <3>3. StillAllowed(s)
        BY <1>1, <3>2 DEF StillAllowed, CanAccess
    <3> QED
        BY <2>2, <3>1, <3>3 DEF PointDocument, IInv, TypeOK
  <2>3. request'[s] = request[s] \/ PointDocument(s)
    <3>1. request \in [Sessions -> Request \cup {Idle}] /\ request'[s] # Idle
      <4>1. request \in [Sessions -> Request \cup {Idle}]
          BY DEF IInv, TypeOK
      <4>2. Idle.step = "idle"
          BY DEF Idle
      <4> QED
          BY <1>3, <4>1, <4>2
    <3>2. ASSUME NEW t \in Sessions, NEW u \in Users, NEW d \in Documents, Begin(t, u, d)
          PROVE  request'[s] = request[s]
        BY <1>3, <3>1, <3>2 DEF Begin, BeginCheckOut, BeginRelease, BeginCheckIn, Enter, Idle
    <3>3. ASSUME NEW t \in Sessions, TakeLock(t) \/ FinishRelease(t) \/ UploadFails(t) \/ CommitCheckIn(t) \/ Crash(t)
          PROVE  request'[s] = request[s]
        BY <3>1, <3>3 DEF TakeLock, FinishRelease, UploadFails, CommitCheckIn, Crash, Finish
    <3>4. ASSUME NEW t \in Sessions, ReadLatest(t) \/ Upload(t) \/ InsertVersion(t)
          PROVE  request'[s] = request[s]
      <4>0. request[t] \in Request /\ (s # t => request'[s] = request[s])
        <5>1. request[t].step # "idle"
            BY <3>4 DEF ReadLatest, Upload, InsertVersion
        <5> QED
            BY <3>1, <3>4, <5>1, BusyRequest DEF ReadLatest, Upload, InsertVersion, Goto, Finish, IInv
      <4>1. ReadLatest(t) => request'[t].step = "upload"
          BY <3>1, <4>0 DEF ReadLatest, Request
      <4>2. Upload(t) => request'[t].step = "insert"
          BY <3>1, <4>0 DEF Upload, Request
      <4>3. InsertVersion(t) => request'[t].step \in {"point", "idle"}
          BY <3>1, <4>0 DEF InsertVersion, Goto, Finish, Idle, Request
      <4> QED
          BY <1>3, <3>4, <4>0, <4>1, <4>2, <4>3
    <3>5. ASSUME NEW t \in Sessions, PointDocument(t)
          PROVE  request'[s] = request[s] \/ PointDocument(s)
        BY <3>1, <3>5 DEF PointDocument
    <3>6. CASE ReleaseStale \/ Tick \/ (\E u \in Users : SetStatus(u) \/ \E c \in Cases : Unassign(u, c))
        BY <3>6 DEF ReleaseStale, Tick, SetStatus, Unassign
    <3> QED
        BY <3>2, <3>3, <3>4, <3>5, <3>6 DEF Next, Continue, vars
  <2> QED
      BY <2>1, <2>2, <2>3
<1> QED
    BY <1>2, <1>3

LEMMA InitFollows == Init => Points /\ Follows
<1> SUFFICES ASSUME Init PROVE Points /\ Follows
    OBVIOUS
<1>1. \A d \in Documents : Latest(d) = 0
    BY DEF Init, Latest, Newest
<1> QED
    BY <1>1 DEF Init, Points, Follows, LatestIsCurrent, Idle

LEMMA FollowsAlways == Spec => [](IInv /\ Points /\ Follows)
<1>1. IInv /\ Points /\ Follows /\ [Next]_vars => (Points /\ Follows)'
    BY PointsStep, FollowsStep
<1> QED
    BY <1>1, InitFollows, Invariance, PTL DEF Spec
-------------------------------------------------------------------------------
(* "documents row always points at the latest version" (dms.py,            *)
(* checkin_document), as long as no assignment to a case ends.             *)
THEOREM LatestWhileAssigned == Spec => []CurrentWhileAssigned
<1>1. Follows => CurrentWhileAssigned
    BY DEF Follows, CurrentWhileAssigned
<1> QED
    BY <1>1, FollowsAlways, PTL

(* Whatever requests interleave, die or are refused (dms.py, 0022): the    *)
(* history of a document grows by one fresh file at its end, and           *)
(* documents.file_path stays or moves on to that file.                     *)
THEOREM HistoryIsImplemented == Spec => ImplementsHistory
<1>1. Init => History!Init
  <2> SUFFICES ASSUME Init PROVE History!Init
      OBVIOUS
  <2>1. \A d \in Documents : HistoryOf(d) = <<Original>> /\ filePath[d] = Original
      BY DEF Init, HistoryOf, Latest, Newest
  <2>2. \A d \in Documents : CurrentOf(d) = 1
    <3> SUFFICES ASSUME NEW d \in Documents PROVE CurrentOf(d) = 1
        OBVIOUS
    <3>1. <<Original>> \in Seq(Files) /\ Len(<<Original>>) = 1 /\ <<Original>>[1] = Original
        BY DocumentsAssumption
    <3>2. Distinct(<<Original>>)
        BY <3>1 DEF Distinct
    <3> QED
        BY <2>1, <3>1, <3>2, ChosenIndex DEF CurrentOf
  <2> QED
      BY <2>1, <2>2 DEF History!Init
<1>2. IInv /\ Points /\ [Next]_vars => [History!Next]_(History!vars)
  <2> SUFFICES ASSUME IInv, Points, [Next]_vars
               PROVE  [History!Next]_(History!vars)
      OBVIOUS
  <2>1. CASE UNCHANGED <<versions, filePath>>
      BY <2>1 DEF History!vars, HistoryOf, CurrentOf, Latest
  <2>2. ASSUME NEW s \in Sessions, CommitCheckIn(s)
        PROVE  History!Next
    <3> DEFINE hist == [d \in Documents |-> HistoryOf(d)]
               curr == [d \in Documents |-> CurrentOf(d)]
    <3>1. PICK d \in Documents, f \in Files :
              /\ f \notin {HistoryOf(d)[i] : i \in DOMAIN HistoryOf(d)}
              /\ HistoryOf(d)' = Append(HistoryOf(d), f)
              /\ CurrentOf(d)' \in {CurrentOf(d), Len(HistoryOf(d)) + 1}
              /\ \A e \in Documents \ {d} : HistoryOf(e)' = HistoryOf(e) /\ CurrentOf(e)' = CurrentOf(e)
        BY <2>2, CommitAppends
    <3>2. hist' = [hist EXCEPT ![d] = Append(@, f)]
        BY <3>1
    <3>3. \E i \in {curr[d], Len(hist[d]) + 1} : curr' = [curr EXCEPT ![d] = i]
        BY <3>1
    <3>4. f \notin {hist[d][i] : i \in DOMAIN hist[d]}
        BY <3>1
    <3> QED
        BY <3>2, <3>3, <3>4 DEF History!Next, History!CheckIn, History!FilesOf
  <2> QED
      BY <2>1, <2>2, OthersLeaveChains
<1> QED
    BY <1>1, <1>2, FollowsAlways, PTL DEF Spec, ImplementsHistory, History!Spec
===============================================================================
