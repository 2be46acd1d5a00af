--------------------------- MODULE DocumentCheckout ---------------------------
(***************************************************************************)
(* Check-out, check-in and version chain of the document store             *)
(* (backend/app/api/dms.py, migration 0022, scheduler/checkout_release.py).*)
(*                                                                         *)
(* A document is locked by one row of document_checkouts.  Check-out,      *)
(* release and check-in are requests of several statements, each committed *)
(* on its own, so the requests of others interleave with them.  Only the   *)
(* end of a check-in is a transaction, under READ COMMITTED: its rows      *)
(* become visible together, but each of its statements decides with its    *)
(* own snapshot which rows row-level security lets it touch.               *)
(***************************************************************************)
EXTENDS Integers, FiniteSets

CONSTANTS
    Documents,      \* rows of table documents
    Users,          \* managers, lawyers and paralegals of the firm
    Managers,       \* users whose role is partner_manager
    Cases,          \* rows of table cases
    CaseOf,         \* documents.case_id
    Firms,          \* tenants sharing the database
    TimeoutOf,      \* firm_settings.checkout_timeout_hours, in ticks
    Sessions,       \* requests the API serves at the same time
    Files,          \* names of storage objects: the bound on uploads
    Original,       \* the object of a document's first upload
    None,           \* null
    MaxAge          \* bound on the age of a lock the model tells apart

ASSUME NoneAssumption == None \notin Users \cup Documents \cup Files
ASSUME DocumentsAssumption ==
    /\ Managers \subseteq Users
    /\ CaseOf \in [Documents -> Cases]
    /\ Original \in Files
ASSUME TimeoutAssumption ==
    /\ MaxAge \in Nat
    /\ TimeoutOf \in [Firms -> Nat]
    /\ \A f \in Firms : TimeoutOf[f] < MaxAge

VARIABLES
    holder,     \* document -> checked_out_by of its row, None without a row
    age,        \* document -> ticks since checked_out_at
    working,    \* auxiliary: user, document -> version the user checked out
    versions,   \* document -> committed rows, version_number -> file and prev
    filePath,   \* document -> documents.file_path
    stored,     \* document -> objects present in storage
    assigned,   \* rows of case_assignments: user, case
    active,     \* users whose status is active
    request     \* session -> the request it serves and what that has read

lockVars  == <<holder, age, working>>
chainVars == <<versions, filePath>>
userVars  == <<assigned, active>>
vars == <<lockVars, chainVars, stored, userVars, request>>

(* The statement a request runs next.                                      *)
Steps == {"takeLock", "release", "readLatest", "upload", "insert", "point", "commit"}

Row == [file : Files, prev : Nat]

Idle == [step |-> "idle", user |-> None, doc |-> None,
         base |-> 0, upload |-> None, pointed |-> FALSE]

Request ==
    [step    : Steps,
     user    : Users,              \* the caller, resolved when it starts
     doc     : Documents,
     base    : Nat,                \* version_number read as prev, 0 for none
     upload  : Files \cup {None},  \* the object it uploaded
     pointed : BOOLEAN]            \* did its UPDATE of documents match a row?

TypeOK ==
    /\ holder \in [Documents -> Users \cup {None}]
    /\ age \in [Documents -> 0..MaxAge]
    /\ working \in [Users \X Documents -> Nat]
    /\ DOMAIN versions = Documents
    /\ \A d \in Documents : /\ DOMAIN versions[d] \in SUBSET Nat
                            /\ versions[d] \in [DOMAIN versions[d] -> Row]
    /\ filePath \in [Documents -> Files]
    /\ stored \in [Documents -> SUBSET Files]
    /\ assigned \in SUBSET (Users \X Cases)
    /\ active \in SUBSET Users
    /\ request \in [Sessions -> Request \cup {Idle}]

-------------------------------------------------------------------------------
(* What a statement may touch, and what the tables hold.                   *)

(* assert_case_access in the handler, and the policies of documents,       *)
(* document_versions and document_checkouts for every statement.           *)
CanAccess(u, d) == u \in Managers \/ <<u, CaseOf[d]>> \in assigned

StillAllowed(s) == CanAccess(request[s].user, request[s].doc)

(* ORDER BY version_number DESC LIMIT 1, 0 when there is no row.           *)
Newest(chain) ==
    IF DOMAIN chain = {} THEN 0
    ELSE CHOOSE n \in DOMAIN chain : \A i \in DOMAIN chain : i <= n

Latest(d) == Newest(versions[d])

(* The original upload counts as version 1 before it has a row.            *)
VersionSeen(n) == IF n = 0 THEN 1 ELSE n

(* Mutant: a check-in that forgets to backfill version 1.                  *)
InsertsWithoutBackfill(b) == {VersionSeen(b) + 1}

(* The version numbers a check-in inserts: version 1 is backfilled when    *)
(* the chain was read as empty.                                            *)
Inserts(b) == IF b = 0 THEN {1, 2} ELSE {b + 1}

(* A chain with the rows of a check-in that read base b and uploaded f;    *)
(* orig is the file a backfilled version 1 gets.                           *)
Extended(chain, b, f, orig) ==
    [n \in DOMAIN chain \cup Inserts(b) |->
        IF n = VersionSeen(b) + 1 THEN [file |-> f, prev |-> VersionSeen(b)]
        ELSE IF n = 1 /\ b = 0 THEN [file |-> orig, prev |-> 0]
        ELSE chain[n]]

(* Mutant: an insert waits for every other check-in that is about to insert*)
InTransactionOrWaiting(d) ==
    {s \in Sessions : request[s].doc = d /\ request[s].step \in {"insert", "point", "commit"}}

(* Sessions with an open transaction that inserted rows of document d.     *)
InTransaction(d) ==
    {s \in Sessions : request[s].doc = d /\ request[s].step \in {"point", "commit"}}
-------------------------------------------------------------------------------
Init ==
    /\ holder = [d \in Documents |-> None]
    /\ age = [d \in Documents |-> 0]
    /\ working = [ud \in Users \X Documents |-> 1]
    /\ versions = [d \in Documents |-> [n \in {} |-> [file |-> Original, prev |-> 0]]]
    /\ filePath = [d \in Documents |-> Original]
    /\ stored = [d \in Documents |-> {Original}]
    /\ assigned = Users \X Cases
    /\ active = Users
    /\ request = [s \in Sessions |-> Idle]

(* A request enters: its caller authenticates and has access to the case.  *)
Enter(s, u, d, step) ==
    /\ request[s] = Idle
    /\ u \in active
    /\ CanAccess(u, d)
    /\ request' = [request EXCEPT ![s] =
                      [Idle EXCEPT !.step = step, !.user = u, !.doc = d]]
    /\ UNCHANGED <<lockVars, chainVars, stored, userVars>>

(* The check of the lock's holder in release_checkout and                  *)
(* checkin_document; 404, 403 and 409 leave no trace.                      *)
PassesHolderCheck(u, d) == holder[d] # None /\ (holder[d] = u \/ u \in Managers)

BeginCheckOut(s, u, d) == Enter(s, u, d, "takeLock")
BeginRelease(s, u, d)  == PassesHolderCheck(u, d) /\ Enter(s, u, d, "release")
BeginCheckIn(s, u, d)  == PassesHolderCheck(u, d) /\ Enter(s, u, d, "readLatest")

Goto(s, step) == request' = [request EXCEPT ![s].step = step]
Finish(s) == request' = [request EXCEPT ![s] = Idle]

(* checkout_document's INSERT ... ON CONFLICT DO NOTHING.  The caller      *)
(* starts to edit the version that is the latest at that moment.           *)
TakeLock(s) ==
    LET u == request[s].user
        d == request[s].doc
    IN  /\ request[s].step = "takeLock"
        /\ IF StillAllowed(s) /\ holder[d] = None
           THEN /\ holder' = [holder EXCEPT ![d] = u]
                /\ age' = [age EXCEPT ![d] = 0]
                /\ working' = [working EXCEPT ![<<u, d>>] = VersionSeen(Latest(d))]
           ELSE UNCHANGED lockVars
        /\ Finish(s)
        /\ UNCHANGED <<chainVars, stored, userVars>>

(* DELETE FROM document_checkouts: it names the document and not the       *)
(* holder that was read, and skips without an error a row the caller may   *)
(* no longer touch.                                                        *)
DropLock(s) ==
    LET d == request[s].doc
    IN  /\ IF StillAllowed(s)
           THEN /\ holder' = [holder EXCEPT ![d] = None]
                /\ age' = [age EXCEPT ![d] = 0]
           ELSE UNCHANGED <<holder, age>>
        /\ UNCHANGED working

(* The DELETE of release_checkout.                                         *)
FinishRelease(s) ==
    /\ request[s].step = "release"
    /\ DropLock(s)
    /\ Finish(s)
    /\ UNCHANGED <<chainVars, stored, userVars>>

(* checkin_document reads the latest version; a caller who lost access to  *)
(* the case meanwhile sees no row.                                         *)
ReadLatest(s) ==
    /\ request[s].step = "readLatest"
    /\ request' = [request EXCEPT
                      ![s].step = "upload",
                      ![s].base = IF StillAllowed(s) THEN Latest(request[s].doc) ELSE 0]
    /\ UNCHANGED <<lockVars, chainVars, stored, userVars>>

(* Mutants: object names without their random part; an upload whose answer *)
(* nobody looks at.                                                        *)
StoreUnderAnyName(d, f) == stored' = [stored EXCEPT ![d] = @ \cup {f}]
StoreUnchecked(d, f) ==
    /\ f \notin stored[d]
    /\ stored' \in {stored, [stored EXCEPT ![d] = @ \cup {f}]}

(* Storage keeps an object under a fresh name.                             *)
Store(d, f) ==
    /\ f \in Files \ stored[d]
    /\ stored' = [stored EXCEPT ![d] = @ \cup {f}]

Upload(s) ==
    /\ request[s].step = "upload"
    /\ \E f \in Files :
           /\ Store(request[s].doc, f)
           /\ request' = [request EXCEPT ![s].step = "insert", ![s].upload = f]
    /\ UNCHANGED <<lockVars, chainVars, userVars>>

(* Storage refuses, or its answer is lost after it kept the object: 502.   *)
UploadFails(s) ==
    /\ request[s].step = "upload"
    /\ UNCHANGED stored \/ \E f \in Files : Store(request[s].doc, f)
    /\ Finish(s)
    /\ UNCHANGED <<lockVars, chainVars, userVars>>

(* The INSERTs that open the transaction.  They wait for an open           *)
(* transaction that inserted the same numbers; the unique constraint on    *)
(* version numbers and the insert policy let them through or roll back.    *)
InsertVersion(s) ==
    LET d   == request[s].doc
        new == Inserts(request[s].base)
    IN  /\ request[s].step = "insert"
        /\ \A t \in InTransaction(d) : Inserts(request[t].base) \cap new = {}
        /\ IF StillAllowed(s) /\ new \cap DOMAIN versions[d] = {}
           THEN Goto(s, "point")
           ELSE Finish(s)
        /\ UNCHANGED <<lockVars, chainVars, stored, userVars>>

(* Mutant: documents follows the chain only from its second check-in on.   *)
PointDocumentLate(s) ==
    /\ request[s].step = "point"
    /\ request' = [request EXCEPT ![s].step = "commit",
                                  ![s].pointed = request[s].base # 0]
    /\ UNCHANGED <<lockVars, chainVars, stored, userVars>>

(* UPDATE documents: when the caller's assignment is gone no row matches,  *)
(* and nobody looks.                                                       *)
PointDocument(s) ==
    /\ request[s].step = "point"
    /\ request' = [request EXCEPT ![s].step = "commit", ![s].pointed = StillAllowed(s)]
    /\ UNCHANGED <<lockVars, chainVars, stored, userVars>>

(* DELETE of the lock and COMMIT: everything the transaction did shows.    *)
CommitCheckIn(s) ==
    LET r == request[s]
    IN  /\ r.step = "commit"
        /\ versions' = [versions EXCEPT ![r.doc] =
                            Extended(@, r.base, r.upload, filePath[r.doc])]
        /\ filePath' = IF r.pointed THEN [filePath EXCEPT ![r.doc] = r.upload]
                       ELSE filePath
        /\ DropLock(s)
        /\ Finish(s)
        /\ UNCHANGED <<stored, userVars>>

(* The process or its connection dies: an open transaction rolls back, a   *)
(* stored object stays.                                                    *)
Crash(s) ==
    /\ request[s] # Idle
    /\ Finish(s)
    /\ UNCHANGED <<lockVars, chainVars, stored, userVars>>

(* Mutant: the stale locks of deactivated users are forgotten.             *)
ReleaseStaleOfActive ==
    \E f \in Firms :
        LET stale == {d \in Documents : holder[d] \in active /\ age[d] > TimeoutOf[f]}
        IN  /\ stale # {}
            /\ holder' = [d \in Documents |-> IF d \in stale THEN None ELSE holder[d]]
            /\ age' = [d \in Documents |-> IF d \in stale THEN 0 ELSE age[d]]
            /\ UNCHANGED <<working, chainVars, stored, userVars, request>>

(* release_stale_checkouts: the timeout is that of whichever row of        *)
(* firm_settings comes first, and the DELETE spans all firms.              *)
ReleaseStale ==
    \E f \in Firms :
        LET stale == {d \in Documents : holder[d] # None /\ age[d] > TimeoutOf[f]}
        IN  /\ stale # {}
            /\ holder' = [d \in Documents |-> IF d \in stale THEN None ELSE holder[d]]
            /\ age' = [d \in Documents |-> IF d \in stale THEN 0 ELSE age[d]]
            /\ UNCHANGED <<working, chainVars, stored, userVars, request>>

(* Time passes; ages are told apart up to MaxAge.                          *)
Tick ==
    LET young == {d \in Documents : holder[d] # None /\ age[d] < MaxAge}
    IN  /\ young # {}
        /\ age' = [d \in Documents |-> IF d \in young THEN age[d] + 1 ELSE age[d]]
        /\ UNCHANGED <<holder, working, chainVars, stored, userVars, request>>

(* delete_assignment, by an active user with access to the case.           *)
Unassign(u, c) ==
    /\ <<u, c>> \in assigned
    /\ \E v \in active : v \in Managers \/ <<v, c>> \in assigned
    /\ assigned' = assigned \ {<<u, c>>}
    /\ UNCHANGED <<lockVars, chainVars, stored, active, request>>

(* update_user with a new status, by a manager and never on oneself.  The  *)
(* user's lock stays where it is.                                          *)
SetStatus(u) ==
    /\ (Managers \cap active) \ {u} # {}
    /\ active' = IF u \in active THEN active \ {u} ELSE active \cup {u}
    /\ UNCHANGED <<lockVars, chainVars, stored, assigned, request>>

Begin(s, u, d) == BeginCheckOut(s, u, d) \/ BeginRelease(s, u, d) \/ BeginCheckIn(s, u, d)

Continue(s) ==
    \/ TakeLock(s)
    \/ FinishRelease(s)
    \/ ReadLatest(s)
    \/ Upload(s)
    \/ UploadFails(s)
    \/ InsertVersion(s)
    \/ PointDocument(s)
    \/ CommitCheckIn(s)

Next ==
    \/ \E s \in Sessions :
           \/ \E u \in Users, d \in Documents : Begin(s, u, d)
           \/ Continue(s)
           \/ Crash(s)
    \/ ReleaseStale
    \/ Tick
    \/ \E u \in Users : SetStatus(u) \/ \E c \in Cases : Unassign(u, c)

Spec == Init /\ [][Next]_vars

(* The event loop resumes every request it has started, time passes, and   *)
(* the scheduler runs its daily job.  Nothing forces a user to act.        *)
Fairness ==
    /\ \A s \in Sessions : WF_vars(Continue(s))
    /\ WF_vars(Tick)
    /\ WF_vars(ReleaseStale)

FairSpec == Spec /\ Fairness
-------------------------------------------------------------------------------

(* Two check-ins that both read version n as the latest, a crash between   *)
(* two statements, a lock that changed hands: the version chain of a       *)
(* document is 1, 2, ..., n without a gap or a branch, every version       *)
(* naming the one before it (dms.py:349-416, 0022 unique constraint).      *)
ChainLinear ==
    \A d \in Documents :
        /\ DOMAIN versions[d] = 1..Latest(d)
        /\ Latest(d) # 1
        /\ \A n \in DOMAIN versions[d] : versions[d][n].prev = n - 1

(* No revision is lost or overwritten (SC-108): each version, and the file *)
(* documents points at, has its object in storage, and no two versions     *)
(* share one, whatever uploads failed or were abandoned.                   *)
VersionsKept ==
    \A d \in Documents :
        /\ filePath[d] \in stored[d]
        /\ \A n \in DOMAIN versions[d] :
               /\ versions[d][n].file \in stored[d]
               /\ \A m \in DOMAIN versions[d] :
                      versions[d][m].file = versions[d][n].file => m = n

(* While a check-in's transaction is open nobody overtakes it: what it read*)
(* as the latest version still is the latest, and no other transaction on  *)
(* the document is open (dms.py:385-427).                                  *)
OpenTransactionAppends ==
    \A d \in Documents : \A s \in InTransaction(d) :
        /\ request[s].base = Latest(d)
        /\ InTransaction(d) = {s}

(* "documents row always points at the latest version" (dms.py, 0022).     *)
LatestIsCurrent ==
    \A d \in Documents :
        filePath[d] = IF Latest(d) = 0 THEN Original ELSE versions[d][Latest(d)].file

(* It does as long as every case assignment stands: crashes, failed and    *)
(* abandoned uploads, refused inserts and locks that change hands never    *)
(* leave documents behind the chain (dms.py:385-427).                      *)
CurrentWhileAssigned == assigned = Users \X Cases => LatestIsCurrent

(* A check-in that commits builds on the version its author checked out,   *)
(* so nobody's edits are silently superseded (spec 002 US4: check-out and  *)
(* check-in prevent simultaneous edit conflicts).  Managers may check in   *)
(* without a check-out of their own and are left out.                      *)
EditsBuildOnCheckOut ==
    [][\A s \in Sessions :
           LET r == request[s]
           IN  r.step = "commit" /\ versions'[r.doc] # versions[r.doc]
               /\ r.user \notin Managers
               => working[<<r.user, r.doc>>] = VersionSeen(r.base)]_vars


(* A forgotten check-out never blocks the team indefinitely                *)
(* (checkout_release.py:4), its holder deactivated or not.                 *)
LockEndsEventually ==
    \A d \in Documents : holder[d] # None ~> holder[d] = None

(* No request waits forever, for the transaction of another one included.  *)
RequestsFinish ==
    \A s \in Sessions : request[s] # Idle ~> request[s] = Idle
-------------------------------------------------------------------------------
(* The chain as VersionHistory sees it: the original upload is the first   *)
(* file of every history, with or without a row.                           *)
HistoryOf(d) ==
    IF Latest(d) = 0 THEN <<Original>>
    ELSE [n \in 1..Latest(d) |-> versions[d][n].file]

CurrentOf(d) ==
    CHOOSE i \in DOMAIN HistoryOf(d) : HistoryOf(d)[i] = filePath[d]

History == INSTANCE VersionHistory WITH
    history <- [d \in Documents |-> HistoryOf(d)],
    current <- [d \in Documents |-> CurrentOf(d)]

(* The document store implements VersionHistory: histories only grow, by   *)
(* fresh files, and documents.file_path never goes back to an older one.   *)
ImplementsHistory == History!Spec
===============================================================================
