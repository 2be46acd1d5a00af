-------------------------------- MODULE DmsPanel --------------------------------
(***************************************************************************)
(* The panel of a document's page for its lock, its versions and who may   *)
(* see it.  The panel asks for lock and versions when it opens and after   *)
(* each of its calls, then has the page ask for the document again, and    *)
(* takes one call at a time; the first question and the page's are not     *)
(* waited for.  A file is picked in a field that is on the page only while *)
(* the panel believes that the user holds the lock, but the panel          *)
(* remembers the file without it.                                          *)
(***************************************************************************)
EXTENDS Browser

CONSTANTS Files,
          Me, Other,      \* users
          Original,       \* the file the document was uploaded with
          MaxVersions,    \* bound on the versions
          MaxAsked, MaxMeta   \* bounds on the questions in flight, the panel's and the page's

VARIABLES
    lock, versions,     \* checkout and versions, as the panel has them
    secret,             \* isConfidential, as the page has it
    file,               \* checkinFile
    field,              \* what the file field shows; Gone while it is not on the page
    call,               \* the call in flight: act, file, and how far it is
    asked,              \* questions for lock and versions: None until they are read
    metaAsked,          \* questions of the page for the document, likewise
    holder, chain, confidential,   \* the document on the server
    trouble,            \* a question was answered out of order, or not at all
    unheard,            \* the document changed without an answer for the panel since its last
                        \*   question: by another user, the timer, or a call whose answer was lost
    leftover            \* the field went while the panel kept a file, or took one in flight

dmsVars == <<lock, versions, secret, file, field, call, asked, metaAsked,
             holder, chain, confidential, trouble, unheard, leftover>>

Holders == {None, Me, Other}

Chains == Seq(Files \cup {Original})

Acts == {"checkout", "release", "checkin", "share", "secret", "open"}

Calls == [act : Acts, step : {"asked", "made", "reload", Refused},
          file : Files \cup {None}, shown : Files \cup {None, Gone}]

Document == [holder |-> holder, chain |-> chain]

ASSUME PanelAssumption ==
    /\ Me # None /\ {None, Gone} \cap Files = {}
    /\ {None, Failed} \cap (BOOLEAN \cup [holder : Holders, chain : Chains]) = {}
    /\ Refused \notin {"asked", "made", "reload"} /\ None \notin Calls
    /\ MaxVersions \in Nat \ {0}

LockedByMe == lock = Me

DmsInit ==
    /\ lock = None /\ versions = <<>> /\ secret = FALSE
    /\ file = None /\ field = Gone /\ call = None
    /\ asked = <<[doc |-> None, first |-> TRUE]>> /\ metaAsked = <<>>
    /\ holder \in {None, Me, Other} /\ chain = <<Original>>
    /\ confidential = FALSE
    /\ trouble = FALSE /\ unheard = FALSE /\ leftover = FALSE

(* Mutant: every answer puts a new, empty field on the page.               *)
ShowFieldAnew(h) ==
    /\ lock' = h
    /\ field' = IF h # Me THEN Gone ELSE None
    /\ leftover' = (leftover \/ (h # Me /\ field # Gone /\ file # None))

(* The file field comes and goes with the lock the panel knows of.         *)
ShowLock(h) ==
    /\ lock' = h
    /\ field' = IF h # Me THEN Gone ELSE IF field = Gone THEN None ELSE field
    /\ leftover' = (leftover \/ (h # Me /\ field # Gone /\ file # None))
-------------------------------------------------------------------------------
(* The calls the panel offers.                                             *)
Offers(act) ==
    CASE act = "checkout" -> lock = None
      [] act = "release" -> LockedByMe
      [] act = "checkin" -> LockedByMe /\ file # None
      [] act = "share" -> ~secret
      [] OTHER -> TRUE

Run(act) ==
    /\ call = None /\ Offers(act)
    /\ (act = "secret") => ~secret
    /\ (act = "open") => secret
    /\ call' = [act |-> act, step |-> "asked",
                file |-> IF act = "checkin" THEN file ELSE None,
                shown |-> IF act = "checkin" THEN field ELSE None]
    /\ UNCHANGED <<lock, versions, secret, file, field, asked, metaAsked,
                   holder, chain, confidential, trouble, unheard, leftover>>

(* Not disabled while a call is in flight.                                 *)
PickFile(f) ==
    /\ field # Gone /\ f # field
    /\ file' = f /\ field' = f
    /\ leftover' = (call # None /\ call.act = "checkin")
    /\ UNCHANGED <<lock, versions, secret, call, asked, metaAsked,
                   holder, chain, confidential, trouble, unheard>>

(* The server does what is asked if the lock and the document allow it.    *)
Allows(act) ==
    CASE act = "checkout" -> holder = None
      [] act = "release" -> holder = Me
      [] act = "checkin" -> holder = Me /\ Len(chain) < MaxVersions
      [] act = "share" -> ~confidential
      [] OTHER -> TRUE

(* The answer may be lost, which the panel cannot tell from a refusal.     *)
ServeCall ==
    /\ call # None /\ call.step = "asked"
    /\ \/ /\ Allows(call.act)
          /\ \/ call' = [call EXCEPT !.step = "made"] /\ UNCHANGED unheard
             \/ call' = [call EXCEPT !.step = Refused] /\ unheard' = TRUE
          /\ holder' = CASE call.act = "checkout" -> Me
                         [] call.act \in {"release", "checkin"} -> None
                         [] OTHER -> holder
          /\ chain' = IF call.act = "checkin" THEN Append(chain, call.file) ELSE chain
          /\ confidential' = CASE call.act = "secret" -> TRUE [] call.act = "open" -> FALSE
                               [] OTHER -> confidential
       \/ /\ call' = [call EXCEPT !.step = Refused]
          /\ UNCHANGED <<holder, chain, confidential, unheard>>
    /\ UNCHANGED <<lock, versions, secret, file, field, asked, metaAsked, trouble, leftover>>

(* A refused call, or one whose answer was lost, is over, and nothing is   *)
(* asked.  The file is forgotten after a check-in, refused or made,        *)
(* whatever the field shows by now.                                        *)
Forget ==
    IF call.act = "checkin" THEN file' = None /\ leftover' = (leftover \/ field # call.shown)
    ELSE UNCHANGED <<file, leftover>>

HearRefusal ==
    /\ call # None /\ call.step = Refused
    /\ call' = None /\ Forget
    /\ UNCHANGED <<lock, versions, secret, field, asked, metaAsked,
                   holder, chain, confidential, trouble, unheard>>

(* reload, the questions after a call that was made.                       *)
HearMade ==
    /\ call # None /\ call.step = "made"
    /\ Len(asked) < MaxAsked
    /\ call' = [call EXCEPT !.step = "reload"]
    /\ asked' = Append(asked, [doc |-> None, first |-> FALSE])
    /\ unheard' = FALSE
    /\ UNCHANGED <<lock, versions, secret, file, field, metaAsked,
                   holder, chain, confidential, trouble, leftover>>
-------------------------------------------------------------------------------
ReadDocument(i) ==
    /\ asked[i].doc = None
    /\ \E a \in {Document, Failed} : asked' = [asked EXCEPT ![i].doc = a]
    /\ UNCHANGED <<lock, versions, secret, file, field, call, metaAsked,
                   holder, chain, confidential, trouble, unheard, leftover>>

(* A failure is told and leaves the panel as it was.  The questions after  *)
(* a call end it, and the page asks for the document.                      *)
TakeDocument(i) ==
    LET a == asked[i]
    IN  /\ a.doc # None
        /\ asked' = RemoveAt(asked, i)
        /\ IF a.doc = Failed
           THEN UNCHANGED <<lock, versions, field, leftover>>
           ELSE ShowLock(a.doc.holder) /\ versions' = Tail(a.doc.chain)
        /\ trouble' = (trouble \/ i > 1 \/ a.doc = Failed)
        /\ IF a.first THEN UNCHANGED <<call, metaAsked, file>>
           ELSE /\ Len(metaAsked) < MaxMeta
                /\ metaAsked' = Append(metaAsked, None)
                /\ call' = None
                /\ file' = IF call.act = "checkin" THEN None ELSE file
        /\ UNCHANGED <<secret, holder, chain, confidential, unheard>>

ReadMeta(i) ==
    /\ metaAsked[i] = None
    /\ \E a \in {confidential, Failed} : metaAsked' = [metaAsked EXCEPT ![i] = a]
    /\ UNCHANGED <<lock, versions, secret, file, field, call, asked,
                   holder, chain, confidential, trouble, unheard, leftover>>

TakeMeta(i) ==
    /\ metaAsked[i] # None
    /\ metaAsked' = RemoveAt(metaAsked, i)
    /\ secret' = IF metaAsked[i] = Failed THEN secret ELSE metaAsked[i]
    /\ trouble' = (trouble \/ i > 1 \/ metaAsked[i] = Failed)
    /\ UNCHANGED <<lock, versions, file, field, call, asked,
                   holder, chain, confidential, unheard, leftover>>

(* Another user takes or gives up the lock, a manager or the timer ends    *)
(* one, or the document is closed from another browser.                    *)
ActElsewhere ==
    /\ \/ holder' \in {None, Other} /\ holder' # holder /\ UNCHANGED confidential
       \/ confidential' = ~confidential /\ UNCHANGED holder
    /\ unheard' = TRUE
    /\ UNCHANGED <<lock, versions, secret, file, field, call, asked, metaAsked,
                   chain, trouble, leftover>>

DmsNext ==
    \/ \E act \in Acts : Run(act)
    \/ \E f \in Files : PickFile(f)
    \/ ServeCall \/ HearRefusal \/ HearMade \/ ActElsewhere
    \/ \E i \in DOMAIN asked : ReadDocument(i) \/ TakeDocument(i)
    \/ \E i \in DOMAIN metaAsked : ReadMeta(i) \/ TakeMeta(i)

DmsSpec == DmsInit /\ [][DmsNext]_dmsVars
-------------------------------------------------------------------------------
DmsTypeOK ==
    /\ {lock, holder} \subseteq {None, Me, Other} /\ secret \in BOOLEAN /\ confidential \in BOOLEAN
    /\ file \in Files \cup {None} /\ field \in Files \cup {None, Gone}
    /\ (field = Gone) = (lock # Me)
    /\ chain \in Seq(Files \cup {Original}) /\ Len(chain) <= MaxVersions
    /\ call # None => call \in Calls

DmsQuiet == call = None /\ asked = <<>> /\ metaAsked = <<>>

(* When everything is answered, in order, the panel shows lock, versions   *)
(* and confidentiality as they are, as long as the document has not        *)
(* changed without the panel hearing of it since it asked last             *)
(* (DmsControls.tsx:62-96).                                                *)
SettledPanelIsCurrent ==
    DmsQuiet /\ ~trouble /\ ~unheard =>
        lock = holder /\ versions = Tail(chain) /\ secret = confidential

(* The file that is checked in is the one the field shows, unless the      *)
(* field went in the meantime with a file picked, or one was picked under  *)
(* a check-in (DmsControls.tsx:101-110).                                   *)
ChecksInShownFile ==
    [][call = None /\ call' # None /\ call'.act = "checkin" /\ ~leftover => call'.file = field]_dmsVars
===============================================================================
