---------------------------- MODULE DocumentSharing ----------------------------
(***************************************************************************)
(* Confidential documents and the clients documents are shared with        *)
(* (backend/app/api/dms.py 430-520, the triggers of 0022).                 *)
(*                                                                         *)
(* A write that a trigger guards is two steps: the statement, whose        *)
(* trigger reads what is committed, and its commit.  The lock an INSERT    *)
(* takes on the document it refers to (FOR KEY SHARE) and that of an       *)
(* UPDATE of the document (FOR NO KEY UPDATE) do not exclude one another;  *)
(* two UPDATEs of one document do.                                         *)
(***************************************************************************)
CONSTANTS
    Documents, Contacts,
    Sharings     \* requests that are served at the same time

VARIABLES
    confidential,  \* documents with is_confidential
    shares,        \* rows of document_sharing: <<document, contact>>
    inactive,      \* contacts that are soft-deleted
    sharing,       \* request -> what it does
    crossed        \* history: a share and a mark of one document have both passed
                   \*   their triggers before either was committed

sharingVars == <<confidential, shares, inactive, sharing, crossed>>

NoSharing == [step |-> "idle"]

SharingTypeOK ==
    /\ confidential \subseteq Documents
    /\ shares \subseteq Documents \X Contacts
    /\ inactive \subseteq Contacts
    /\ sharing \in [Sharings ->
           [step : {"contact", "share", "shared"}, share : Documents \X Contacts]
           \cup [step : {"mark", "marked"}, doc : Documents, to : BOOLEAN] \cup {NoSharing}]
    /\ crossed \in BOOLEAN

SharingInit ==
    /\ confidential = {}
    /\ shares = {}
    /\ inactive = {}
    /\ sharing = [r \in Sharings |-> NoSharing]
    /\ crossed = FALSE
-------------------------------------------------------------------------------
SharesOf(d) == {s \in shares : s[1] = d}

ShareAs(r, state) == sharing' = [sharing EXCEPT ![r] = state]
ShareGoto(r, step) == ShareAs(r, IF step = "idle" THEN NoSharing ELSE [sharing[r] EXCEPT !.step = step])

(* Statements that have passed their trigger and are not committed.        *)
SharePending(d) == \E q \in Sharings : sharing[q].step = "shared" /\ sharing[q].share[1] = d
Locked(d) == \E q \in Sharings : sharing[q].step = "marked" /\ sharing[q].doc = d
MarkPending(d) == \E q \in Sharings : sharing[q].step = "marked" /\ sharing[q].doc = d /\ sharing[q].to

(* share_document: refused for a confidential document, for a contact that *)
(* is not active, by the trigger, and for a pair that is shared already.   *)
BeginShare(r, d, c) ==
    /\ sharing[r] = NoSharing
    /\ d \notin confidential
    /\ ShareAs(r, [step |-> "contact", share |-> <<d, c>>])
    /\ UNCHANGED <<confidential, shares, inactive, crossed>>

FindContact(r) ==
    /\ sharing[r].step = "contact"
    /\ ShareGoto(r, IF sharing[r].share[2] \in inactive THEN "idle" ELSE "share")
    /\ UNCHANGED <<confidential, shares, inactive, crossed>>

InsertShare(r) ==
    LET s == sharing[r].share
        refused == s[1] \in confidential \/ s \in shares
    IN  /\ sharing[r].step = "share"
        /\ ShareGoto(r, IF refused THEN "idle" ELSE "shared")
        /\ crossed' = (crossed \/ (~refused /\ MarkPending(s[1])))
        /\ UNCHANGED <<confidential, shares, inactive>>

CommitShare(r) ==
    /\ sharing[r].step = "shared"
    /\ shares' = shares \cup {sharing[r].share}
    /\ ShareGoto(r, "idle")
    /\ UNCHANGED <<confidential, inactive, crossed>>

(* unshare_document                                                        *)
Unshare(d, c) ==
    /\ <<d, c>> \in shares
    /\ shares' = shares \ {<<d, c>>}
    /\ UNCHANGED <<confidential, inactive, sharing, crossed>>
-------------------------------------------------------------------------------
(* update_access                                                           *)
BeginMark(r, d, to) ==
    /\ sharing[r] = NoSharing
    /\ ShareAs(r, [step |-> "mark", doc |-> d, to |-> to])
    /\ UNCHANGED <<confidential, shares, inactive, crossed>>

(* Mutant: no trigger on documents.                                        *)
UpdateDocumentUnchecked(r) ==
    LET q == sharing[r]
    IN  /\ q.step = "mark" /\ ~Locked(q.doc)
        /\ ShareGoto(r, "marked")
        /\ UNCHANGED <<confidential, shares, inactive, crossed>>

(* The trigger refuses to mark a document that has shares.                 *)
UpdateDocument(r) ==
    LET q == sharing[r]
        becomes == q.to /\ q.doc \notin confidential
        refused == becomes /\ SharesOf(q.doc) # {}
    IN  /\ q.step = "mark" /\ ~Locked(q.doc)
        /\ ShareGoto(r, IF refused THEN "idle" ELSE "marked")
        /\ crossed' = (crossed \/ (becomes /\ ~refused /\ SharePending(q.doc)))
        /\ UNCHANGED <<confidential, shares, inactive>>

CommitMark(r) ==
    LET q == sharing[r]
    IN  /\ q.step = "marked"
        /\ confidential' = IF q.to THEN confidential \cup {q.doc} ELSE confidential \ {q.doc}
        /\ ShareGoto(r, "idle")
        /\ UNCHANGED <<shares, inactive, crossed>>

(* A contact is soft-deleted, or taken back by a PATCH.                    *)
SetContact(c) ==
    /\ inactive' = IF c \in inactive THEN inactive \ {c} ELSE inactive \cup {c}
    /\ UNCHANGED <<confidential, shares, sharing, crossed>>

SharingNext ==
    \/ \E r \in Sharings :
          \/ \E d \in Documents, c \in Contacts : BeginShare(r, d, c)
          \/ FindContact(r) \/ InsertShare(r) \/ CommitShare(r)
          \/ \E d \in Documents, to \in BOOLEAN : BeginMark(r, d, to)
          \/ UpdateDocument(r) \/ CommitMark(r)
    \/ \E d \in Documents, c \in Contacts : Unshare(d, c)
    \/ \E c \in Contacts : SetContact(c)

SharingSpec == SharingInit /\ [][SharingNext]_sharingVars
-------------------------------------------------------------------------------
(* "Confidential documents can never be shared" (0022:63): no document is  *)
(* both, whatever requests do at the same time, until a share and a mark   *)
(* of one document cross between their triggers and their commits.         *)
NeverSharedWhileConfidential == ~crossed => \A s \in shares : s[1] \notin confidential
===============================================================================
