------------------------------ MODULE FolderTree ------------------------------
(***************************************************************************)
(* The folders of a case (backend/app/api/dms.py, table document_folders   *)
(* of 0022).  A request reads what it checks in one statement and writes   *)
(* in the next; foreign keys and the UNIQUE constraint guard the write.    *)
(***************************************************************************)
CONSTANTS
    Folders,   \* ids of folders
    Cases,
    Names,
    Filings,   \* requests that are served at the same time
    Root,      \* the parent of a folder that has none (NULL)
    Keep,      \* what a PATCH leaves alone
    NoFolder   \* no row

VARIABLES
    folder,   \* id -> its row
    filing,   \* request -> what it does
    looped    \* history: a PATCH has put a folder below itself

filingVars == <<folder, filing, looped>>

Parents == Folders \cup {Root}
FolderRows == [case : Cases, parent : Parents, name : Names]

ASSUME NoFolderAssumption == NoFolder \notin FolderRows
ASSUME RootAssumption == Root \notin Folders

NoFiling == [step |-> "idle"]

FilingTypeOK ==
    /\ folder \in [Folders -> FolderRows \cup {NoFolder}]
    /\ filing \in [Filings ->
           [step : {"insert"}, row : FolderRows] \cup [step : {"delete"}, id : Folders]
           \cup [step : {"update"}, id : Folders, parent : Parents \cup {Keep}, name : Names \cup {Keep}]
           \cup {NoFiling}]
    /\ looped \in BOOLEAN

FilingInit ==
    /\ folder = [f \in Folders |-> NoFolder]
    /\ filing = [r \in Filings |-> NoFiling]
    /\ looped = FALSE
-------------------------------------------------------------------------------
Present == {f \in Folders : folder[f] # NoFolder}

(* x and all that is below it: what ON DELETE CASCADE takes along with x.  *)
Below(x) ==
    {g \in Parents :
        \A S \in SUBSET Parents :
            /\ x \in S
            /\ \A f \in Present : folder[f].parent \in S => f \in S
            => g \in S}

(* The foreign key of parent_folder_id, and UNIQUE (case_id,               *)
(* parent_folder_id, name), for which no two NULLs are equal.              *)
ParentExists(row) == row.parent \in Present \cup {Root}
Unique(f, row) == row.parent # Root => \A g \in Present \ {f} : folder[g] # row

(* Ids are never given twice.                                              *)
Mentioned(f) ==
    \E q \in Filings :
        \/ filing[q].step \in {"update", "delete"} /\ filing[q].id = f
        \/ filing[q].step = "insert" /\ filing[q].row.parent = f
        \/ filing[q].step = "update" /\ filing[q].parent = f

FileAs(r, state) == filing' = [filing EXCEPT ![r] = state]

BeginFiling(r, state) ==
    /\ filing[r] = NoFiling
    /\ FileAs(r, state)
    /\ UNCHANGED <<folder, looped>>
-------------------------------------------------------------------------------
(* create_folder: the parent has to be a folder of the case.               *)
BeginCreate(r, c, p, n) ==
    /\ p # Root => p \in Present /\ folder[p].case = c
    /\ BeginFiling(r, [step |-> "insert", row |-> [case |-> c, parent |-> p, name |-> n]])

(* Mutant: no foreign key.                                                 *)
InsertFolderUnder(r, f) ==
    /\ filing[r].step = "insert"
    /\ f \notin Present
    /\ folder' = [folder EXCEPT ![f] = filing[r].row]
    /\ FileAs(r, NoFiling)
    /\ UNCHANGED looped

InsertFolder(r, f) ==
    LET row == filing[r].row
    IN  /\ filing[r].step = "insert"
        /\ f \notin Present
        /\ ~Mentioned(f)
        /\ folder' = IF ParentExists(row) /\ Unique(f, row)
                     THEN [folder EXCEPT ![f] = row] ELSE folder
        /\ FileAs(r, NoFiling)
        /\ UNCHANGED looped

(* update_folder: a folder may not become its own parent; nothing else is  *)
(* asked of the parent.                                                    *)
BeginUpdate(r, f, p, n) ==
    /\ f \in Present
    /\ p # f
    /\ BeginFiling(r, [step |-> "update", id |-> f, parent |-> p, name |-> n])

Updated(q) ==
    LET old == folder[q.id]
    IN  [case |-> old.case,
         parent |-> IF q.parent = Keep THEN old.parent ELSE q.parent,
         name |-> IF q.name = Keep THEN old.name ELSE q.name]

Accepted(q) ==
    /\ q.id \in Present
    /\ ParentExists(Updated(q)) /\ Unique(q.id, Updated(q))

UpdateFolder(r) ==
    LET q == filing[r]
    IN  /\ q.step = "update"
        /\ folder' = IF Accepted(q) THEN [folder EXCEPT ![q.id] = Updated(q)] ELSE folder
        /\ FileAs(r, NoFiling)
        /\ looped' = (looped \/ (Accepted(q) /\ Updated(q).parent \in Below(q.id)))

BeginDelete(r, f) ==
    /\ f \in Present
    /\ BeginFiling(r, [step |-> "delete", id |-> f])

(* delete_folder, with the cascade.                                        *)
DeleteFolder(r) ==
    /\ filing[r].step = "delete"
    /\ folder' = [f \in Folders |-> IF f \in Below(filing[r].id) THEN NoFolder ELSE folder[f]]
    /\ FileAs(r, NoFiling)
    /\ UNCHANGED looped

FilingNext ==
    \E r \in Filings :
        \/ \E c \in Cases, p \in Parents, n \in Names : BeginCreate(r, c, p, n)
        \/ \E f \in Folders : InsertFolder(r, f)
        \/ \E f \in Folders, p \in Parents \cup {Keep}, n \in Names \cup {Keep} : BeginUpdate(r, f, p, n)
        \/ UpdateFolder(r)
        \/ \E f \in Folders : BeginDelete(r, f)
        \/ DeleteFolder(r)

FilingSpec == FilingInit /\ [][FilingNext]_filingVars
-------------------------------------------------------------------------------
(* Folders form hierarchies (FR-112): from each of them the way up ends at *)
(* the root of the case, whatever is created, renamed, moved and deleted   *)
(* around it, until a folder is moved into one that is below it already,   *)
(* which update_folder does not look for.                                  *)
Forest == ~looped => Present \subseteq Below(Root)
===============================================================================
