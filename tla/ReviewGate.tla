------------------------------- MODULE ReviewGate -------------------------------
(***************************************************************************)
(* AI outputs of one case, from generation to export (backend/app/api/     *)
(* ai_outputs.py, ai_doc.py, assistant.py; migrations 0008 and 0013).      *)
(*                                                                         *)
(* A generation reads the case's chunks, waits for the LLM and inserts a   *)
(* draft.  Approval reads the output, checks the caller and updates the    *)
(* row by its id; row-level security checks the caller's assignment again  *)
(* with that statement, nothing checks the review state again.             *)
(***************************************************************************)
CONSTANTS
    Managers,       \* users with role partner_manager
    Lawyers,        \* users with role lawyer
    Others,         \* users with role paralegal or secretary
    Sources,        \* the case's documents
    Outputs,        \* ids of rows of table ai_outputs
    Kinds,          \* kinds of generation that are requested
    NoUser,         \* no user
    CreatorInScope  \* FALSE is the code: _create_ai_output names a variable
                    \* of its callers and raises NameError; TRUE is the code
                    \* with the user passed to it

Users == Managers \cup Lawyers \cup Others

ASSUME KindsAssumption == Kinds \subseteq {"document", "case", "assistant"}
ASSUME NoUserAssumption == NoUser \notin Users
ASSUME SwitchAssumption == CreatorInScope \in BOOLEAN

VARIABLES
    assigned,      \* users assigned to the case
    sourceStatus,  \* document -> documents.status
    chunked,       \* documents with rows in document_chunks
    outputs,       \* output -> its row
    generation,    \* output -> the request that generates it
    approval,      \* user -> the user's approve request
    export,        \* user -> the user's export request
    released       \* auxiliary: rows that were returned by an export

reviewVars == <<assigned, sourceStatus, chunked, outputs, generation, approval, export, released>>

NoRow == [state |-> "absent", sources |-> {}, flag |-> FALSE, by |-> NoUser]
NoGeneration == [step |-> "none", kind |-> "document", user |-> NoUser, sources |-> {}, flag |-> FALSE]
NoApproval == [step |-> "idle", output |-> NoUser]
NoExport == [step |-> "idle", output |-> NoUser, row |-> NoRow]

Rows ==
    [state : {"absent", "draft_unreviewed", "approved"}, sources : SUBSET Sources,
     flag : BOOLEAN, by : Users \cup {NoUser}]

ReviewTypeOK ==
    /\ assigned \subseteq Users
    /\ sourceStatus \in [Sources -> {"processing", "ready", "low_confidence", "failed"}]
    /\ chunked \subseteq Sources
    /\ outputs \in [Outputs -> Rows]
    /\ generation \in [Outputs ->
           [step : {"none", "retrieve", "generate", "insert", "over"},
            kind : Kinds \cup {"document"}, user : Users \cup {NoUser},
            sources : SUBSET Sources, flag : BOOLEAN]]
    /\ approval \in [Users -> [step : {"check", "update"}, output : Outputs] \cup {NoApproval}]
    /\ export \in [Users -> [step : {"check"}, output : Outputs, row : Rows] \cup {NoExport}]
    /\ \A r \in released : r.output \in Outputs /\ r.row \in Rows

ReviewInit ==
    /\ assigned \in SUBSET (Lawyers \cup Others)
    /\ sourceStatus = [d \in Sources |-> "processing"]
    /\ chunked = {}
    /\ outputs = [o \in Outputs |-> NoRow]
    /\ generation = [o \in Outputs |-> NoGeneration]
    /\ approval = [u \in Users |-> NoApproval]
    /\ export = [u \in Users |-> NoExport]
    /\ released = {}

(* assert_case_access, and the policies that read and insert.              *)
HasAccess(u) == u \in Managers \/ u \in assigned
-------------------------------------------------------------------------------
(* The ingestion pipeline: chunks are visible while a document is          *)
(* processing, and stay when storing the rest of them fails.               *)
StoreChunks(d) ==
    /\ sourceStatus[d] = "processing"
    /\ chunked' = chunked \cup {d}
    /\ UNCHANGED <<assigned, sourceStatus, outputs, generation, approval, export, released>>

FinishSource(d) ==
    /\ sourceStatus[d] = "processing" /\ d \in chunked
    /\ \E s \in {"ready", "low_confidence", "failed"} : sourceStatus' = [sourceStatus EXCEPT ![d] = s]
    /\ UNCHANGED <<assigned, chunked, outputs, generation, approval, export, released>>

(* Assignments end; the code that adds one to a case that exists passes    *)
(* its statement the wrong number of arguments and always fails.           *)
Unassign(u) ==
    /\ assigned' = assigned \ {u}
    /\ UNCHANGED <<sourceStatus, chunked, outputs, generation, approval, export, released>>
-------------------------------------------------------------------------------
Generating(o, g) ==
    /\ generation' = [generation EXCEPT ![o] = g]
    /\ UNCHANGED <<assigned, sourceStatus, chunked, approval, export, released>>

(* summarize, analyze-contract and risk-signals take a document that is    *)
(* ready or low_confidence, and its flag; the others take the case.        *)
Request(o, u) ==
    /\ generation[o] = NoGeneration
    /\ HasAccess(u)
    /\ \/ "document" \in Kinds /\ \E d \in Sources :
              /\ sourceStatus[d] \in {"ready", "low_confidence"}
              /\ Generating(o, [step |-> "retrieve", kind |-> "document", user |-> u,
                                sources |-> {d}, flag |-> sourceStatus[d] = "low_confidence"])
       \/ \E kind \in Kinds \ {"document"} :
              Generating(o, [NoGeneration EXCEPT !.step = "retrieve", !.kind = kind, !.user = u])
    /\ UNCHANGED outputs

(* retrieve, retrieve_scoped: chunks of the document, or of any documents  *)
(* of the case whatever their status; none if access has been lost.  Only  *)
(* a timeline or letter may go on without chunks, and the assistant not.   *)
Retrieve(o) ==
    LET g == generation[o]
        visible == IF HasAccess(g.user) THEN chunked ELSE {}
    IN  /\ g.step = "retrieve"
        /\ \/ g.kind = "document" /\ g.sources \subseteq visible
              /\ Generating(o, [g EXCEPT !.step = "generate"])
           \/ g.kind # "document" /\ \E s \in SUBSET visible :
                  /\ g.kind = "assistant" => s # {}
                  /\ Generating(o, [g EXCEPT !.step = "generate", !.sources = s])
        /\ UNCHANGED outputs

(* The LLM has answered.  Only the case-wide kinds look for low confidence *)
(* now (_case_low_confidence), the assistant never does.                   *)
Generate(o) ==
    LET g == generation[o]
        low == \E d \in Sources : sourceStatus[d] = "low_confidence" /\ HasAccess(g.user)
    IN  /\ g.step = "generate"
        /\ Generating(o, [g EXCEPT !.step = "insert",
                                   !.flag = IF g.kind = "case" THEN low ELSE @])
        /\ UNCHANGED outputs

(* Mutant: the flag is not passed on to the row.                           *)
DraftOfUnflagged(g) == [state |-> "draft_unreviewed", sources |-> g.sources, flag |-> FALSE, by |-> NoUser]

DraftOf(g) == [state |-> "draft_unreviewed", sources |-> g.sources, flag |-> g.flag, by |-> NoUser]

(* _create_ai_output, _save_as_draft: the INSERT, which row-level security *)
(* refuses to users who have lost access.                                  *)
InsertDraft(o) ==
    LET g == generation[o]
        inserts == HasAccess(g.user) /\ (CreatorInScope \/ g.kind = "assistant")
    IN  /\ g.step = "insert"
        /\ outputs' = [outputs EXCEPT ![o] = IF inserts THEN DraftOf(g) ELSE @]
        /\ Generating(o, [g EXCEPT !.step = "over"])

(* No chunk, or the embedding or the LLM fails.                            *)
GenerationFails(o) ==
    /\ generation[o].step \in {"retrieve", "generate"}
    /\ Generating(o, [generation[o] EXCEPT !.step = "over"])
    /\ UNCHANGED outputs
-------------------------------------------------------------------------------
Approving(u, request) ==
    /\ approval' = [approval EXCEPT ![u] = request]
    /\ UNCHANGED <<assigned, sourceStatus, chunked, generation, export, released>>

(* The role is checked, the output is read; 409 if it is approved.         *)
BeginApprove(u, o) ==
    /\ approval[u] = NoApproval
    /\ u \in Managers \cup Lawyers
    /\ outputs[o].state = "draft_unreviewed"
    /\ HasAccess(u)
    /\ Approving(u, [step |-> "check", output |-> o])
    /\ UNCHANGED outputs

(* assert_case_access and is_assigned_to_case.                             *)
CheckApprover(u) ==
    /\ approval[u].step = "check"
    /\ Approving(u, IF HasAccess(u) THEN [approval[u] EXCEPT !.step = "update"] ELSE NoApproval)
    /\ UNCHANGED outputs

(* Mutant: the UPDATE is not subject to row-level security.                *)
ApproveUnchecked(u) ==
    /\ approval[u].step = "update"
    /\ outputs' = [outputs EXCEPT ![approval[u].output].state = "approved",
                                  ![approval[u].output].by = u]
    /\ Approving(u, NoApproval)

(* UPDATE ... WHERE id = $1, or no row for a lawyer no longer assigned.    *)
Approve(u) ==
    /\ approval[u].step = "update"
    /\ IF HasAccess(u)
       THEN outputs' = [outputs EXCEPT ![approval[u].output].state = "approved",
                                       ![approval[u].output].by = u]
       ELSE UNCHANGED outputs
    /\ Approving(u, NoApproval)
-------------------------------------------------------------------------------
(* Mutant: the export reads the table and not the view.                    *)
BeginExportOfAny(u, o) ==
    /\ export[u] = NoExport
    /\ HasAccess(u) /\ outputs[o].state # "absent"
    /\ export' = [export EXCEPT ![u] = [step |-> "check", output |-> o, row |-> outputs[o]]]
    /\ UNCHANGED <<assigned, sourceStatus, chunked, outputs, generation, approval, released>>

(* The row is read from ai_outputs_exportable, 403 if it is not there.     *)
BeginExport(u, o) ==
    /\ export[u] = NoExport
    /\ HasAccess(u) /\ outputs[o].state = "approved"
    /\ export' = [export EXCEPT ![u] = [step |-> "check", output |-> o, row |-> outputs[o]]]
    /\ UNCHANGED <<assigned, sourceStatus, chunked, outputs, generation, approval, released>>

(* assert_case_access; then the row that was read is returned.             *)
FinishExport(u) ==
    /\ export[u].step = "check"
    /\ released' = IF HasAccess(u) THEN released \cup {[output |-> export[u].output, row |-> export[u].row]}
                   ELSE released
    /\ export' = [export EXCEPT ![u] = NoExport]
    /\ UNCHANGED <<assigned, sourceStatus, chunked, outputs, generation, approval>>

ReviewNext ==
    \/ \E d \in Sources : StoreChunks(d) \/ FinishSource(d)
    \/ \E u \in Lawyers \cup Others : Unassign(u)
    \/ \E o \in Outputs, u \in Users : Request(o, u)
    \/ \E o \in Outputs : Retrieve(o) \/ Generate(o) \/ InsertDraft(o) \/ GenerationFails(o)
    \/ \E u \in Users, o \in Outputs : BeginApprove(u, o)
    \/ \E u \in Users : CheckApprover(u) \/ Approve(u)
    \/ \E u \in Users, o \in Outputs : BeginExport(u, o)
    \/ \E u \in Users : FinishExport(u)

ReviewSpec == ReviewInit /\ [][ReviewNext]_reviewVars
-------------------------------------------------------------------------------
(* "Only the lawyer assigned to the case or a partner_manager MAY approve  *)
(* an AI output" (FR-018), also when the assignment ends while an approve  *)
(* request is between its statements.                                      *)
ApproverEntitled ==
    [][\A o \in Outputs :
           outputs'[o].by # outputs[o].by
           => outputs'[o].by \in Managers \cup (Lawyers \cap assigned)]_reviewVars

(* Nothing leaves the gate that is not approved, and what was approved is  *)
(* what leaves (0008: the content being approved is the reviewed content). *)
ReleasedIsApproved ==
    \A r \in released :
        /\ r.row.by # NoUser
        /\ outputs[r.output].state = "approved"
        /\ r.row.sources = outputs[r.output].sources /\ r.row.flag = outputs[r.output].flag

(* "Outputs derived from a low_confidence document set low_confidence_flag *)
(* = true" (data-model.md:130): those generated from one document, however *)
(* ingestion and generation interleave.                                    *)
FlagInherited ==
    \A o \in Outputs :
        /\ generation[o].kind = "document"
        /\ \E d \in outputs[o].sources : sourceStatus[d] = "low_confidence"
        => outputs[o].flag

(* A failed document is "surfaced to user, no AI output"                   *)
(* (data-model.md:108), as far as generations from one document go.        *)
NoOutputFromFailed ==
    \A o \in Outputs :
        generation[o].kind = "document" => \A d \in outputs[o].sources : sourceStatus[d] # "failed"
===============================================================================
