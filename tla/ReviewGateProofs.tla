--------------------------- MODULE ReviewGateProofs ---------------------------
(***************************************************************************)
(* Proofs about ReviewGate, for any number of users, documents and outputs *)
(* and with any interleaving of their requests.                            *)
(***************************************************************************)
EXTENDS ReviewGate, TLAPS

(* An output has its row from the end of its generation on.                *)
NoRowBefore == \A o \in Outputs : generation[o].step # "over" => outputs[o] = NoRow

(* What is approved has an approver, and only a role that may approve has  *)
(* a request for it.                                                       *)
ApprovedByRole ==
    /\ \A o \in Outputs : outputs[o].by # NoUser <=> outputs[o].state = "approved"
    /\ \A u \in Users : approval[u].step # "idle" =>
           u \in Managers \cup Lawyers /\ outputs[approval[u].output].state # "absent"

SameContent(row, o) ==
    /\ row.by # NoUser
    /\ outputs[o].state = "approved"
    /\ row.sources = outputs[o].sources /\ row.flag = outputs[o].flag

(* An export holds what is still the content of the approved row.          *)
ExportsApproved == \A u \in Users : export[u].step # "idle" => SameContent(export[u].row, export[u].output)

(* What is generated from one document comes from a document that was      *)
(* finished, and finished documents stay what they are.                    *)
FromFinished ==
    \A o \in Outputs : generation[o].kind = "document" =>
        /\ \A d \in generation[o].sources :
               /\ sourceStatus[d] \in {"ready", "low_confidence"}
               /\ sourceStatus[d] = "low_confidence" => generation[o].flag
        /\ \A d \in outputs[o].sources :
               /\ sourceStatus[d] \in {"ready", "low_confidence"}
               /\ sourceStatus[d] = "low_confidence" => outputs[o].flag

IInv ==
    /\ ReviewTypeOK /\ NoRowBefore /\ ApprovedByRole /\ ExportsApproved /\ FromFinished
    /\ ReleasedIsApproved
-------------------------------------------------------------------------------
LEMMA InitIInv == ReviewInit => IInv
BY NoUserAssumption
DEF ReviewInit, IInv, ReviewTypeOK, NoRowBefore, ApprovedByRole, ExportsApproved, FromFinished, ReleasedIsApproved,
    Users, Rows, NoRow, NoGeneration, NoApproval, NoExport

(* Rows that have left stay as they are when no row that is approved       *)
(* changes its content.                                                    *)
LEMMA ContentStays ==
    ASSUME IInv, outputs' \in [Outputs -> Rows],
           \A o \in Outputs : outputs[o].state = "approved" =>
               /\ outputs'[o].state = "approved"
               /\ outputs'[o].sources = outputs[o].sources /\ outputs'[o].flag = outputs[o].flag
    PROVE  /\ UNCHANGED released => ReleasedIsApproved'
           /\ UNCHANGED export => ExportsApproved'
<1>1. UNCHANGED released => ReleasedIsApproved'
    BY DEF IInv, ReviewTypeOK, ReleasedIsApproved
<1>2. \A u \in Users : export[u].step # "idle" => export[u].output \in Outputs
    BY DEF IInv, ReviewTypeOK, NoExport
<1>3. UNCHANGED export => ExportsApproved'
    BY <1>2 DEF IInv, ExportsApproved, SameContent
<1> QED
    BY <1>1, <1>3

(* A step of a generation that has no row yet.                             *)
LEMMA GenerationKeeps ==
    ASSUME IInv, NEW o \in Outputs,
           NEW g \in [step : {"retrieve", "generate", "insert", "over"}, kind : Kinds \cup {"document"},
                      user : Users \cup {NoUser}, sources : SUBSET Sources, flag : BOOLEAN],
           generation[o].step # "over", Generating(o, g), UNCHANGED outputs,
           g.kind = "document" => \A d \in g.sources :
               /\ sourceStatus[d] \in {"ready", "low_confidence"}
               /\ sourceStatus[d] = "low_confidence" => g.flag
    PROVE  IInv'
<1>1. /\ generation' = [generation EXCEPT ![o] = g]
      /\ UNCHANGED <<assigned, sourceStatus, chunked, approval, export, released>>
    BY DEF Generating
<1>2. ReviewTypeOK'
    BY <1>1 DEF IInv, ReviewTypeOK
<1>3. generation'[o] = g /\ \A p \in Outputs \ {o} : generation'[p] = generation[p]
    BY <1>1 DEF IInv, ReviewTypeOK
<1>4. outputs[o] = NoRow
    BY DEF IInv, NoRowBefore
<1>5. NoRowBefore' /\ ApprovedByRole'
    BY <1>1, <1>3, <1>4 DEF IInv, NoRowBefore, ApprovedByRole
<1>6. FromFinished'
    BY <1>1, <1>3, <1>4 DEF IInv, FromFinished, NoRow
<1>7. ReleasedIsApproved' /\ ExportsApproved'
    BY <1>1 DEF IInv, ReleasedIsApproved, ExportsApproved, SameContent
<1> QED
    BY <1>2, <1>5, <1>6, <1>7 DEF IInv

LEMMA GenerationType ==
    ASSUME IInv, NEW o \in Outputs
    PROVE  /\ generation[o] \in [step : {"none", "retrieve", "generate", "insert", "over"},
                                 kind : Kinds \cup {"document"}, user : Users \cup {NoUser},
                                 sources : SUBSET Sources, flag : BOOLEAN]
           /\ chunked \subseteq Sources
           /\ generation[o].kind = "document" => \A d \in generation[o].sources :
                  /\ sourceStatus[d] \in {"ready", "low_confidence"}
                  /\ sourceStatus[d] = "low_confidence" => generation[o].flag
BY DEF IInv, ReviewTypeOK, FromFinished
-------------------------------------------------------------------------------
LEMMA RequestKeeps ==
    ASSUME IInv, NEW o \in Outputs, NEW u \in Users, Request(o, u)
    PROVE  IInv'
<1>1. generation[o].step = "none"
  <2>1. NoGeneration.step = "none"
      BY DEF NoGeneration
  <2> QED
      BY <2>1 DEF Request
<1>2. ASSUME NEW d \in Sources, sourceStatus[d] \in {"ready", "low_confidence"},
             Generating(o, [step |-> "retrieve", kind |-> "document", user |-> u,
                            sources |-> {d}, flag |-> sourceStatus[d] = "low_confidence"])
      PROVE  IInv'
    BY <1>1, <1>2, GenerationKeeps DEF Request
<1>3. ASSUME NEW kind \in Kinds \ {"document"},
             Generating(o, [NoGeneration EXCEPT !.step = "retrieve", !.kind = kind, !.user = u])
      PROVE  IInv'
  <2> DEFINE g == [NoGeneration EXCEPT !.step = "retrieve", !.kind = kind, !.user = u]
  <2>1. NoGeneration \in [step : {"none"}, kind : {"document"}, user : {NoUser}, sources : {{}}, flag : {FALSE}]
      BY DEF NoGeneration
  <2>2. /\ g \in [step : {"retrieve", "generate", "insert", "over"}, kind : Kinds \cup {"document"},
                  user : Users \cup {NoUser}, sources : SUBSET Sources, flag : BOOLEAN]
        /\ g.kind # "document"
    <3> HIDE DEF NoGeneration
    <3> QED
        BY <2>1
  <2>3. Generating(o, g) /\ UNCHANGED outputs
      BY <1>3 DEF Request
  <2> HIDE DEF g
  <2> QED
      BY <1>1, <2>2, <2>3, GenerationKeeps
<1> QED
    BY <1>2, <1>3 DEF Request

LEMMA RetrieveKeeps ==
    ASSUME IInv, NEW o \in Outputs, Retrieve(o)
    PROVE  IInv'
<1> DEFINE g == generation[o]
<1>1. CASE g.kind = "document" /\ Generating(o, [g EXCEPT !.step = "generate"])
    BY <1>1, GenerationType, GenerationKeeps DEF Retrieve
<1>2. ASSUME NEW s \in SUBSET chunked, g.kind # "document",
             Generating(o, [g EXCEPT !.step = "generate", !.sources = s])
      PROVE  IInv'
    BY <1>2, GenerationType, GenerationKeeps DEF Retrieve
<1> QED
    BY <1>1, <1>2 DEF Retrieve

LEMMA GenerateKeeps ==
    ASSUME IInv, NEW o \in Outputs, Generate(o) \/ GenerationFails(o)
    PROVE  IInv'
<1> DEFINE g == generation[o]
<1>1. CASE Generate(o)
  <2>1. PICK low \in BOOLEAN : Generating(o, [g EXCEPT !.step = "insert", !.flag = IF g.kind = "case" THEN low ELSE @])
      BY <1>1 DEF Generate
  <2>2. CASE g.kind = "case"
      BY <1>1, <2>1, <2>2, GenerationType, GenerationKeeps DEF Generate
  <2>3. CASE g.kind # "case"
      BY <1>1, <2>1, <2>3, GenerationType, GenerationKeeps DEF Generate
  <2> QED
      BY <2>2, <2>3
<1>2. CASE GenerationFails(o)
    BY <1>2, GenerationType, GenerationKeeps DEF GenerationFails
<1> QED
    BY <1>1, <1>2

LEMMA InsertKeeps ==
    ASSUME IInv, NEW o \in Outputs, InsertDraft(o)
    PROVE  /\ IInv'
           /\ \A p \in Outputs : outputs'[p].by = outputs[p].by
<1> DEFINE g == generation[o]
<1>1. /\ generation' = [generation EXCEPT ![o] = [g EXCEPT !.step = "over"]]
      /\ UNCHANGED <<assigned, sourceStatus, chunked, approval, export, released>>
    BY DEF InsertDraft, Generating
<1>2. outputs[o] = NoRow
    BY DEF IInv, NoRowBefore, InsertDraft
<1>3. PICK row \in {NoRow, DraftOf(g)} : outputs' = [outputs EXCEPT ![o] = row]
    BY <1>2 DEF InsertDraft
<1>4. /\ row \in Rows /\ row.by = NoUser /\ row.state # "approved"
      /\ row.sources = {} \/ (row.sources = g.sources /\ row.flag = g.flag)
  <2>1. CASE row = NoRow
      BY <2>1 DEF Rows, NoRow
  <2>2. CASE row = DraftOf(g)
    <3>1. g.sources \subseteq Sources /\ g.flag \in BOOLEAN
        BY GenerationType
    <3>2. row.by = NoUser /\ row.state # "approved" /\ row.sources = g.sources /\ row.flag = g.flag
        BY <2>2, Zenon DEF DraftOf
    <3> QED
        BY <2>2, <3>1, <3>2 DEF Rows, DraftOf
  <2> QED
      BY <2>1, <2>2
<1>5. /\ outputs'[o] = row /\ \A p \in Outputs \ {o} : outputs'[p] = outputs[p]
      /\ outputs' \in [Outputs -> Rows]
    BY <1>3, <1>4 DEF IInv, ReviewTypeOK
<1>6. /\ generation'[o].step = "over" /\ generation'[o].kind = g.kind
      /\ generation'[o].sources = g.sources /\ generation'[o].flag = g.flag
      /\ \A p \in Outputs \ {o} : generation'[p] = generation[p]
    BY <1>1, GenerationType DEF IInv, ReviewTypeOK
<1>7. ReviewTypeOK'
  <2>1. [g EXCEPT !.step = "over"] \in [step : {"none", "retrieve", "generate", "insert", "over"},
                                        kind : Kinds \cup {"document"}, user : Users \cup {NoUser},
                                        sources : SUBSET Sources, flag : BOOLEAN]
      BY GenerationType
  <2> QED
      BY <1>1, <1>5, <2>1 DEF IInv, ReviewTypeOK
<1>8. NoRowBefore'
    BY <1>5, <1>6 DEF IInv, NoRowBefore
<1>9. ApprovedByRole'
  <2>1. \A u \in Users : approval[u].step # "idle" => approval[u].output \in Outputs
      BY DEF IInv, ReviewTypeOK, NoApproval
  <2> QED
      BY <1>1, <1>2, <1>4, <1>5, <2>1 DEF IInv, ApprovedByRole, NoRow
<1>10. FromFinished'
    BY <1>1, <1>4, <1>5, <1>6 DEF IInv, FromFinished
<1>11. ReleasedIsApproved' /\ ExportsApproved'
    BY <1>1, <1>2, <1>5, ContentStays DEF NoRow
<1> QED
    BY <1>2, <1>4, <1>5, <1>7, <1>8, <1>9, <1>10, <1>11 DEF IInv, NoRow
-------------------------------------------------------------------------------
LEMMA ApprovalType ==
    ASSUME IInv, NEW u \in Users, approval[u].step # "idle"
    PROVE  approval[u] \in [step : {"check", "update"}, output : Outputs]
BY DEF IInv, ReviewTypeOK, NoApproval

(* A step of an approve request that changes no output.                    *)
LEMMA ApprovingKeeps ==
    ASSUME IInv, NEW u \in Users,
           NEW request \in [step : {"check", "update"}, output : Outputs] \cup {NoApproval},
           Approving(u, request), UNCHANGED outputs,
           request.step # "idle" => u \in Managers \cup Lawyers /\ outputs[request.output].state # "absent"
    PROVE  IInv'
<1>1. /\ approval' = [approval EXCEPT ![u] = request]
      /\ UNCHANGED <<assigned, sourceStatus, chunked, generation, export, released>>
    BY DEF Approving
<1> QED
    BY <1>1 DEF IInv, ReviewTypeOK, NoRowBefore, ApprovedByRole, ExportsApproved, SameContent, FromFinished, ReleasedIsApproved

LEMMA ApproveKeeps ==
    ASSUME IInv, NEW u \in Users, Approve(u)
    PROVE  /\ IInv'
           /\ \A o \in Outputs : outputs'[o].by # outputs[o].by
                  => outputs'[o].by \in Managers \cup (Lawyers \cap assigned)
<1>1. approval[u] \in [step : {"check", "update"}, output : Outputs] /\ approval[u].step # "idle"
    BY ApprovalType DEF Approve
<1> PICK o \in Outputs : o = approval[u].output
    BY <1>1
<1>2. u \in Managers \cup Lawyers /\ outputs[o].state # "absent"
    BY <1>1 DEF IInv, ApprovedByRole
<1>3. CASE HasAccess(u)
  <2>1. /\ outputs' = [outputs EXCEPT ![o].state = "approved", ![o].by = u]
        /\ approval' = [approval EXCEPT ![u] = NoApproval]
        /\ UNCHANGED <<assigned, sourceStatus, chunked, generation, export, released>>
      BY <1>3 DEF Approve, Approving
  <2>2. outputs[o] \in Rows /\ outputs \in [Outputs -> Rows]
      BY DEF IInv, ReviewTypeOK
  <2>3. /\ outputs'[o] = [outputs[o] EXCEPT !.state = "approved", !.by = u]
        /\ \A p \in Outputs \ {o} : outputs'[p] = outputs[p]
      BY <2>1, <2>2
  <2>4. /\ outputs'[o].state = "approved" /\ outputs'[o].by = u /\ outputs'[o] \in Rows
        /\ outputs'[o].sources = outputs[o].sources /\ outputs'[o].flag = outputs[o].flag
      BY <2>2, <2>3 DEF Rows
  <2>5. outputs' \in [Outputs -> Rows]
      BY <2>1, <2>2, <2>3, <2>4
  <2>6. ReviewTypeOK'
      BY <2>1, <2>5 DEF IInv, ReviewTypeOK
  <2>7. NoRowBefore'
    <3>1. NoRow.state = "absent"
        BY DEF NoRow
    <3> QED
        BY <1>2, <2>1, <2>3, <3>1 DEF IInv, NoRowBefore
  <2>8. ApprovedByRole'
    <3>1. u # NoUser
        BY NoUserAssumption
    <3>2. \A v \in Users : approval[v].step # "idle" => approval[v].output \in Outputs
        BY ApprovalType
    <3>3. \A v \in Users : approval'[v].step # "idle" => approval'[v] = approval[v]
        BY <2>1 DEF IInv, ReviewTypeOK, NoApproval
    <3>4. \A p \in Outputs : outputs'[p].by # NoUser <=> outputs'[p].state = "approved"
        BY <2>3, <2>4, <3>1 DEF IInv, ApprovedByRole
    <3>5. \A p \in Outputs : outputs[p].state # "absent" => outputs'[p].state # "absent"
        BY <2>3, <2>4
    <3> QED
        BY <3>2, <3>3, <3>4, <3>5 DEF IInv, ApprovedByRole
  <2>9. FromFinished'
    <3>1. \A p \in Outputs : outputs'[p].sources = outputs[p].sources /\ outputs'[p].flag = outputs[p].flag
        BY <2>3, <2>4
    <3> QED
        BY <2>1, <3>1 DEF IInv, FromFinished
  <2>10. ReleasedIsApproved' /\ ExportsApproved'
      BY <2>1, <2>3, <2>4, <2>5, ContentStays
  <2> QED
      BY <1>2, <1>3, <2>3, <2>4, <2>6, <2>7, <2>8, <2>9, <2>10 DEF IInv, HasAccess
<1>4. CASE ~HasAccess(u)
  <2>1. Approving(u, NoApproval) /\ UNCHANGED outputs /\ NoApproval.step = "idle"
      BY <1>4 DEF Approve, NoApproval
  <2> QED
      BY <2>1, ApprovingKeeps
<1> QED
    BY <1>3, <1>4

LEMMA ApprovalKeeps ==
    ASSUME IInv, NEW u \in Users, (\E o \in Outputs : BeginApprove(u, o)) \/ CheckApprover(u)
    PROVE  IInv'
<1>1. ASSUME NEW o \in Outputs, BeginApprove(u, o)
      PROVE  IInv'
    BY <1>1, ApprovingKeeps DEF BeginApprove
<1>2. CASE CheckApprover(u)
  <2>1. approval[u] \in [step : {"check", "update"}, output : Outputs] /\ approval[u].step # "idle"
      BY <1>2, ApprovalType DEF CheckApprover
  <2>2. CASE Approving(u, [approval[u] EXCEPT !.step = "update"])
      BY <1>2, <2>1, <2>2, ApprovingKeeps DEF CheckApprover, IInv, ApprovedByRole
  <2>3. CASE Approving(u, NoApproval)
    <3>1. NoApproval.step = "idle"
        BY DEF NoApproval
    <3> QED
        BY <1>2, <2>3, <3>1, ApprovingKeeps DEF CheckApprover
  <2> QED
      BY <1>2, <2>2, <2>3 DEF CheckApprover
<1> QED
    BY <1>1, <1>2

LEMMA ExportKeeps ==
    ASSUME IInv, NEW u \in Users, (\E o \in Outputs : BeginExport(u, o)) \/ FinishExport(u)
    PROVE  IInv'
<1>1. UNCHANGED <<assigned, sourceStatus, chunked, outputs, generation, approval>>
    BY DEF BeginExport, FinishExport
<1>2. NoRowBefore' /\ ApprovedByRole' /\ FromFinished'
    BY <1>1 DEF IInv, NoRowBefore, ApprovedByRole, FromFinished
<1>3. ASSUME NEW o \in Outputs, BeginExport(u, o)
      PROVE  IInv'
  <2>1. /\ export' = [export EXCEPT ![u] = [step |-> "check", output |-> o, row |-> outputs[o]]]
        /\ UNCHANGED released /\ outputs[o].state = "approved" /\ outputs[o].by # NoUser
      BY <1>3 DEF BeginExport, IInv, ApprovedByRole
  <2>2. ReviewTypeOK'
      BY <1>1, <2>1 DEF IInv, ReviewTypeOK
  <2>3. ExportsApproved' /\ ReleasedIsApproved'
      BY <1>1, <2>1 DEF IInv, ReviewTypeOK, ExportsApproved, SameContent, ReleasedIsApproved
  <2> QED
      BY <1>2, <2>2, <2>3 DEF IInv
<1>4. CASE FinishExport(u)
  <2>1. export[u].step # "idle" /\ export' = [export EXCEPT ![u] = NoExport]
        /\ released' \subseteq released \cup {[output |-> export[u].output, row |-> export[u].row]}
      BY <1>4 DEF FinishExport
  <2>2. export[u].output \in Outputs /\ export[u].row \in Rows
      BY <2>1 DEF IInv, ReviewTypeOK, NoExport
  <2>3. SameContent(export[u].row, export[u].output)
      BY <2>1 DEF IInv, ExportsApproved
  <2>4. ReviewTypeOK'
      BY <1>1, <2>1, <2>2 DEF IInv, ReviewTypeOK
  <2>5. ReleasedIsApproved'
      BY <1>1, <2>1, <2>3 DEF IInv, ReleasedIsApproved, SameContent
  <2>6. \A v \in Users : export'[v].step # "idle" => export'[v] = export[v]
      BY <2>1 DEF IInv, ReviewTypeOK, NoExport
  <2>7. ExportsApproved'
      BY <1>1, <2>6 DEF IInv, ExportsApproved, SameContent
  <2> QED
      BY <1>2, <2>4, <2>5, <2>7 DEF IInv
<1> QED
    BY <1>3, <1>4

LEMMA CaseKeeps ==
    ASSUME IInv,
           \/ \E d \in Sources : StoreChunks(d) \/ FinishSource(d)
           \/ \E u \in Lawyers \cup Others : Unassign(u)
    PROVE  IInv'
<1>1. UNCHANGED <<outputs, generation, approval, export, released>>
    BY DEF StoreChunks, FinishSource, Unassign
<1>2. \A d \in Sources : sourceStatus[d] \in {"ready", "low_confidence"} => sourceStatus'[d] = sourceStatus[d]
    BY DEF StoreChunks, FinishSource, Unassign, IInv, ReviewTypeOK
<1>3. ReviewTypeOK'
    BY DEF StoreChunks, FinishSource, Unassign, IInv, ReviewTypeOK
<1>4. \A o \in Outputs : generation[o].sources \subseteq Sources /\ outputs[o].sources \subseteq Sources
    BY DEF IInv, ReviewTypeOK, Rows
<1>5. FromFinished'
    BY <1>1, <1>2, <1>4 DEF IInv, FromFinished
<1> QED
    BY <1>1, <1>3, <1>5 DEF IInv, NoRowBefore, ApprovedByRole, ExportsApproved, SameContent, ReleasedIsApproved

LEMMA NextIInv == IInv /\ [ReviewNext]_reviewVars => IInv'
<1> SUFFICES ASSUME IInv, [ReviewNext]_reviewVars PROVE IInv'
    OBVIOUS
<1>1. CASE UNCHANGED reviewVars
    BY <1>1 DEF reviewVars, IInv, ReviewTypeOK, NoRowBefore, ApprovedByRole, ExportsApproved, SameContent, FromFinished,
       ReleasedIsApproved
<1>2. CASE ReviewNext
    BY <1>2, CaseKeeps, RequestKeeps, RetrieveKeeps, GenerateKeeps, InsertKeeps, ApprovalKeeps, ApproveKeeps,
       ExportKeeps DEF ReviewNext
<1> QED
    BY <1>1, <1>2

LEMMA Invariance == ReviewSpec => []IInv
BY InitIInv, NextIInv, PTL DEF ReviewSpec
-------------------------------------------------------------------------------
(* Rows and requests keep their types (ai_outputs.py, 0002).               *)
THEOREM Typing == ReviewSpec => []ReviewTypeOK
BY Invariance, PTL DEF IInv

(* Whatever an export returns is approved and has the content that was     *)
(* approved (export_ai_output, 0008).                                      *)
THEOREM ReleasedRowsAreApproved == ReviewSpec => []ReleasedIsApproved
BY Invariance, PTL DEF IInv

(* An output of one low-confidence document carries the flag               *)
(* (ai_outputs.py, summarize_document and its like).                       *)
THEOREM FlagsAreInherited == ReviewSpec => []FlagInherited
<1>1. IInv => FlagInherited
    BY DEF IInv, FromFinished, FlagInherited
<1> QED
    BY <1>1, Invariance, PTL

(* No output of one document is about a document that failed.              *)
THEOREM NothingFromFailed == ReviewSpec => []NoOutputFromFailed
<1>1. IInv => NoOutputFromFailed
    BY DEF IInv, FromFinished, NoOutputFromFailed
<1> QED
    BY <1>1, Invariance, PTL

(* Whoever approves is a manager, or a lawyer who is assigned in the very  *)
(* statement that approves (approve_ai_output, 0013).                      *)
THEOREM ApproversAreEntitled == ReviewSpec => ApproverEntitled
<1> DEFINE Entitled == \A o \in Outputs :
        outputs'[o].by # outputs[o].by => outputs'[o].by \in Managers \cup (Lawyers \cap assigned)
<1>1. IInv /\ [ReviewNext]_reviewVars => [Entitled]_reviewVars
  <2> SUFFICES ASSUME IInv, ReviewNext PROVE Entitled
      OBVIOUS
  <2>1. CASE UNCHANGED outputs
      BY <2>1
  <2>2. ASSUME NEW o \in Outputs, InsertDraft(o)
        PROVE  Entitled
      BY <2>2, InsertKeeps
  <2>3. ASSUME NEW u \in Users, Approve(u)
        PROVE  Entitled
      BY <2>3, ApproveKeeps
  <2>4. \/ UNCHANGED outputs
        \/ \E o \in Outputs : InsertDraft(o)
        \/ \E u \in Users : Approve(u)
      BY DEF ReviewNext, StoreChunks, FinishSource, Unassign, Request, Retrieve, Generate, GenerationFails,
         BeginApprove, CheckApprover, BeginExport, FinishExport
  <2> HIDE DEF Entitled
  <2> QED
      BY <2>1, <2>2, <2>3, <2>4
<1> QED
    BY <1>1, Invariance, PTL DEF ReviewSpec, ApproverEntitled
===============================================================================
