--------------------------- MODULE DocumentPipeline ---------------------------
(***************************************************************************)
(* Ingestion of an uploaded document (backend/app/api/documents.py,        *)
(* workers/pipeline_worker.py, app/pipeline/run.py).                       *)
(*                                                                         *)
(* An upload stores the object, then inserts a pending row.  Workers poll  *)
(* for pending rows; the row lock of the poll is gone when its statement   *)
(* ends, so two workers may pick one document, and the compare-and-swap of *)
(* process_document decides between them.  The winner extracts the text,   *)
(* replaces the chunks one statement at a time and writes the final status *)
(* without looking at the current one.  Every statement commits by itself. *)
(***************************************************************************)
EXTENDS Integers

CONSTANTS
    Documents,      \* ids of rows of table documents
    Workers,        \* processes running pipeline_worker
    MaxChunks,      \* bound on the chunks of a document
    Confidences,    \* mean confidences OCR may report, in percent
    None,           \* no mean confidence, no document
    Threshold,      \* settings.ocr_confidence_threshold, in percent
    RowInScope,     \* FALSE is the code: _store_chunks names a variable of its
                    \* caller and raises NameError; TRUE is the code with
                    \* row["firm_id"] passed to it
    WorkersCrash    \* may worker processes die during the run?

ASSUME BoundsAssumption == MaxChunks \in Nat \ {0} /\ Confidences \subseteq Nat
ASSUME NoneAssumption == None \notin Documents \cup Confidences
ASSUME ThresholdAssumption == Threshold \in Nat
ASSUME SwitchesAssumption == RowInScope \in BOOLEAN /\ WorkersCrash \in BOOLEAN

VARIABLES
    upload,     \* document -> where its upload request is
    objects,    \* documents whose object is in storage
    status,     \* document -> documents.status, "absent" without a row
    chunks,     \* document -> its document_chunks, by chunk_index + 1
    worker,     \* worker -> the tick it is in
    extracted   \* auxiliary: document -> the chunks its text was cut into, 0 before that

vars == <<upload, objects, status, chunks, worker, extracted>>

Lifecycle == INSTANCE DocumentLifecycle

Final == {"ready", "low_confidence", "failed"}
Claimed == {"extract", "clear", "insert", "finish", "fail"}

Idle == [step |-> "idle", doc |-> None, final |-> "failed", count |-> 0, next |-> 1]

Tick ==
    [step  : {"load", "claim"} \cup Claimed,
     doc   : Documents,
     final : Final,               \* the status it will write
     count : 0..MaxChunks,        \* chunks it has to write
     next  : 1..MaxChunks + 1]    \* chunk_index it writes next

TypeOK ==
    /\ upload \in [Documents -> {"none", "store", "insert", "over"}]
    /\ objects \in SUBSET Documents
    /\ status \in [Documents -> Lifecycle!Statuses]
    /\ chunks \in [Documents -> SUBSET (1..MaxChunks)]
    /\ worker \in [Workers -> Tick \cup {Idle}]
    /\ extracted \in [Documents -> 0..MaxChunks]

Init ==
    /\ upload = [d \in Documents |-> "none"]
    /\ objects = {}
    /\ status = [d \in Documents |-> "absent"]
    /\ chunks = [d \in Documents |-> {}]
    /\ worker = [w \in Workers |-> Idle]
    /\ extracted = [d \in Documents |-> 0]
-------------------------------------------------------------------------------
(* upload_document has checked the file and sends it to storage.           *)
ReceiveUpload(d) ==
    /\ upload[d] = "none"
    /\ upload' = [upload EXCEPT ![d] = "store"]
    /\ UNCHANGED <<objects, status, chunks, worker, extracted>>

StoreObject(d) ==
    /\ upload[d] = "store"
    /\ objects' = objects \cup {d}
    /\ upload' = [upload EXCEPT ![d] = "insert"]
    /\ UNCHANGED <<status, chunks, worker, extracted>>

InsertDocument(d) ==
    /\ upload[d] = "insert"
    /\ status' = [status EXCEPT ![d] = "pending"]
    /\ upload' = [upload EXCEPT ![d] = "over"]
    /\ UNCHANGED <<objects, chunks, worker, extracted>>

(* Storage refuses (502), its answer is lost after it kept the object, or  *)
(* the API dies before the INSERT.                                         *)
UploadFails(d) ==
    /\ upload[d] \in {"store", "insert"}
    /\ \/ UNCHANGED objects
       \/ upload[d] = "store" /\ objects' = objects \cup {d}
    /\ upload' = [upload EXCEPT ![d] = "over"]
    /\ UNCHANGED <<status, chunks, worker, extracted>>
-------------------------------------------------------------------------------
Become(w, tick) == worker' = [worker EXCEPT ![w] = tick]
Goto(w, step) == Become(w, [worker[w] EXCEPT !.step = step])

SetStatus(d, s) == status' = [status EXCEPT ![d] = s]

(* A tick takes the id of one pending document, of any in the model: the   *)
(* order by upload time bends when other workers hold the older rows.      *)
Poll(w, d) ==
    /\ worker[w] = Idle
    /\ status[d] = "pending"
    /\ Become(w, [Idle EXCEPT !.step = "load", !.doc = d])
    /\ UNCHANGED <<upload, objects, status, chunks, extracted>>

(* process_document reads the row and skips it unless it is still pending. *)
Load(w) ==
    /\ worker[w].step = "load"
    /\ IF status[worker[w].doc] = "pending" THEN Goto(w, "claim") ELSE Become(w, Idle)
    /\ UNCHANGED <<upload, objects, status, chunks, extracted>>

(* Mutant: the claim trusts the status that was read before.               *)
ClaimUnconditionally(w) ==
    /\ worker[w].step = "claim"
    /\ SetStatus(worker[w].doc, "processing")
    /\ Goto(w, "extract")
    /\ UNCHANGED <<upload, objects, chunks, extracted>>

(* UPDATE ... WHERE id = $1 AND status = 'pending'.                        *)
Claim(w) ==
    LET d == worker[w].doc
    IN  /\ worker[w].step = "claim"
        /\ IF status[d] = "pending"
           THEN SetStatus(d, "processing") /\ Goto(w, "extract")
           ELSE UNCHANGED status /\ Become(w, Idle)
        /\ UNCHANGED <<upload, objects, chunks, extracted>>

(* assess_confidence: text-native files report no confidence.              *)
AssessConfidence(c) ==
    IF c = None \/ c >= Threshold THEN "ready" ELSE "low_confidence"

(* Download, preprocessing, OCR, normalisation, chunking, the firm's       *)
(* settings and the embedding: calls that change nothing in the database.  *)
Extract(w) ==
    /\ worker[w].step = "extract"
    /\ \E c \in Confidences \cup {None}, n \in 1..MaxChunks :
           /\ Become(w, [worker[w] EXCEPT !.step = "clear", !.count = n,
                                          !.final = AssessConfidence(c)])
           /\ extracted' = [extracted EXCEPT ![worker[w].doc] = n]
    /\ UNCHANGED <<upload, objects, status, chunks>>

(* One of them raises, or finds no text, no chunk or no settings.          *)
ExtractFails(w) ==
    /\ worker[w].step = "extract"
    /\ Goto(w, "fail")
    /\ UNCHANGED <<upload, objects, status, chunks, extracted>>

(* _store_chunks deletes what an earlier attempt left.                     *)
ClearChunks(w) ==
    /\ worker[w].step = "clear"
    /\ chunks' = [chunks EXCEPT ![worker[w].doc] = {}]
    /\ Goto(w, IF RowInScope THEN "insert" ELSE "fail")
    /\ UNCHANGED <<upload, objects, status, extracted>>

(* One INSERT per chunk; a chunk_index that is taken is refused.           *)
InsertChunk(w) ==
    LET t == worker[w]
    IN  /\ t.step = "insert"
        /\ t.next \notin chunks[t.doc]
        /\ chunks' = [chunks EXCEPT ![t.doc] = @ \cup {t.next}]
        /\ Become(w, [t EXCEPT !.next = @ + 1,
                               !.step = IF t.next = t.count THEN "finish" ELSE "insert"])
        /\ UNCHANGED <<upload, objects, status, extracted>>

(* Mutant: a refused chunk ends the loop, and the document keeps the       *)
(* chunks before it.                                                       *)
InsertsEnd(w) ==
    /\ worker[w].step = "insert"
    /\ Goto(w, "finish")
    /\ UNCHANGED <<upload, objects, status, chunks, extracted>>

(* The database refuses a chunk, a vector of the wrong dimension say.      *)
InsertFails(w) ==
    /\ worker[w].step = "insert"
    /\ Goto(w, "fail")
    /\ UNCHANGED <<upload, objects, status, chunks, extracted>>

(* The final UPDATE names the id only.                                     *)
FinishDocument(w) ==
    /\ worker[w].step = "finish"
    /\ SetStatus(worker[w].doc, worker[w].final)
    /\ Become(w, Idle)
    /\ UNCHANGED <<upload, objects, chunks, extracted>>

(* Mutant: an error ends the tick and nothing else.                        *)
FailDocumentSilently(w) ==
    /\ worker[w].step = "fail"
    /\ Become(w, Idle)
    /\ UNCHANGED <<upload, objects, status, chunks, extracted>>

(* _fail.                                                                  *)
FailDocument(w) ==
    /\ worker[w].step = "fail"
    /\ SetStatus(worker[w].doc, "failed")
    /\ Become(w, Idle)
    /\ UNCHANGED <<upload, objects, chunks, extracted>>

(* The process or its connection dies; the next tick starts from nothing.  *)
Crash(w) ==
    /\ WorkersCrash
    /\ worker[w] # Idle
    /\ Become(w, Idle)
    /\ UNCHANGED <<upload, objects, status, chunks, extracted>>

Work(w) ==
    \/ \E d \in Documents : Poll(w, d)
    \/ Load(w)
    \/ Claim(w)
    \/ Extract(w)
    \/ ExtractFails(w)
    \/ ClearChunks(w)
    \/ InsertChunk(w)
    \/ InsertFails(w)
    \/ FinishDocument(w)
    \/ FailDocument(w)

Next ==
    \/ \E d \in Documents :
           ReceiveUpload(d) \/ StoreObject(d) \/ InsertDocument(d) \/ UploadFails(d)
    \/ \E w \in Workers : Work(w) \/ Crash(w)

Spec == Init /\ [][Next]_vars

(* Every worker's scheduler keeps ticking and its calls return or time out.*)
Fairness == \A w \in Workers : WF_vars(Work(w))

FairSpec == Spec /\ Fairness
-------------------------------------------------------------------------------
(* Two workers that both picked a document never both work on it: the      *)
(* claim has one winner until the document is final (pipeline_worker.py:   *)
(* scaling to multiple workers is safe).                                   *)
OneWorkerPerDocument ==
    \A v, w \in Workers :
        /\ worker[v].step \in Claimed
        /\ worker[w].step \in Claimed
        /\ worker[v].doc = worker[w].doc
        => v = w

(* A document is ready, or low_confidence, only with all the chunks its    *)
(* text was cut into, and at least one, wherever a chunk was refused or a  *)
(* worker died between two INSERTs (run.py, _store_chunks).                *)
ReadyIsComplete ==
    \A d \in Documents :
        status[d] \in {"ready", "low_confidence"}
        => extracted[d] > 0 /\ chunks[d] = 1..extracted[d]

(* The unconditional UPDATEs of run.py keep to the lifecycle table of      *)
(* documents_lifecycle.py, which run.py does not call.                     *)
KeepsLifecycle == Lifecycle!Spec

(* A document that has been accepted reaches a final status.               *)
ProcessingEnds ==
    \A d \in Documents : status[d] = "pending" ~> status[d] \in Final

(* failed is for documents whose text could not be had (data-model.md:     *)
(* "hard OCR/processor error"): one that was extracted, chunked and        *)
(* embedded becomes ready or low_confidence.                               *)
FailedWasNotExtracted ==
    [][\A w \in Workers :
           LET d == worker[w].doc
           IN  worker[w].step = "fail" /\ worker[w].count > 0 /\ chunks[d] = {}
               => status'[d] # "failed"]_vars
===============================================================================
