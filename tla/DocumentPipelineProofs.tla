------------------------- MODULE DocumentPipelineProofs -------------------------
(***************************************************************************)
(* Proofs about DocumentPipeline, for any number of documents, workers and *)
(* chunks, whatever fails and wherever a worker dies.  The final UPDATEs   *)
(* of run.py do not look at the status they replace; that they replace     *)
(* "processing", and that nobody else is at work on the document, has to   *)
(* come from the compare-and-swap of the claim.                            *)
(***************************************************************************)
EXTENDS DocumentPipeline, TLAPS

(* The row of a document comes with the end of its upload.                 *)
NoRowBefore == \A d \in Documents : upload[d] # "over" => status[d] = "absent"

(* Who has claimed a document works on one that is being processed.        *)
ClaimedIsProcessing == \A w \in Workers :
    worker[w].step \in Claimed => status[worker[w].doc] = "processing"

(* What a worker has written so far: of the chunks of the text as it has   *)
(* extracted it, those before the next one, and all of them when it comes  *)
(* to the final UPDATE.                                                    *)
Progress == \A w \in Workers :
    LET t == worker[w]
    IN  /\ t.step \in {"load", "claim", "extract", "clear"} => t.next = 1
        /\ t.step \in {"clear", "insert", "finish"} => t.count # 0 /\ extracted[t.doc] = t.count
        /\ t.step = "insert" => t.next <= t.count /\ chunks[t.doc] = 1 .. (t.next - 1)
        /\ t.step = "finish" => chunks[t.doc] = 1 .. t.count

IInv == TypeOK /\ NoRowBefore /\ ClaimedIsProcessing /\ OneWorkerPerDocument /\ Progress /\ ReadyIsComplete
-------------------------------------------------------------------------------
LEMMA InitIInv == Init => IInv
BY BoundsAssumption
DEF Init, IInv, TypeOK, NoRowBefore, ClaimedIsProcessing, OneWorkerPerDocument, Progress,
    ReadyIsComplete, Idle, Claimed, Lifecycle!Statuses

(* The states a worker may be in, and what becomes of them.                *)
LEMMA TickFacts ==
    ASSUME TypeOK, NEW w \in Workers, worker[w].step # "idle"
    PROVE  /\ worker[w] \in Tick
           /\ worker[w].doc \in Documents
           /\ worker[w].count \in 0 .. MaxChunks
           /\ worker[w].next \in 1 .. MaxChunks + 1
           /\ worker[w].final \in Final
<1>1. worker[w] \in Tick \cup {Idle}
    BY DEF TypeOK
<1>2. worker[w] # Idle
    BY DEF Idle
<1> QED
    BY <1>1, <1>2 DEF Tick

LEMMA IdleIsNotClaimed == Idle.step = "idle" /\ "idle" \notin Claimed
BY DEF Idle, Claimed

(* The requests of an upload leave the workers and the chunks alone.       *)
LEMMA UploadKeeps ==
    ASSUME IInv, NEW d \in Documents,
           ReceiveUpload(d) \/ StoreObject(d) \/ InsertDocument(d) \/ UploadFails(d)
    PROVE  IInv'
<1>1. CASE InsertDocument(d)
  <2>1. status[d] = "absent" /\ status' = [status EXCEPT ![d] = "pending"]
      BY <1>1 DEF IInv, NoRowBefore, InsertDocument
  <2>2. TypeOK' /\ NoRowBefore'
      BY <1>1 DEF IInv, TypeOK, NoRowBefore, InsertDocument, Lifecycle!Statuses
  <2>3. ClaimedIsProcessing'
    <3> SUFFICES ASSUME NEW w \in Workers, worker[w].step \in Claimed
                 PROVE  status'[worker[w].doc] = "processing"
        BY <1>1 DEF InsertDocument, ClaimedIsProcessing
    <3>1. worker[w].doc \in Documents
        BY TickFacts, IdleIsNotClaimed DEF IInv
    <3> QED
        BY <2>1, <3>1 DEF IInv, ClaimedIsProcessing, TypeOK
  <2>4. OneWorkerPerDocument' /\ Progress' /\ ReadyIsComplete'
      BY <1>1, <2>1 DEF IInv, TypeOK, OneWorkerPerDocument, Progress, ReadyIsComplete, InsertDocument
  <2> QED
      BY <2>2, <2>3, <2>4 DEF IInv
<1>2. CASE ReceiveUpload(d) \/ StoreObject(d) \/ UploadFails(d)
  <2>1. UNCHANGED <<status, chunks, worker, extracted>>
      BY <1>2 DEF ReceiveUpload, StoreObject, UploadFails
  <2>2. TypeOK' /\ NoRowBefore'
      BY <1>2 DEF IInv, TypeOK, NoRowBefore, ReceiveUpload, StoreObject, UploadFails
  <2> QED
      BY <2>1, <2>2 DEF IInv, ClaimedIsProcessing, OneWorkerPerDocument, Progress, ReadyIsComplete
<1> QED
    BY <1>1, <1>2

(* A step of a worker that leaves documents and chunks alone, to a state   *)
(* that the invariant allows it.                                           *)
LEMMA OnlyWorker ==
    ASSUME IInv, NEW w \in Workers, NEW t \in Tick \cup {Idle}, Become(w, t),
           UNCHANGED <<upload, objects, status, chunks, extracted>>,
           t.step \in Claimed => worker[w].step \in Claimed /\ t.doc = worker[w].doc,
           t.step \in {"load", "claim", "extract"} => t.next = 1,
           t.step \notin {"clear", "insert", "finish"}
    PROVE  IInv'
<1>1. worker' = [worker EXCEPT ![w] = t]
    BY DEF Become
<1>2. TypeOK'
    BY <1>1 DEF IInv, TypeOK
<1>3. NoRowBefore' /\ ReadyIsComplete'
    BY DEF IInv, NoRowBefore, ReadyIsComplete
<1>4. ClaimedIsProcessing' /\ OneWorkerPerDocument'
    BY <1>1 DEF IInv, TypeOK, ClaimedIsProcessing, OneWorkerPerDocument
<1>5. Progress'
    BY <1>1 DEF IInv, TypeOK, Progress
<1> QED
    BY <1>2, <1>3, <1>4, <1>5 DEF IInv
-------------------------------------------------------------------------------
LEMMA WorkKeeps ==
    ASSUME IInv, NEW w \in Workers, Work(w) \/ Crash(w)
    PROVE  IInv'
<1> DEFINE t == worker[w]
<1>t. TypeOK /\ worker \in [Workers -> Tick \cup {Idle}]
    BY DEF IInv, TypeOK
<1>i. Idle \in Tick \cup {Idle} /\ Idle.step = "idle"
    BY DEF Idle
<1>1. ASSUME NEW d \in Documents, Poll(w, d)
      PROVE  IInv'
  <2> DEFINE u == [Idle EXCEPT !.step = "load", !.doc = d]
  <2>1. Idle \in [step : {"idle"}, doc : {None}, final : {"failed"}, count : {0}, next : {1}]
      BY DEF Idle
  <2>2. 0 \in 0 .. MaxChunks /\ 1 \in 1 .. MaxChunks + 1 /\ "failed" \in Final
      BY BoundsAssumption DEF Final
  <2>3. u \in Tick /\ u.step = "load" /\ u.next = 1
    <3> HIDE DEF Idle
    <3> QED
        BY <2>1, <2>2 DEF Tick
  <2>4. Become(w, u) /\ UNCHANGED <<upload, objects, status, chunks, extracted>>
      BY <1>1 DEF Poll
  <2> HIDE DEF u
  <2> QED
      BY <2>3, <2>4, OnlyWorker DEF Claimed
<1>2. CASE Load(w)
  <2>1. t \in Tick /\ t.next = 1
      BY <1>2, TickFacts DEF Load, IInv, Progress
  <2>2. [t EXCEPT !.step = "claim"] \in Tick
      BY <2>1 DEF Tick
  <2>3. CASE Goto(w, "claim")
      BY <1>2, <2>1, <2>2, <2>3, OnlyWorker DEF Load, Goto, Claimed, Tick
  <2>4. CASE Become(w, Idle)
      BY <1>2, <1>i, <2>4, OnlyWorker, IdleIsNotClaimed DEF Load
  <2> QED
      BY <1>2, <2>3, <2>4 DEF Load
<1>3. CASE Claim(w)
  <2>1. t \in Tick /\ t.next = 1 /\ t.doc \in Documents
      BY <1>3, TickFacts DEF Claim, IInv, Progress
  <2>2. CASE status[t.doc] = "pending"
    <3>1. /\ status' = [status EXCEPT ![t.doc] = "processing"]
          /\ worker' = [worker EXCEPT ![w] = [t EXCEPT !.step = "extract"]]
          /\ UNCHANGED <<upload, objects, chunks, extracted>>
        BY <1>3, <2>2 DEF Claim, SetStatus, Goto, Become
    <3>2. [t EXCEPT !.step = "extract"] \in Tick
        BY <2>1 DEF Tick, Claimed
    <3>3. TypeOK'
        BY <1>t, <3>1, <3>2 DEF TypeOK, Lifecycle!Statuses
    <3>4. NoRowBefore' /\ ReadyIsComplete'
        BY <1>t, <2>2, <3>1 DEF IInv, TypeOK, NoRowBefore, ReadyIsComplete
    <3>5. \A v \in Workers : worker[v].step \in Claimed => worker[v].doc \in Documents /\ worker[v].doc # t.doc
        BY <1>t, <2>2, TickFacts, IdleIsNotClaimed DEF IInv, ClaimedIsProcessing
    <3>6. /\ worker'[w].doc = t.doc /\ worker'[w].step = "extract" /\ worker'[w].next = 1
          /\ \A v \in Workers \ {w} : worker'[v] = worker[v]
        BY <1>t, <2>1, <3>1 DEF Tick
    <3>7. ClaimedIsProcessing' /\ OneWorkerPerDocument'
        BY <1>t, <2>1, <3>1, <3>5, <3>6 DEF IInv, TypeOK, ClaimedIsProcessing, OneWorkerPerDocument
    <3>8. Progress'
        BY <1>t, <3>1, <3>6 DEF IInv, Progress
    <3> QED
        BY <3>3, <3>4, <3>7, <3>8 DEF IInv
  <2>3. CASE status[t.doc] # "pending"
      BY <1>3, <1>i, <2>3, OnlyWorker, IdleIsNotClaimed DEF Claim
  <2> QED
      BY <2>2, <2>3
<1>4. CASE Extract(w)
  <2>1. t \in Tick /\ t.next = 1 /\ t.step \in Claimed
      BY <1>4, TickFacts DEF Extract, IInv, Progress, Claimed
  <2>2. PICK c \in Confidences \cup {None}, n \in 1 .. MaxChunks :
            /\ Become(w, [t EXCEPT !.step = "clear", !.count = n, !.final = AssessConfidence(c)])
            /\ extracted' = [extracted EXCEPT ![t.doc] = n]
      BY <1>4 DEF Extract
  <2> DEFINE u == [t EXCEPT !.step = "clear", !.count = n, !.final = AssessConfidence(c)]
  <2>3. AssessConfidence(c) \in Final /\ n \in 0 .. MaxChunks /\ n # 0
      BY BoundsAssumption DEF AssessConfidence, Final
  <2>4. u.step = "clear" /\ u.count = n /\ u.next = 1 /\ u.doc = t.doc /\ u \in Tick
      BY <2>1, <2>3 DEF Tick, Claimed
  <2>5. worker' = [worker EXCEPT ![w] = u] /\ UNCHANGED <<upload, objects, status, chunks>>
      BY <1>4, <2>2 DEF Extract, Become
  <2> HIDE DEF u
  <2>6. t.doc \in Documents /\ status[t.doc] = "processing"
      BY <1>t, <2>1, TickFacts, IdleIsNotClaimed DEF IInv, ClaimedIsProcessing
  <2>7. /\ worker'[w] = u /\ extracted'[t.doc] = n
        /\ \A v \in Workers \ {w} : worker'[v] = worker[v]
        /\ \A d \in Documents \ {t.doc} : extracted'[d] = extracted[d]
      BY <1>t, <2>2, <2>5, <2>6 DEF TypeOK
  <2>8. TypeOK'
      BY <1>t, <2>2, <2>3, <2>4, <2>5 DEF TypeOK
  <2>9. NoRowBefore' /\ ClaimedIsProcessing' /\ OneWorkerPerDocument'
      BY <2>1, <2>4, <2>5, <2>7 DEF IInv, NoRowBefore, ClaimedIsProcessing, OneWorkerPerDocument
  <2>10. ReadyIsComplete'
      BY <2>5, <2>6, <2>7 DEF IInv, ReadyIsComplete
  <2>11. Progress'
    <3> SUFFICES ASSUME NEW v \in Workers
                 PROVE  LET s == worker'[v]
                        IN  /\ s.step \in {"load", "claim", "extract", "clear"} => s.next = 1
                            /\ s.step \in {"clear", "insert", "finish"} => s.count # 0 /\ extracted'[s.doc] = s.count
                            /\ s.step = "insert" => s.next <= s.count /\ chunks'[s.doc] = 1 .. (s.next - 1)
                            /\ s.step = "finish" => chunks'[s.doc] = 1 .. s.count
        BY DEF Progress
    <3>1. CASE v = w
        BY <2>3, <2>4, <2>7, <3>1
    <3>2. CASE v # w
      <4>1. worker[v].step \in Claimed => worker[v].doc \in Documents /\ worker[v].doc # t.doc
          BY <1>t, <2>1, <3>2, TickFacts, IdleIsNotClaimed DEF IInv, OneWorkerPerDocument
      <4> QED
          BY <2>5, <2>7, <3>2, <4>1 DEF IInv, Progress, Claimed
    <3> QED
        BY <3>1, <3>2
  <2> QED
      BY <2>8, <2>9, <2>10, <2>11 DEF IInv
<1>5. CASE ExtractFails(w) \/ InsertFails(w)
  <2>1. t \in Tick /\ t.step \in Claimed
      BY <1>5, TickFacts DEF ExtractFails, InsertFails, IInv, Claimed
  <2>2. [t EXCEPT !.step = "fail"] \in Tick
      BY <2>1 DEF Tick, Claimed
  <2> QED
      BY <1>5, <2>1, <2>2, OnlyWorker DEF ExtractFails, InsertFails, Goto, Tick
<1>6. CASE ClearChunks(w) \/ InsertChunk(w)
  <2>1. t \in Tick /\ t.step \in Claimed /\ t.doc \in Documents /\ t.count # 0
      BY <1>6, TickFacts DEF ClearChunks, InsertChunk, IInv, Claimed, Progress
  <2>2. PICK next \in 1 .. MaxChunks + 1, step \in {"insert", "fail", "finish"}, S \in SUBSET (1 .. MaxChunks) :
          /\ worker' = [worker EXCEPT ![w] = [t EXCEPT !.step = step, !.next = next]]
          /\ chunks' = [chunks EXCEPT ![t.doc] = S]
          /\ step = "insert" => next <= t.count /\ S = 1 .. (next - 1)
          /\ step = "finish" => S = 1 .. t.count
    <3>1. CASE ClearChunks(w)
      <4>1. t.next = 1 /\ [t EXCEPT !.next = 1] = t
          BY <2>1, <3>1 DEF ClearChunks, IInv, Progress, Tick
      <4>2. worker' = [worker EXCEPT ![w] = [t EXCEPT !.step = IF RowInScope THEN "insert" ELSE "fail", !.next = 1]]
          BY <2>1, <3>1, <4>1 DEF ClearChunks, Goto, Become, Tick
      <4>3. chunks' = [chunks EXCEPT ![t.doc] = {}] /\ {} = 1 .. 0
          BY <3>1 DEF ClearChunks
      <4>4. 1 \in 1 .. MaxChunks + 1 /\ {} \in SUBSET (1 .. MaxChunks)
          BY BoundsAssumption
      <4>5. t.count \in Nat /\ 1 <= t.count /\ {} = 1 .. (1 - 1)
          BY <2>1, <4>3, BoundsAssumption DEF Tick
      <4> QED
          BY <4>2, <4>3, <4>4, <4>5
    <3>2. CASE InsertChunk(w)
      <4>1. t.next <= t.count /\ chunks[t.doc] = 1 .. (t.next - 1)
          BY <3>2 DEF InsertChunk, IInv, Progress
      <4>2. t.next \in 1 .. MaxChunks /\ t.next + 1 \in 1 .. MaxChunks + 1
          BY <2>1, <4>1, BoundsAssumption DEF Tick
      <4>3. chunks[t.doc] \cup {t.next} = 1 .. t.next /\ 1 .. t.next \subseteq 1 .. MaxChunks
          BY <4>1, <4>2, BoundsAssumption
      <4>4. /\ worker' = [worker EXCEPT ![w] = [t EXCEPT !.step = IF t.next = t.count THEN "finish" ELSE "insert",
                                                         !.next = t.next + 1]]
            /\ chunks' = [chunks EXCEPT ![t.doc] = 1 .. t.next]
          BY <1>t, <2>1, <3>2, <4>3 DEF InsertChunk, Become, Tick, TypeOK
      <4>5. t.next # t.count => t.next + 1 <= t.count
          BY <2>1, <4>1, <4>2, BoundsAssumption DEF Tick
      <4>6. 1 .. t.next = 1 .. ((t.next + 1) - 1)
          BY <4>2
      <4> QED
          BY <4>2, <4>3, <4>4, <4>5, <4>6
    <3> QED
        BY <1>6, <3>1, <3>2
  <2>3. UNCHANGED <<upload, objects, status, extracted>>
      BY <1>6 DEF ClearChunks, InsertChunk
  <2>4. [t EXCEPT !.step = step, !.next = next] \in Tick
      BY <2>1 DEF Tick, Claimed
  <2>5. TypeOK'
      BY <1>t, <2>1, <2>2, <2>3, <2>4 DEF TypeOK
  <2>6. /\ worker'[w].doc = t.doc /\ worker'[w].step = step /\ worker'[w].next = next
        /\ worker'[w].count = t.count
        /\ \A v \in Workers \ {w} : worker'[v] = worker[v]
      BY <1>t, <2>1, <2>2 DEF Tick
  <2>7. NoRowBefore' /\ ClaimedIsProcessing' /\ OneWorkerPerDocument'
      BY <2>1, <2>3, <2>6 DEF IInv, NoRowBefore, ClaimedIsProcessing, OneWorkerPerDocument
  <2>8. Progress'
    <3> SUFFICES ASSUME NEW v \in Workers
                 PROVE  LET s == worker'[v]
                        IN  /\ s.step \in {"load", "claim", "extract", "clear"} => s.next = 1
                            /\ s.step \in {"clear", "insert", "finish"} => s.count # 0 /\ extracted'[s.doc] = s.count
                            /\ s.step = "insert" => s.next <= s.count /\ chunks'[s.doc] = 1 .. (s.next - 1)
                            /\ s.step = "finish" => chunks'[s.doc] = 1 .. s.count
        BY DEF Progress
    <3>0. extracted'[t.doc] = t.count
        BY <1>6, <2>3 DEF ClearChunks, InsertChunk, IInv, Progress
    <3>1. CASE v = w
        BY <1>t, <2>1, <2>2, <2>6, <3>0, <3>1 DEF TypeOK
    <3>2. CASE v # w
      <4>1. worker'[v] = worker[v]
          BY <2>6, <3>2
      <4>2. worker[v].step \in Claimed => worker[v].doc # t.doc
          BY <2>1, <3>2 DEF IInv, OneWorkerPerDocument
      <4>3. worker[v].step \in {"insert", "finish"} => chunks'[worker[v].doc] = chunks[worker[v].doc]
        <5> SUFFICES ASSUME worker[v].step \in {"insert", "finish"}
                     PROVE  chunks'[worker[v].doc] = chunks[worker[v].doc]
            OBVIOUS
        <5>1. worker[v].doc \in Documents /\ worker[v].doc # t.doc
            BY <1>t, <4>2, TickFacts DEF Claimed
        <5> QED
            BY <1>t, <2>2, <5>1 DEF TypeOK
      <4> QED
          BY <2>3, <4>1, <4>3 DEF IInv, Progress
    <3> QED
        BY <3>1, <3>2
  <2>9. ReadyIsComplete'
    <3>1. status[t.doc] = "processing"
        BY <2>1 DEF IInv, ClaimedIsProcessing
    <3> QED
        BY <1>t, <2>2, <2>3, <3>1 DEF IInv, TypeOK, ReadyIsComplete
  <2> QED
      BY <2>5, <2>7, <2>8, <2>9 DEF IInv
<1>7. CASE FinishDocument(w) \/ FailDocument(w)
  <2>1. t \in Tick /\ t.step \in Claimed /\ t.doc \in Documents
      BY <1>7, <1>t, TickFacts DEF FinishDocument, FailDocument, Claimed
  <2>2. PICK s \in Final : status' = [status EXCEPT ![t.doc] = s]
                           /\ (s = "failed" \/ FinishDocument(w))
      BY <1>7, <2>1 DEF FinishDocument, FailDocument, SetStatus, Tick, Final
  <2>3. /\ UNCHANGED <<upload, objects, chunks, extracted>>
        /\ worker' = [worker EXCEPT ![w] = Idle]
      BY <1>7 DEF FinishDocument, FailDocument, Become
  <2>4. /\ worker'[w].step = "idle" /\ worker'[w].step \notin Claimed
        /\ \A v \in Workers \ {w} : worker'[v] = worker[v]
      BY <1>t, <1>i, <2>3, IdleIsNotClaimed
  <2>5. TypeOK'
      BY <1>t, <2>1, <2>2, <2>3 DEF TypeOK, Final, Lifecycle!Statuses
  <2>6. status[t.doc] = "processing"
      BY <2>1 DEF IInv, ClaimedIsProcessing
  <2>7. NoRowBefore'
      BY <1>t, <2>2, <2>3, <2>6 DEF IInv, TypeOK, NoRowBefore
  <2>8. ClaimedIsProcessing'
    <3> SUFFICES ASSUME NEW v \in Workers, worker'[v].step \in Claimed
                 PROVE  status'[worker'[v].doc] = "processing"
        BY DEF ClaimedIsProcessing
    <3>1. v # w /\ worker'[v] = worker[v]
        BY <2>4
    <3>2. worker[v].doc \in Documents /\ worker[v].doc # t.doc /\ status[worker[v].doc] = "processing"
        BY <1>t, <2>1, <3>1, TickFacts, IdleIsNotClaimed DEF IInv, OneWorkerPerDocument, ClaimedIsProcessing, Claimed
    <3> QED
        BY <1>t, <2>2, <3>1, <3>2 DEF TypeOK
  <2>9. OneWorkerPerDocument' /\ Progress'
      BY <2>3, <2>4 DEF IInv, OneWorkerPerDocument, Progress
  <2>10. ReadyIsComplete'
    <3> SUFFICES ASSUME NEW d \in Documents, status'[d] \in {"ready", "low_confidence"}
                 PROVE  extracted[d] > 0 /\ chunks[d] = 1 .. extracted[d]
        BY <2>3 DEF ReadyIsComplete
    <3>1. CASE d # t.doc
        BY <1>t, <2>2, <3>1 DEF IInv, TypeOK, ReadyIsComplete
    <3>2. CASE d = t.doc
      <4>1. s # "failed" /\ FinishDocument(w)
          BY <1>t, <2>2, <3>2 DEF TypeOK
      <4>2. chunks[d] = 1 .. t.count /\ extracted[d] = t.count /\ t.count # 0 /\ t.count \in 0 .. MaxChunks
          BY <2>1, <3>2, <4>1 DEF IInv, Progress, FinishDocument, Tick
      <4> QED
          BY <4>2, BoundsAssumption
    <3> QED
        BY <3>1, <3>2
  <2> QED
      BY <2>5, <2>7, <2>8, <2>9, <2>10 DEF IInv
<1>8. CASE Crash(w)
    BY <1>8, <1>i, OnlyWorker, IdleIsNotClaimed DEF Crash
<1> QED
    BY <1>1, <1>2, <1>3, <1>4, <1>5, <1>6, <1>7, <1>8 DEF Work

LEMMA NextIInv == IInv /\ [Next]_vars => IInv'
<1> SUFFICES ASSUME IInv, [Next]_vars PROVE IInv'
    OBVIOUS
<1>1. CASE UNCHANGED vars
    BY <1>1 DEF IInv, vars, TypeOK, NoRowBefore, ClaimedIsProcessing, OneWorkerPerDocument, Progress, ReadyIsComplete
<1>2. CASE Next
    BY <1>2, UploadKeeps, WorkKeeps DEF Next
<1> QED
    BY <1>1, <1>2

LEMMA Invariance == Spec => []IInv
BY InitIInv, NextIInv, PTL DEF Spec
-------------------------------------------------------------------------------
(* Documents, chunks and ticks keep their types (documents,                *)
(* document_chunks, pipeline_worker.py).                                   *)
THEOREM Typing == Spec => []TypeOK
BY Invariance, PTL DEF IInv

(* The compare-and-swap has one winner (run.py, process_document): no two  *)
(* workers are ever past the claim of one document.                        *)
THEOREM OneWorkerAtWork == Spec => []OneWorkerPerDocument
BY Invariance, PTL DEF IInv

(* Only a document with all the chunks its text was cut into is called     *)
(* ready or low_confidence (run.py, _run_pipeline).                        *)
THEOREM ReadyDocumentsAreComplete == Spec => []ReadyIsComplete
BY Invariance, PTL DEF IInv

(* The UPDATEs of run.py, which name no status they expect, keep to the    *)
(* transitions of documents_lifecycle.py.                                  *)
THEOREM LifecycleIsKept == Spec => KeepsLifecycle
<1>1. Init => Lifecycle!Init
    BY DEF Init, Lifecycle!Init
<1>2. IInv /\ [Next]_vars => [Lifecycle!Next]_status
  <2> SUFFICES ASSUME IInv, [Next]_vars, status' # status
               PROVE  Lifecycle!Next
      OBVIOUS
  <2>1. \A d \in Documents : \A s \in Lifecycle!LegalTransitions(status[d]) :
            status' = [status EXCEPT ![d] = s] => Lifecycle!Next
      BY DEF Lifecycle!Next, Lifecycle!Advance
  <2>2. ASSUME NEW d \in Documents, InsertDocument(d)
        PROVE  Lifecycle!Next
      BY <2>1, <2>2 DEF InsertDocument, IInv, NoRowBefore, Lifecycle!LegalTransitions
  <2>3. ASSUME NEW w \in Workers, Claim(w)
        PROVE  Lifecycle!Next
      BY <2>1, <2>3, TickFacts DEF Claim, SetStatus, IInv, Lifecycle!LegalTransitions
  <2>4. ASSUME NEW w \in Workers, FinishDocument(w) \/ FailDocument(w)
        PROVE  Lifecycle!Next
    <3>1. worker[w].doc \in Documents /\ worker[w].final \in Final /\ status[worker[w].doc] = "processing"
        BY <2>4, TickFacts DEF FinishDocument, FailDocument, IInv, ClaimedIsProcessing, Claimed
    <3> QED
        BY <2>1, <2>4, <3>1 DEF FinishDocument, FailDocument, SetStatus, Final, Lifecycle!LegalTransitions
  <2> QED
      BY <2>2, <2>3, <2>4 DEF Next, Work, vars, ReceiveUpload, StoreObject, UploadFails, Poll, Load, Extract,
         ExtractFails, ClearChunks, InsertChunk, InsertFails, Crash
<1> QED
    BY <1>1, <1>2, Invariance, PTL DEF Spec, KeepsLifecycle, Lifecycle!Spec
===============================================================================
