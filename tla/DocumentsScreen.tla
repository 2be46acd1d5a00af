----------------------------- MODULE DocumentsScreen -----------------------------
(***************************************************************************)
(* The page of a case's documents: it loads the list of the chosen case,   *)
(* adds what is uploaded, and asks every three seconds for the status of   *)
(* the documents that are still being processed.  A poll works on the list *)
(* of the moment it began at, one document after the other; the next one   *)
(* may begin before it ends, and its answers go to whatever list is there. *)
(***************************************************************************)
EXTENDS Browser

CONSTANTS Docs, Cases,
          CaseOf,      \* CaseOf[d]: the case of document d
          Stages,      \* pending, processing and the final status, as 0, 1 and 2
          MaxPolls,    \* bound on the polls that overlap
          MaxChoices   \* bound on the choices of a case

VARIABLES
    chosen,      \* selectedCaseId
    docs,        \* the list: documents with the status it shows
    docsLoading,
    error,
    question,    \* the load the page waits for: its case and its answer
    uploading,   \* the upload in flight: document, case, and what the server said
    polls,       \* polls in flight: the rest of the list, and the answer for its first row
    status,      \* the documents on the server, Gone before the upload
    strays,      \* documents that were added to the list of another case
    choices      \* choices made so far

docVars == <<chosen, docs, docsLoading, error, question, uploading, polls, status, strays, choices>>

RowType == [doc : Docs, status : Stages]

ASSUME DocumentsAssumption ==
    /\ IsFiniteSet(Docs) /\ Stages = 0..2 /\ {None, Gone} \cap Stages = {}
    /\ None \notin Cases
    /\ {None, Refused} \cap RowType = {}
    /\ {None, Failed} \cap Seq(RowType) = {}
    /\ {MaxPolls, MaxChoices} \subseteq Nat

Pollable == {0, 1}

Row(d) == [doc |-> d, status |-> status[d]]

Listed(d) == \E i \in DOMAIN docs : docs[i].doc = d
-------------------------------------------------------------------------------
DocInit ==
    /\ chosen = None /\ docs = <<>> /\ docsLoading = FALSE /\ error = FALSE
    /\ question = None /\ uploading = None /\ polls = <<>>
    /\ status \in [Docs -> {0, Gone}]
    /\ strays = {} /\ choices = 0

(* The effect of another choice.  Its clean-up cancels the load before it, *)
(* whose answer will not be looked at; the empty choice empties the list   *)
(* and leaves the flag of the load it cancelled.                           *)
Choose(c) ==
    /\ c # chosen /\ choices < MaxChoices
    /\ chosen' = c /\ choices' = choices + 1
    /\ IF c = None
       THEN docs' = <<>> /\ question' = None /\ UNCHANGED <<docsLoading, error>>
       ELSE /\ question' = [case |-> c, answer |-> None]
            /\ docsLoading' = TRUE /\ error' = FALSE
            /\ UNCHANGED docs
    /\ UNCHANGED <<uploading, polls, status, strays>>

(* Any order of the case's documents: the page keeps the server's.         *)
ServerLists ==
    /\ question # None /\ question.answer = None
    /\ LET there == {d \in Docs : CaseOf[d] = question.case /\ status[d] # Gone}
           list == [i \in DOMAIN SetToSeq(there) |-> Row(SetToSeq(there)[i])]
       IN  \E a \in {list, Failed} : question' = [question EXCEPT !.answer = a]
    /\ UNCHANGED <<chosen, docs, docsLoading, error, uploading, polls, status, strays, choices>>

ShowList ==
    /\ question # None /\ question.answer # None
    /\ IF question.answer = Failed THEN error' = TRUE /\ UNCHANGED docs
       ELSE docs' = question.answer /\ UNCHANGED error
    /\ question' = None /\ docsLoading' = FALSE
    /\ UNCHANGED <<chosen, uploading, polls, status, strays, choices>>
-------------------------------------------------------------------------------
(* onUpload, whose button is off while a file is uploaded.  The user may   *)
(* choose another case meanwhile.                                          *)
Upload(d) ==
    /\ chosen # None /\ uploading = None
    /\ status[d] = Gone /\ CaseOf[d] = chosen
    /\ uploading' = [doc |-> d, made |-> None]
    /\ UNCHANGED <<chosen, docs, docsLoading, error, question, polls, status, strays, choices>>

(* The answer may be lost, which the page cannot tell from a refusal: the  *)
(* document is there, and the page shows it with its next list.            *)
ServerStores ==
    /\ uploading # None /\ uploading.made = None
    /\ \/ /\ status' = [status EXCEPT ![uploading.doc] = 0]
          /\ \E answer \in {[doc |-> uploading.doc, status |-> 0], Refused} :
                 uploading' = [uploading EXCEPT !.made = answer]
       \/ /\ uploading' = [uploading EXCEPT !.made = Refused]
          /\ UNCHANGED status
    /\ UNCHANGED <<chosen, docs, docsLoading, error, question, polls, strays, choices>>

ShowUploaded ==
    /\ uploading # None /\ uploading.made # None
    /\ uploading' = None
    /\ IF uploading.made = Refused THEN UNCHANGED <<docs, strays>>
       ELSE /\ docs' = <<uploading.made>> \o docs
            /\ strays' = IF CaseOf[uploading.doc] = chosen THEN strays ELSE strays \cup {uploading.doc}
    /\ UNCHANGED <<chosen, docsLoading, error, question, polls, status, choices>>
-------------------------------------------------------------------------------
(* The workers (modelled in DocumentPipeline) move the document on.        *)
Progress(d) ==
    /\ status[d] \in Pollable
    /\ status' = [status EXCEPT ![d] = @ + 1]
    /\ UNCHANGED <<chosen, docs, docsLoading, error, question, uploading, polls, strays, choices>>

(* Mutant: the timer forgets the documents in processing.                  *)
PendingAtFirst(list) == {k \in DOMAIN list : list[k].status = 0}

(* The places of a list whose document is not final: a poll asks for these *)
(* documents, one after the other.                                         *)
Pending(list) == {k \in DOMAIN list : list[k].status \in Pollable}

IsFirstPending(k, list) == k \in Pending(list) /\ \A l \in Pending(list) : k <= l

(* A poll that has come to place k of a list.                              *)
PollFrom(list, k) == [left |-> SubSeq(list, k, Len(list)), answer |-> None]

(* The timer: it polls if anything on the list is not final.               *)
Tick ==
    /\ Len(polls) < MaxPolls
    /\ \E k \in DOMAIN docs : IsFirstPending(k, docs) /\ polls' = Append(polls, PollFrom(docs, k))
    /\ UNCHANGED <<chosen, docs, docsLoading, error, question, uploading, status, strays, choices>>

(* The status of the document the poll has come to, or its row once that   *)
(* is final.                                                               *)
ServerTells(i) ==
    /\ polls[i].answer = None
    /\ polls' = [polls EXCEPT ![i].answer = status[polls[i].left[1].doc]]
    /\ UNCHANGED <<chosen, docs, docsLoading, error, question, uploading, status, strays, choices>>

(* On to the next document, if the poll has one left.                      *)
Advance(i) ==
    LET rest == Tail(polls[i].left)
    IN  \/ Pending(rest) = {} /\ polls' = RemoveAt(polls, i)
        \/ \E k \in DOMAIN rest :
               IsFirstPending(k, rest) /\ polls' = [polls EXCEPT ![i] = PollFrom(rest, k)]

(* The answer goes to the rows of the document, if it is not what the poll *)
(* saw when it began.                                                      *)
TakeStatus(i) ==
    LET row == polls[i].left[1]
        s == polls[i].answer
    IN  /\ s # None
        /\ docs' = IF s = row.status THEN docs
                   ELSE [j \in DOMAIN docs |-> IF docs[j].doc = row.doc THEN [docs[j] EXCEPT !.status = s]
                                               ELSE docs[j]]
        /\ Advance(i)
        /\ UNCHANGED <<chosen, docsLoading, error, question, uploading, status, strays, choices>>

(* A call of the poll fails: the next poll will ask again.                 *)
PassOver(i) ==
    /\ Advance(i)
    /\ UNCHANGED <<chosen, docs, docsLoading, error, question, uploading, status, strays, choices>>

DocNext ==
    \/ \E c \in Cases \cup {None} : Choose(c)
    \/ ServerLists \/ ShowList
    \/ \E d \in Docs : Upload(d) \/ Progress(d)
    \/ ServerStores \/ ShowUploaded
    \/ Tick
    \/ \E i \in DOMAIN polls : ServerTells(i) \/ TakeStatus(i) \/ PassOver(i)

DocSpec == DocInit /\ [][DocNext]_docVars

(* The timer ticks as long as the page is open, workers go on, and a call  *)
(* that is made again and again succeeds at some point.                    *)
PollFairness ==
    /\ WF_docVars(Tick)
    /\ \A d \in Docs : WF_docVars(Progress(d))
    /\ \A d \in Docs :
           /\ SF_docVars(\E i \in DOMAIN polls : polls[i].left[1].doc = d /\ ServerTells(i))
           /\ SF_docVars(\E i \in DOMAIN polls : polls[i].left[1].doc = d /\ TakeStatus(i))

FairDocSpec == DocSpec /\ PollFairness
-------------------------------------------------------------------------------
DocTypeOK ==
    /\ chosen \in Cases \cup {None}
    /\ docs \in Seq(RowType)
    /\ docsLoading \in BOOLEAN /\ error \in BOOLEAN
    /\ question # None => question.case = chosen /\ docsLoading
    /\ status \in [Docs -> Stages \cup {Gone}]
    /\ strays \subseteq Docs /\ choices \in 0..MaxChoices

(* Under a choice that is loaded and not reported as failed the page shows *)
(* documents of that case alone, but for an upload that ended after the    *)
(* user had chosen another case: late lists and polls of the cases before  *)
(* add nothing (documents/page.tsx:87-110).                                *)
ListIsOfChosenCase ==
    chosen # None /\ ~docsLoading /\ ~error =>
        \A i \in DOMAIN docs : CaseOf[docs[i].doc] = chosen \/ docs[i].doc \in strays

(* No document the server has yet to process is shown as final: overlapping *)
(* polls may set a status back, never ahead.                                *)
NeverAhead == \A i \in DOMAIN docs : docs[i].status <= status[docs[i].doc]

(* A row that shows a document in processing is brought to the document's  *)
(* final status, or leaves the page.                                       *)
StatusesArrive ==
    \A d \in Docs :
        (Listed(d) /\ status[d] = 2) ~>
            \A i \in DOMAIN docs : docs[i].doc = d => docs[i].status = 2
===============================================================================
