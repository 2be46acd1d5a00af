------------------------------ MODULE MCLiveness ------------------------------
(***************************************************************************)
(* What must eventually happen, in one run.  Ingestion, check-out, payment *)
(* and the page of documents share no state and are checked one at a time: *)
(* a behaviour picks its scene at the start and leaves the variables of    *)
(* the others alone.                                                       *)
(***************************************************************************)
EXTENDS DocumentPipeline

CONSTANTS m, l, s1, s2, f0, f1,             \* check-out
          firm1, o1, t1, t2, h1, h2,        \* payment
          w1, w2, d1, d2,                   \* ingestion
          c1, c2, Gone, Failed, Refused     \* page

VARIABLES
    scene,
    holder, age, working, versions, filePath, stored, assigned, active, request,
    firm, trialOver, subscription, expiring, order, recorded, offered, paidFor,
    inbox, answered, handler, cut, processed,
    chosen, listed, docsLoading, error, question, uploading, polls, final, strays, choices

Checkout == INSTANCE DocumentCheckout WITH
    Documents <- {1}, Users <- {m, l}, Managers <- {m},
    Cases <- {1}, CaseOf <- [d \in {1} |-> 1], Firms <- {1}, TimeoutOf <- [f \in {1} |-> 0],
    Sessions <- {s1, s2}, Files <- {f0, f1}, Original <- f0, MaxAge <- 1

Payment == INSTANCE Subscription WITH
    Firms <- {firm1}, Orders <- {o1}, Transactions <- {t1, t2}, Good <- {t1, t2},
    Handlers <- {h1, h2}, Nothing <- None, HandlersCrash <- FALSE

Page == INSTANCE DocumentsScreen WITH
    Docs <- {d1}, Cases <- {c1, c2}, CaseOf <- [d \in {d1} |-> c1], Stages <- {0, 1, 2},
    MaxPolls <- 2, MaxChoices <- 2, docs <- listed, status <- final

checkoutVars == <<holder, age, working, versions, filePath, stored, assigned, active, request>>
paymentVars == <<firm, trialOver, subscription, expiring, order, recorded, offered, paidFor,
                 inbox, answered, handler, cut, processed>>
pageVars == <<chosen, listed, docsLoading, error, question, uploading, polls, final, strays, choices>>
allVars == <<scene, vars, checkoutVars, paymentVars, pageVars>>

LiveInit ==
    /\ scene \in {"ingestion", "checkout", "payment", "page"}
    /\ Init /\ Checkout!Init /\ Payment!PaymentInit /\ Page!DocInit
    /\ scene # "page" => final[d1] = 0

Ingesting ==
    scene = "ingestion" /\ Next /\ UNCHANGED <<scene, checkoutVars, paymentVars, pageVars>>

CheckingOut ==
    scene = "checkout" /\ Checkout!Next /\ UNCHANGED <<scene, vars, paymentVars, pageVars>>

Paying ==
    scene = "payment" /\ Payment!PaymentNext /\ UNCHANGED <<scene, vars, checkoutVars, pageVars>>

Following ==
    scene = "page" /\ Page!DocNext /\ UNCHANGED <<scene, vars, checkoutVars, paymentVars>>

LiveNext == Ingesting \/ CheckingOut \/ Paying \/ Following

(* The fairness of the four specifications, each where it is at work.      *)
LiveFairness ==
    /\ \A w \in Workers : WF_vars(scene = "ingestion" /\ Work(w))
    /\ \A s \in {s1, s2} : WF_checkoutVars(scene = "checkout" /\ Checkout!Continue(s))
    /\ WF_checkoutVars(scene = "checkout" /\ Checkout!Tick)
    /\ WF_checkoutVars(scene = "checkout" /\ Checkout!ReleaseStale)
    /\ \A h \in {h1, h2} : WF_paymentVars(scene = "payment" /\ Payment!Handle(h))
    /\ \A t \in {t1, t2} :
           SF_paymentVars(/\ scene = "payment" /\ t \notin answered
                          /\ \E h \in {h1, h2} : Payment!Deliver(h, t))
    /\ WF_pageVars(scene = "page" /\ Page!Tick)
    /\ WF_pageVars(scene = "page" /\ Page!Progress(d1))
    /\ SF_pageVars(scene = "page" /\ \E i \in DOMAIN polls : Page!ServerTells(i))
    /\ SF_pageVars(scene = "page" /\ \E i \in DOMAIN polls : Page!TakeStatus(i))

LiveSpec == LiveInit /\ [][LiveNext]_allVars /\ LiveFairness
-------------------------------------------------------------------------------
(* A forgotten check-out never blocks the team indefinitely                *)
(* (checkout_release.py:4), its holder deactivated or not; and no request  *)
(* waits for ever for the transaction of another one (0022:45).            *)
LocksAndRequestsEnd == Checkout!LockEndsEventually /\ Checkout!RequestsFinish

(* Whoever has paid is activated (signup.py:171-218), also when the trial  *)
(* is over and when the provider had to call again.                        *)
PaidIsActivated == Payment!PaidIsActivated

(* A document that the page shows as being processed comes to its final    *)
(* status there, or leaves the page, although polls fail, overlap and give *)
(* way to another choice (documents/page.tsx:113-136).                     *)
StatusesArrive == Page!StatusesArrive
===============================================================================
