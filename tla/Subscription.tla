------------------------------ MODULE Subscription ------------------------------
(***************************************************************************)
(* How a firm's trial ends and how its payment activates it                *)
(* (backend/app/api/signup.py, app/scheduler/reminders.py expire_trials).  *)
(*                                                                         *)
(* Starting a payment creates an order at the provider, then records which *)
(* firm it is for, then hands out the payment page.  The provider calls    *)
(* the webhook about each transaction, as often as it likes.  The webhook  *)
(* puts the transaction in its inbox, billing_events, and every statement  *)
(* after that commits by itself.                                           *)
(***************************************************************************)
EXTENDS Naturals

CONSTANTS
    Firms,          \* ids of rows of table firms
    Orders,         \* order ids of the provider
    Transactions,   \* transaction ids of the provider
    Good,           \* transactions that succeed with the plan's amount
    Handlers,       \* concurrent webhook requests
    Nothing,        \* no firm, no order, no transaction
    HandlersCrash   \* may the API process die during a webhook request?

ASSUME GoodAssumption == Good \subseteq Transactions
ASSUME NothingAssumption == Nothing \notin Firms \cup Orders \cup Transactions
ASSUME HandlersAssumption == HandlersCrash \in BOOLEAN

VARIABLES
    firm,           \* firm -> firms.status
    trialOver,      \* firms whose trial_ends_at has passed
    subscription,   \* firm -> subscriptions.status
    expiring,       \* firms the running expire_trials has found, Nothing between runs
    order,          \* order -> the firm that initiated it
    recorded,       \* orders with their row in billing_events
    offered,        \* orders whose payment page a client holds
    paidFor,        \* transaction -> its order, once the client has paid
    inbox,          \* transactions with their row in billing_events
    answered,       \* transactions the provider got a 200 for
    handler,        \* handler -> the webhook request it serves
    cut,            \* auxiliary: transactions of which a webhook request died
    processed       \* auxiliary: transaction -> how often a webhook request went through with it

paymentVars == <<firm, trialOver, subscription, expiring, order, recorded, offered,
                 paidFor, inbox, answered, handler, cut, processed>>
firmVars == <<firm, trialOver, subscription, expiring>>
orderVars == <<order, recorded, offered>>
webhookVars == <<inbox, answered, handler, cut, processed>>

NoDelivery == [step |-> "idle", txn |-> Nothing]
Steps == {"inbox", "resolve", "subscribe", "activate", "settle"}

PaymentTypeOK ==
    /\ firm \in [Firms -> {"trial", "active", "suspended"}]
    /\ trialOver \subseteq Firms
    /\ subscription \in [Firms -> {"trialing", "active"}]
    /\ expiring \in (SUBSET Firms) \cup {Nothing}
    /\ order \in [Orders -> Firms \cup {Nothing}]
    /\ recorded \subseteq Orders /\ offered \subseteq recorded
    /\ paidFor \in [Transactions -> offered \cup {Nothing}]
    /\ inbox \subseteq Transactions /\ answered \subseteq inbox
    /\ handler \in [Handlers -> [step : Steps, txn : Transactions] \cup {NoDelivery}]
    /\ cut \subseteq Transactions
    /\ processed \in [Transactions -> Nat]

(* signup has created the firms: in trial, with a trialing subscription.   *)
PaymentInit ==
    /\ firm = [f \in Firms |-> "trial"] /\ trialOver = {}
    /\ subscription = [f \in Firms |-> "trialing"]
    /\ expiring = Nothing
    /\ order = [o \in Orders |-> Nothing] /\ recorded = {} /\ offered = {}
    /\ paidFor = [t \in Transactions |-> Nothing]
    /\ inbox = {} /\ answered = {}
    /\ handler = [h \in Handlers |-> NoDelivery] /\ cut = {}
    /\ processed = [t \in Transactions |-> 0]
-------------------------------------------------------------------------------
TrialEnds(f) ==
    /\ trialOver' = trialOver \cup {f}
    /\ UNCHANGED <<firm, subscription, expiring, orderVars, paidFor, webhookVars>>

(* The snapshot of the UPDATE in expire_trials.                            *)
FindExpired ==
    /\ expiring = Nothing
    /\ expiring' = {f \in trialOver : firm[f] = "trial" /\ subscription[f] # "active"}
    /\ UNCHANGED <<firm, trialOver, subscription, orderVars, paidFor, webhookVars>>

(* Mutant: only the date and the subscription are looked at.               *)
SuspendExpiredOfAnyStatus ==
    /\ expiring # Nothing
    /\ firm' = [f \in Firms |-> IF f \in expiring THEN "suspended" ELSE firm[f]]
    /\ expiring' = Nothing
    /\ UNCHANGED <<trialOver, subscription, orderVars, paidFor, webhookVars>>

(* Its write: a row that has changed since the snapshot is tested again,   *)
(* for its own columns.                                                    *)
SuspendExpired ==
    /\ expiring # Nothing
    /\ firm' = [f \in Firms |->
           IF f \in expiring /\ firm[f] = "trial" THEN "suspended" ELSE firm[f]]
    /\ expiring' = Nothing
    /\ UNCHANGED <<trialOver, subscription, orderVars, paidFor, webhookVars>>
-------------------------------------------------------------------------------
(* initiate_payment: the order is created at the provider.                 *)
CreateOrder(f, o) ==
    /\ order[o] = Nothing
    /\ order' = [order EXCEPT ![o] = f]
    /\ UNCHANGED <<firmVars, recorded, offered, paidFor, webhookVars>>

(* The order's firm is recorded, then the payment page returned.           *)
RecordOrder(o) ==
    /\ order[o] # Nothing
    /\ recorded' = recorded \cup {o}
    /\ UNCHANGED <<firmVars, order, offered, paidFor, webhookVars>>

OfferPayment(o) ==
    /\ o \in recorded
    /\ offered' = offered \cup {o}
    /\ UNCHANGED <<firmVars, order, recorded, paidFor, webhookVars>>

(* The client tries to pay; one order may see several transactions.        *)
Pay(t, o) ==
    /\ paidFor[t] = Nothing /\ o \in offered
    /\ paidFor' = [paidFor EXCEPT ![t] = o]
    /\ UNCHANGED <<firmVars, orderVars, webhookVars>>
-------------------------------------------------------------------------------
Serve(h, step) ==
    /\ handler' = [handler EXCEPT ![h] = IF step = "idle" THEN NoDelivery ELSE [@ EXCEPT !.step = step]]
    /\ UNCHANGED <<trialOver, expiring, orderVars, paidFor>>

Answer(h) ==
    /\ answered' = answered \cup {handler[h].txn}
    /\ Serve(h, "idle")

(* The provider calls about a transaction, for the first time or again.    *)
Deliver(h, t) ==
    /\ handler[h] = NoDelivery /\ paidFor[t] # Nothing
    /\ handler' = [handler EXCEPT ![h] = [step |-> "inbox", txn |-> t]]
    /\ UNCHANGED <<firmVars, orderVars, paidFor, inbox, answered, cut, processed>>

(* Mutant: a transaction that is in the inbox is gone through again.       *)
PutInInboxAgain(h) ==
    /\ handler[h].step = "inbox"
    /\ inbox' = inbox \cup {handler[h].txn}
    /\ Serve(h, "resolve")
    /\ UNCHANGED <<firm, subscription, answered, cut, processed>>

(* INSERT ... ON CONFLICT DO NOTHING: one request gets the transaction.    *)
PutInInbox(h) ==
    /\ handler[h].step = "inbox"
    /\ IF handler[h].txn \in inbox
       THEN UNCHANGED inbox /\ Answer(h)
       ELSE inbox' = inbox \cup {handler[h].txn} /\ Serve(h, "resolve") /\ UNCHANGED answered
    /\ UNCHANGED <<firm, subscription, cut, processed>>

(* Mutant: what the transaction paid is not looked at.                     *)
ResolveAny(h) ==
    /\ handler[h].step = "resolve"
    /\ processed' = [processed EXCEPT ![handler[h].txn] = @ + 1]
    /\ IF paidFor[handler[h].txn] \in recorded
       THEN Serve(h, "subscribe") /\ UNCHANGED answered
       ELSE Answer(h)
    /\ UNCHANGED <<firm, subscription, inbox, cut>>

(* The order's firm is looked up, the amount reconciled with the plan.     *)
Resolve(h) ==
    /\ handler[h].step = "resolve"
    /\ processed' = [processed EXCEPT ![handler[h].txn] = @ + 1]
    /\ IF paidFor[handler[h].txn] \in recorded
       THEN /\ Serve(h, IF handler[h].txn \in Good THEN "subscribe" ELSE "settle")
            /\ UNCHANGED answered
       ELSE Answer(h)
    /\ UNCHANGED <<firm, subscription, inbox, cut>>

FirmOf(t) == order[paidFor[t]]

Subscribe(h) ==
    /\ handler[h].step = "subscribe"
    /\ subscription' = [subscription EXCEPT ![FirmOf(handler[h].txn)] = "active"]
    /\ Serve(h, "activate")
    /\ UNCHANGED <<firm, inbox, answered, cut, processed>>

(* Mutant: only firms in trial are activated.                              *)
ActivateTrial(h) ==
    /\ handler[h].step = "activate"
    /\ firm' = [firm EXCEPT ![FirmOf(handler[h].txn)] = IF @ = "trial" THEN "active" ELSE @]
    /\ Serve(h, "settle")
    /\ UNCHANGED <<subscription, inbox, answered, cut, processed>>

Activate(h) ==
    /\ handler[h].step = "activate"
    /\ firm' = [firm EXCEPT ![FirmOf(handler[h].txn)] = "active"]
    /\ Serve(h, "settle")
    /\ UNCHANGED <<subscription, inbox, answered, cut, processed>>

(* processed_at, which no code reads, and the answer.                      *)
Settle(h) ==
    /\ handler[h].step = "settle"
    /\ Answer(h)
    /\ UNCHANGED <<firm, subscription, inbox, cut, processed>>

HandlerDies(h) ==
    /\ HandlersCrash /\ handler[h] # NoDelivery
    /\ cut' = cut \cup {handler[h].txn}
    /\ Serve(h, "idle")
    /\ UNCHANGED <<firm, subscription, inbox, answered, processed>>

Handle(h) ==
    \/ PutInInbox(h)
    \/ Resolve(h)
    \/ Subscribe(h)
    \/ Activate(h)
    \/ Settle(h)

PaymentNext ==
    \/ \E f \in Firms : TrialEnds(f)
    \/ FindExpired \/ SuspendExpired
    \/ \E f \in Firms, o \in Orders : CreateOrder(f, o)
    \/ \E o \in Orders : RecordOrder(o) \/ OfferPayment(o)
    \/ \E t \in Transactions, o \in Orders : Pay(t, o)
    \/ \E h \in Handlers, t \in Transactions : Deliver(h, t)
    \/ \E h \in Handlers : Handle(h) \/ HandlerDies(h)

PaymentSpec == PaymentInit /\ [][PaymentNext]_paymentVars

(* A request that is not cut off is served to its end, and the provider    *)
(* calls again until it is answered.                                       *)
DeliveryFairness ==
    /\ \A h \in Handlers : WF_paymentVars(Handle(h))
    /\ \A t \in Transactions :
           SF_paymentVars(t \notin answered /\ \E h \in Handlers : Deliver(h, t))

FairPaymentSpec == PaymentSpec /\ DeliveryFairness
-------------------------------------------------------------------------------
(* "Only a verified, amount-reconciled, successful transaction activates   *)
(* the firm" (signup.py:11), the firm that initiated the payment.          *)
ActiveIsPaid ==
    \A f \in Firms :
        firm[f] = "active" \/ subscription[f] = "active"
        => \E t \in Good \cap inbox : FirmOf(t) = f

(* "Same transaction processed once" (signup.py:174): of all the requests  *)
(* about a transaction, at the same time or one after another, also after  *)
(* one has died, one at most goes on to what it has paid for.              *)
ProcessedOnce == \A t \in Transactions : processed[t] <= 1

(* Once no webhook is at work on it, and none has died of a payment of its *)
(* own, a firm with an active subscription is active: the daily expiry,    *)
(* working on an older snapshot, does not suspend a firm whose payment     *)
(* comes in meanwhile.                                                     *)
SubscribedIsServed ==
    \A f \in Firms :
        /\ subscription[f] = "active"
        /\ \A h \in Handlers : handler[h].step = "activate" => FirmOf(handler[h].txn) # f
        /\ \A t \in cut : FirmOf(t) # f
        => firm[f] = "active"

(* Whoever has paid is activated, also when the trial is over.             *)
PaidIsActivated ==
    \A t \in Good, f \in Firms :
        paidFor[t] # Nothing /\ FirmOf(t) = f ~> firm[f] = "active"
===============================================================================
