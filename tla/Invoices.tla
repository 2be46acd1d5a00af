-------------------------------- MODULE Invoices --------------------------------
(***************************************************************************)
(* Invoices and their payments (backend/app/api/billing.py, migration      *)
(* 0015).                                                                  *)
(*                                                                         *)
(* Every request reads the invoice, decides on its status and then writes, *)
(* each in a statement that commits by itself; no write looks at the       *)
(* status again.  Recording a payment is four of them: the invoice is      *)
(* read, the payment inserted, the payments summed up, the status set.     *)
(***************************************************************************)
EXTENDS Integers

CONSTANTS
    Invoices,       \* ids of rows of table invoices
    Requests,       \* requests that may be served at the same time
    Prices,         \* prices of one line item
    MaxLines,       \* bound on the line items of an invoice
    Rates,          \* tax rates in percent
    Discounts,      \* discounts
    Amounts,        \* amounts of payments
    MaxPaid,        \* bound on the sum of an invoice's payments
    None,           \* no invoice
    RequestsCrash   \* may the API process die during a request?

ASSUME MoneyAssumption ==
    /\ Prices \subseteq Nat /\ Rates \subseteq Nat /\ Discounts \subseteq Nat
    /\ Amounts \subseteq Nat \ {0} /\ MaxPaid \in Nat /\ MaxLines \in Nat
ASSUME NoneAssumption == None \notin Invoices
ASSUME SwitchAssumption == RequestsCrash \in BOOLEAN

VARIABLES
    invoice,     \* invoice -> its row
    lines,       \* invoice -> the sum of its rows in invoice_line_items
    paid,        \* invoice -> the sum of its rows in payments
    request,     \* request -> what it does
    disturbed    \* history: the invoices on which one request began while another
                 \*   was at work, or on which one died

vars == <<invoice, lines, paid, request, disturbed>>

Statuses == {"absent", "draft", "sent", "partial", "paid", "cancelled"}
Rows == [status : Statuses, subtotal : Nat, rate : Nat, tax : Nat, discount : Nat, total : Int]
NoRow == [status |-> "absent", subtotal |-> 0, rate |-> 0, tax |-> 0, discount |-> 0, total |-> 0]

Steps == {"idle", "line", "change", "send", "cancel", "pay", "sum", "settle"}
RequestStates ==
    [step : Steps, invoice : Invoices \cup {None}, amount : Nat, left : Nat,
     status : Statuses, rate : Nat, discount : Nat]
Idle == [step |-> "idle", invoice |-> None, amount |-> 0, left |-> 0,
         status |-> "absent", rate |-> 0, discount |-> 0]

TypeOK ==
    /\ invoice \in [Invoices -> Rows]
    /\ lines \in [Invoices -> Nat]
    /\ paid \in [Invoices -> Nat]
    /\ request \in [Requests -> RequestStates]
    /\ disturbed \subseteq Invoices
    /\ \A r \in Requests : request[r].step # "idle" => request[r].invoice \in Invoices

Init ==
    /\ invoice = [i \in Invoices |-> NoRow]
    /\ lines = [i \in Invoices |-> 0]
    /\ paid = [i \in Invoices |-> 0]
    /\ request = [r \in Requests |-> Idle]
    /\ disturbed = {}
-------------------------------------------------------------------------------
Serve(r, state) == request' = [request EXCEPT ![r] = state]

Begin(r, i, step) == [Idle EXCEPT !.step = step, !.invoice = i]

(* No request is at work on the invoice.                                   *)
Settled(i) == \A r \in Requests : request[r].invoice # i

(* A request goes on if the status it reads is one of those.               *)
Reads(r, i, statuses) ==
    /\ request[r] = Idle
    /\ invoice[i].status \in statuses
    /\ disturbed' = IF Settled(i) THEN disturbed ELSE disturbed \cup {i}

SetStatus(i, s) == invoice' = [invoice EXCEPT ![i].status = s]

(* _compute_totals                                                         *)
Tax(subtotal, rate) == (subtotal * rate) \div 100
Total(subtotal, rate, discount) == subtotal + Tax(subtotal, rate) - discount

(* create_invoice: the row with its totals, then one line after the other. *)
Create(r, i, n, price, rate, discount) ==
    /\ request[r] = Idle /\ invoice[i] = NoRow
    /\ invoice' = [invoice EXCEPT ![i] =
           [status |-> "draft", subtotal |-> n * price, rate |-> rate, tax |-> Tax(n * price, rate),
            discount |-> discount, total |-> Total(n * price, rate, discount)]]
    /\ Serve(r, IF n = 0 THEN Idle
                ELSE [Begin(r, i, "line") EXCEPT !.left = n, !.amount = price])
    /\ UNCHANGED <<lines, paid, disturbed>>

InsertLine(r) ==
    LET q == request[r]
    IN  /\ q.step = "line"
        /\ lines' = [lines EXCEPT ![q.invoice] = @ + q.amount]
        /\ Serve(r, IF q.left = 1 THEN Idle ELSE [q EXCEPT !.left = @ - 1])
        /\ UNCHANGED <<invoice, paid, disturbed>>

(* update_invoice: the rate or the discount, but no totals.                *)
BeginChange(r, i, rate, discount) ==
    /\ Reads(r, i, {"draft", "sent", "partial"})
    /\ Serve(r, [Begin(r, i, "change") EXCEPT !.rate = rate, !.discount = discount])
    /\ UNCHANGED <<invoice, lines, paid>>

Change(r) ==
    LET q == request[r]
    IN  /\ q.step = "change"
        /\ invoice' = [invoice EXCEPT ![q.invoice].rate = q.rate, ![q.invoice].discount = q.discount]
        /\ Serve(r, Idle)
        /\ UNCHANGED <<lines, paid, disturbed>>

(* send_invoice                                                            *)
BeginSend(r, i) ==
    /\ Reads(r, i, {"draft"})
    /\ Serve(r, Begin(r, i, "send"))
    /\ UNCHANGED <<invoice, lines, paid>>

Send(r) ==
    /\ request[r].step = "send"
    /\ SetStatus(request[r].invoice, "sent")
    /\ Serve(r, Idle)
    /\ UNCHANGED <<lines, paid, disturbed>>

(* Mutant: an invoice of any status is cancelled.                          *)
BeginCancelOfAny(r, i) ==
    /\ Reads(r, i, Statuses \ {"absent"})
    /\ Serve(r, Begin(r, i, "cancel"))
    /\ UNCHANGED <<invoice, lines, paid>>

(* cancel_invoice                                                          *)
BeginCancel(r, i) ==
    /\ Reads(r, i, {"draft", "sent", "partial", "cancelled"})
    /\ Serve(r, Begin(r, i, "cancel"))
    /\ UNCHANGED <<invoice, lines, paid>>

Cancel(r) ==
    /\ request[r].step = "cancel"
    /\ SetStatus(request[r].invoice, "cancelled")
    /\ Serve(r, Idle)
    /\ UNCHANGED <<lines, paid, disturbed>>

(* record_payment: the status is read now and compared with later.         *)
BeginPay(r, i, amount) ==
    /\ Reads(r, i, {"draft", "sent", "partial", "paid"})
    /\ paid[i] + amount <= MaxPaid
    /\ Serve(r, [Begin(r, i, "pay") EXCEPT !.amount = amount, !.status = invoice[i].status])
    /\ UNCHANGED <<invoice, lines, paid>>

InsertPayment(r) ==
    LET q == request[r]
    IN  /\ q.step = "pay"
        /\ paid' = [paid EXCEPT ![q.invoice] = @ + q.amount]
        /\ Serve(r, [q EXCEPT !.step = "sum"])
        /\ UNCHANGED <<invoice, lines, disturbed>>

(* Mutant: what is paid is compared with the subtotal.                     *)
StatusForSubtotal(i, seen) ==
    IF paid[i] >= invoice[i].subtotal THEN "paid" ELSE IF paid[i] > 0 THEN "partial" ELSE seen

StatusFor(i, seen) ==
    IF paid[i] >= invoice[i].total THEN "paid" ELSE IF paid[i] > 0 THEN "partial" ELSE seen

SumPayments(r) ==
    LET q == request[r]
        new == StatusFor(q.invoice, q.status)
    IN  /\ q.step = "sum"
        /\ Serve(r, IF new = q.status THEN Idle ELSE [q EXCEPT !.step = "settle", !.status = new])
        /\ UNCHANGED <<invoice, lines, paid, disturbed>>

Settle(r) ==
    /\ request[r].step = "settle"
    /\ SetStatus(request[r].invoice, request[r].status)
    /\ Serve(r, Idle)
    /\ UNCHANGED <<lines, paid, disturbed>>

Crash(r) ==
    /\ RequestsCrash /\ request[r].step # "idle"
    /\ Serve(r, Idle)
    /\ disturbed' = disturbed \cup {request[r].invoice}
    /\ UNCHANGED <<invoice, lines, paid>>

Next ==
    \E r \in Requests :
        \/ \E i \in Invoices :
              \/ \E n \in 0 .. MaxLines, price \in Prices, rate \in Rates, discount \in Discounts :
                     Create(r, i, n, price, rate, discount)
              \/ \E rate \in Rates, discount \in Discounts : BeginChange(r, i, rate, discount)
              \/ BeginSend(r, i) \/ BeginCancel(r, i)
              \/ \E amount \in Amounts : BeginPay(r, i, amount)
        \/ InsertLine(r) \/ Change(r) \/ Send(r) \/ Cancel(r)
        \/ InsertPayment(r) \/ SumPayments(r) \/ Settle(r)
        \/ Crash(r)

Spec == Init /\ [][Next]_vars
-------------------------------------------------------------------------------
(* An invoice is "paid" only when its payments reach its total, however    *)
(* payments, changes and other requests interleave (record_payment).       *)
PaidIsCovered == \A i \in Invoices : invoice[i].status = "paid" => paid[i] >= invoice[i].total

(* "If SUM(payments.amount) >= invoices.total_due -> paid; else if SUM > 0 *)
(* -> partial" (data-model.md:281), once no request is at work on it and   *)
(* as long as those on this invoice came one by one and lived.             *)
StatusFollowsPayments ==
    \A i \in Invoices \ disturbed :
        /\ Settled(i) /\ paid[i] > 0 /\ invoice[i].status # "cancelled"
        => invoice[i].status = IF paid[i] >= invoice[i].total THEN "paid" ELSE "partial"

(* The state machine of data-model.md:408 has no way out of paid and       *)
(* cancelled; nor has an invoice whose requests come one by one.           *)
KeepsSettled ==
    \A i \in Invoices \ disturbed :
        invoice[i].status \in {"paid", "cancelled"} => invoice'[i].status = invoice[i].status

(* The status of an invoice says what its payments come to, and a paid or  *)
(* cancelled one stays that, for every invoice on which no two requests    *)
(* were at work at once and none died, whatever befalls the others.        *)
StatusFollows == []StatusFollowsPayments /\ [][KeepsSettled]_vars
===============================================================================
