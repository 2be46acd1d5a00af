----------------------------- MODULE PracticeProofs -----------------------------
(***************************************************************************)
(* Proofs about the office's own records, for any number of rows, users    *)
(* and requests at the same time: Invoices, Appointments, FolderTree and   *)
(* DocumentSharing.                                                        *)
(*                                                                         *)
(* In each of them a request decides in one statement and writes in        *)
(* another.  What it decided stays true until some other request crosses   *)
(* it; the histories disturbed, raced, looped and crossed say when that    *)
(* has happened, and the invariants say what every request may count on    *)
(* until then.                                                             *)
(***************************************************************************)
EXTENDS Invoices, Appointments, FolderTree, DocumentSharing, TLAPS

-------------------------------------------------------------------------------
(***************************************************************************)
(* Invoices. The status of an invoice is written by a request that decided *)
(* on it earlier, so the invariant says of every request that is about to  *)
(* write "paid" that the payments cover the total, and that the total,     *)
(* once there, stays what it is: a request at work on an invoice keeps     *)
(* create_invoice from making it anew.                                     *)
(***************************************************************************)

(* A request is at work on an invoice that has a row.                      *)
HasRow == \A r \in Requests :
    request[r].step # "idle" => invoice[request[r].invoice].status # "absent"

(* What a request is about to write, the payments justify.                 *)
PaidIsJustified == \A r \in Requests :
    request[r].step = "settle"
    => /\ request[r].status # "absent"
       /\ request[r].status = "paid"
          => paid[request[r].invoice] >= invoice[request[r].invoice].total

(* create_invoice stops when its last line is in.                          *)
LinesAreLeft == \A r \in Requests : request[r].step = "line" => request[r].left # 0

IInv == TypeOK /\ HasRow /\ PaidIsJustified /\ LinesAreLeft /\ PaidIsCovered
-------------------------------------------------------------------------------
(* What create_invoice computes are numbers.                                *)
LEMMA TotalsType ==
    ASSUME NEW n \in 0 .. MaxLines, NEW price \in Prices, NEW rate \in Rates, NEW discount \in Discounts
    PROVE  /\ n * price \in Nat /\ rate \in Nat /\ discount \in Nat
           /\ Tax(n * price, rate) \in Nat
           /\ Total(n * price, rate, discount) \in Int
<1>1. price \in Nat /\ rate \in Nat /\ discount \in Nat /\ n \in Nat
    BY MoneyAssumption
<1>2. n * price \in Nat
    BY <1>1
<1>3. (n * price) * rate \in Nat
    BY <1>1, <1>2
<1>4. ((n * price) * rate) \div 100 \in Nat
    BY <1>3
<1> QED
    BY <1>1, <1>2, <1>4 DEF Tax, Total

LEMMA InitIInv == Init => IInv
BY DEF Init, IInv, TypeOK, HasRow, PaidIsJustified, PaidIsCovered, NoRow, Rows, Idle,
       RequestStates, Steps, Statuses, LinesAreLeft

(* A step that leaves the invoices and their payments alone, and lets one  *)
(* request come to a state that IInv allows it.                            *)
LEMMA OnlyRequest ==
    ASSUME IInv, NEW r \in Requests, NEW state \in RequestStates, Serve(r, state),
           UNCHANGED <<invoice, paid>>, lines' \in [Invoices -> Nat], disturbed' \subseteq Invoices,
           state.step = "line" => state.left # 0,
           state.step # "idle" => state.invoice \in Invoices,
           state.step # "idle" => invoice[state.invoice].status # "absent",
           state.step = "settle" => /\ state.status # "absent"
                                    /\ state.status = "paid" => paid[state.invoice] >= invoice[state.invoice].total
    PROVE  IInv'
BY DEF IInv, TypeOK, HasRow, PaidIsJustified, PaidIsCovered, LinesAreLeft, Serve

LEMMA IdleType == Idle \in RequestStates /\ Idle.step = "idle"
BY DEF Idle, RequestStates, Steps, Statuses

(* A request that starts on an invoice with a row.                         *)
LEMMA BeginType ==
    ASSUME NEW r \in Requests, NEW i \in Invoices, NEW step \in Steps
    PROVE  /\ Begin(r, i, step) \in RequestStates
           /\ Begin(r, i, step).step = step /\ Begin(r, i, step).invoice = i
BY IdleType DEF Begin, Idle, RequestStates, Steps, Statuses

(* A request that sets a status and ends.                                  *)
LEMMA WriteStatus ==
    ASSUME IInv, NEW r \in Requests, NEW s \in Statuses \ {"absent"}, request[r].step # "idle",
           SetStatus(request[r].invoice, s), Serve(r, Idle), UNCHANGED <<lines, paid, disturbed>>,
           s = "paid" => paid[request[r].invoice] >= invoice[request[r].invoice].total
    PROVE  IInv'
<1> DEFINE i == request[r].invoice
<1>1. i \in Invoices
    BY DEF IInv, TypeOK
<1>2. invoice' \in [Invoices -> Rows]
    BY <1>1 DEF IInv, TypeOK, SetStatus, Rows
<1>3. \A j \in Invoices : /\ invoice'[j].total = invoice[j].total
                          /\ invoice'[j].status = IF j = i THEN s ELSE invoice[j].status
    BY <1>1 DEF IInv, TypeOK, SetStatus, Rows
<1>4. request' \in [Requests -> RequestStates]
    BY IdleType DEF IInv, TypeOK, Serve
<1>5. \A q \in Requests : request'[q] = IF q = r THEN Idle ELSE request[q]
    BY DEF IInv, TypeOK, Serve
<1>6. TypeOK'
    BY <1>2, <1>4, <1>5, IdleType DEF IInv, TypeOK
<1>7. HasRow'
    BY <1>3, <1>5, IdleType DEF IInv, TypeOK, HasRow
<1>8. PaidIsJustified'
    BY <1>3, <1>5, IdleType DEF IInv, TypeOK, PaidIsJustified
<1>9. PaidIsCovered'
    BY <1>3 DEF IInv, PaidIsCovered
<1>10. LinesAreLeft'
    BY <1>5, IdleType DEF IInv, LinesAreLeft
<1> QED
    BY <1>6, <1>7, <1>8, <1>9, <1>10 DEF IInv

(* create_invoice takes an id nobody works on; its row is a draft.         *)
LEMMA CreateIInv ==
    ASSUME IInv, NEW r \in Requests, NEW i \in Invoices, NEW n \in 0 .. MaxLines,
           NEW price \in Prices, NEW rate \in Rates, NEW discount \in Discounts,
           Create(r, i, n, price, rate, discount)
    PROVE  IInv'
<1> DEFINE row == [status |-> "draft", subtotal |-> n * price, rate |-> rate, tax |-> Tax(n * price, rate),
                   discount |-> discount, total |-> Total(n * price, rate, discount)]
           state == IF n = 0 THEN Idle
                    ELSE [Begin(r, i, "line") EXCEPT !.left = n, !.amount = price]
<1>1. row \in Rows /\ row.status = "draft"
    BY TotalsType DEF Rows, Statuses
<1>2. /\ state \in RequestStates /\ state.step \in {"idle", "line"}
      /\ state.step = "line" => state.invoice = i /\ state.left # 0
    <2>1. "line" \in Steps
        BY DEF Steps
    <2>2. Begin(r, i, "line") \in RequestStates
          /\ Begin(r, i, "line").step = "line" /\ Begin(r, i, "line").invoice = i
        BY <2>1, BeginType
    <2>3. n \in Nat /\ price \in Nat
        BY MoneyAssumption
    <2> QED
        BY <2>2, <2>3, IdleType DEF RequestStates
<1> HIDE DEF row, state
<1>3. invoice[i].status = "absent"
    BY DEF Create, NoRow
<1>4. invoice' = [invoice EXCEPT ![i] = row] /\ request' = [request EXCEPT ![r] = state]
      /\ lines' = lines /\ paid' = paid /\ disturbed' = disturbed
    BY DEF Create, Serve, row, state
<1>5. \A q \in Requests : request[q].step # "idle" => request[q].invoice # i
    BY <1>3 DEF IInv, HasRow
<1>6. \A j \in Invoices : invoice'[j] = IF j = i THEN row ELSE invoice[j]
    BY <1>4 DEF IInv, TypeOK
<1>7. \A q \in Requests : request'[q] = IF q = r THEN state ELSE request[q]
    BY <1>4 DEF IInv, TypeOK
<1>8. TypeOK'
    BY <1>1, <1>2, <1>4, <1>7 DEF IInv, TypeOK
<1>9. HasRow'
    BY <1>1, <1>2, <1>5, <1>6, <1>7 DEF IInv, TypeOK, HasRow
<1>10. PaidIsJustified'
    BY <1>2, <1>4, <1>5, <1>6, <1>7 DEF IInv, TypeOK, PaidIsJustified
<1>11. PaidIsCovered'
    BY <1>1, <1>4, <1>6 DEF IInv, PaidIsCovered
<1>12. LinesAreLeft'
    BY <1>2, <1>7 DEF IInv, LinesAreLeft
<1> QED
    BY <1>8, <1>9, <1>10, <1>11, <1>12 DEF IInv

(* A line more, a line less to insert.                                     *)
LEMMA InsertLineIInv ==
    ASSUME IInv, NEW r \in Requests, InsertLine(r)
    PROVE  IInv'
<1> DEFINE q == request[r]
           state == IF q.left = 1 THEN Idle ELSE [q EXCEPT !.left = @ - 1]
<1>1. q \in RequestStates /\ q.step = "line" /\ q.invoice \in Invoices /\ q.left # 0
    BY DEF IInv, TypeOK, InsertLine, LinesAreLeft
<1>2. state \in RequestStates
      /\ (state.step # "idle" => state.step = "line" /\ state.invoice = q.invoice /\ state.left # 0)
    BY <1>1, IdleType DEF RequestStates
<1>3. lines' \in [Invoices -> Nat]
    BY <1>1 DEF IInv, TypeOK, InsertLine, RequestStates
<1>4. Serve(r, state) /\ UNCHANGED <<invoice, paid>> /\ disturbed' \subseteq Invoices
    BY DEF InsertLine, IInv, TypeOK
<1>5. invoice[q.invoice].status # "absent"
    BY <1>1 DEF IInv, HasRow
<1> HIDE DEF state
<1> QED
    BY <1>1, <1>2, <1>3, <1>4, <1>5, OnlyRequest

(* The requests that only read.                                            *)
LEMMA BeginIInv ==
    ASSUME IInv, NEW r \in Requests, NEW i \in Invoices, NEW step \in {"change", "send", "cancel", "pay"},
           NEW state \in RequestStates, state.step = step, state.invoice = i,
           invoice[i].status # "absent", Serve(r, state), UNCHANGED <<invoice, lines, paid>>,
           disturbed' \subseteq Invoices
    PROVE  IInv'
<1>1. lines' \in [Invoices -> Nat]
    BY DEF IInv, TypeOK
<1> QED
    BY <1>1, OnlyRequest

LEMMA BeginChangeIInv ==
    ASSUME IInv, NEW r \in Requests, NEW i \in Invoices, NEW rate \in Rates, NEW discount \in Discounts,
           BeginChange(r, i, rate, discount)
    PROVE  IInv'
<1> DEFINE first == Begin(r, i, "change")
           state == [first EXCEPT !.rate = rate, !.discount = discount]
<1>1. rate \in Nat /\ discount \in Nat /\ "change" \in Steps
    BY MoneyAssumption DEF Steps
<1>2. state \in RequestStates /\ state.step = "change" /\ state.invoice = i
    <2>1. first \in RequestStates /\ first.step = "change" /\ first.invoice = i
        BY <1>1, BeginType
    <2> HIDE DEF first
    <2> QED
        BY <1>1, <2>1 DEF RequestStates
<1>3. invoice[i].status # "absent" /\ Serve(r, state) /\ UNCHANGED <<invoice, lines, paid>>
      /\ disturbed' \subseteq Invoices
    BY DEF BeginChange, Reads, IInv, TypeOK
<1> HIDE DEF state
<1> QED
    BY <1>2, <1>3, BeginIInv

LEMMA BeginPayIInv ==
    ASSUME IInv, NEW r \in Requests, NEW i \in Invoices, NEW amount \in Amounts, BeginPay(r, i, amount)
    PROVE  IInv'
<1> DEFINE first == Begin(r, i, "pay")
           state == [first EXCEPT !.amount = amount, !.status = invoice[i].status]
<1>1. amount \in Nat /\ "pay" \in Steps /\ invoice[i].status \in Statuses
    BY MoneyAssumption DEF Steps, IInv, TypeOK, Rows
<1>2. state \in RequestStates /\ state.step = "pay" /\ state.invoice = i
    <2>1. first \in RequestStates /\ first.step = "pay" /\ first.invoice = i
        BY <1>1, BeginType
    <2> HIDE DEF first
    <2> QED
        BY <1>1, <2>1 DEF RequestStates
<1>3. invoice[i].status # "absent" /\ Serve(r, state) /\ UNCHANGED <<invoice, lines, paid>>
      /\ disturbed' \subseteq Invoices
    BY DEF BeginPay, Reads, IInv, TypeOK
<1> HIDE DEF state
<1> QED
    BY <1>2, <1>3, BeginIInv

LEMMA BeginSendOrCancelIInv ==
    ASSUME IInv, NEW r \in Requests, NEW i \in Invoices, BeginSend(r, i) \/ BeginCancel(r, i)
    PROVE  IInv'
<1>1. \A step \in {"send", "cancel"} : Begin(r, i, step) \in RequestStates
          /\ Begin(r, i, step).step = step /\ Begin(r, i, step).invoice = i
    BY BeginType DEF Steps
<1>2. disturbed' \subseteq Invoices
    BY DEF BeginSend, BeginCancel, Reads, IInv, TypeOK
<1> QED
    BY <1>1, <1>2, BeginIInv DEF BeginSend, BeginCancel, Reads

(* update_invoice touches neither the status nor the total.                *)
LEMMA ChangeIInv ==
    ASSUME IInv, NEW r \in Requests, Change(r)
    PROVE  IInv'
<1> DEFINE q == request[r]
<1>1. q \in RequestStates /\ q.invoice \in Invoices
    BY DEF IInv, TypeOK, Change
<1>2. invoice' \in [Invoices -> Rows]
    <2>1. q.rate \in Nat /\ q.discount \in Nat /\ invoice \in [Invoices -> Rows]
        BY <1>1 DEF IInv, TypeOK, RequestStates
    <2>2. [invoice[q.invoice] EXCEPT !.rate = q.rate, !.discount = q.discount] \in Rows
        BY <1>1, <2>1 DEF Rows
    <2>3. invoice' = [invoice EXCEPT ![q.invoice] =
                         [invoice[q.invoice] EXCEPT !.rate = q.rate, !.discount = q.discount]]
        BY <1>1, <2>1 DEF Change
    <2> QED
        BY <2>1, <2>2, <2>3
<1>3. \A i \in Invoices : invoice'[i].status = invoice[i].status /\ invoice'[i].total = invoice[i].total
    BY <1>1 DEF IInv, TypeOK, Change, Rows
<1>4. \A p \in Requests : request'[p] = IF p = r THEN Idle ELSE request[p]
    BY DEF IInv, TypeOK, Change, Serve
<1>5. request' \in [Requests -> RequestStates] /\ UNCHANGED <<paid, lines, disturbed>>
    BY IdleType DEF IInv, TypeOK, Change, Serve
<1>6. TypeOK'
    BY <1>2, <1>4, <1>5, IdleType DEF IInv, TypeOK
<1>7. HasRow' /\ PaidIsJustified' /\ LinesAreLeft'
    BY <1>3, <1>4, <1>5, IdleType DEF IInv, TypeOK, HasRow, PaidIsJustified, LinesAreLeft
<1>8. PaidIsCovered'
    BY <1>3, <1>5 DEF IInv, PaidIsCovered
<1> QED
    BY <1>6, <1>7, <1>8 DEF IInv

(* A payment covers more than before.                                      *)
LEMMA InsertPaymentIInv ==
    ASSUME IInv, NEW r \in Requests, InsertPayment(r)
    PROVE  IInv'
<1> DEFINE q == request[r]
           state == [q EXCEPT !.step = "sum"]
<1>1. q \in RequestStates /\ q.step = "pay" /\ q.invoice \in Invoices
    BY DEF IInv, TypeOK, InsertPayment
<1>2. state \in RequestStates /\ state.step = "sum" /\ state.invoice = q.invoice
    BY <1>1 DEF RequestStates, Steps
<1>3. \A p \in Requests : request'[p] = IF p = r THEN state ELSE request[p]
    BY DEF IInv, TypeOK, InsertPayment, Serve
<1>4. q.amount \in Nat
    BY <1>1 DEF RequestStates
<1>5. paid' \in [Invoices -> Nat] /\ \A i \in Invoices : paid'[i] >= paid[i]
    BY <1>1, <1>4 DEF IInv, TypeOK, InsertPayment
<1>6. request' \in [Requests -> RequestStates] /\ UNCHANGED <<invoice, lines, disturbed>>
    BY <1>2 DEF IInv, TypeOK, InsertPayment, Serve
<1>7. \A i \in Invoices : invoice[i].total \in Int /\ paid[i] \in Nat /\ paid'[i] \in Nat
    BY <1>5 DEF IInv, TypeOK, Rows
<1> HIDE DEF state
<1>8. TypeOK'
    BY <1>1, <1>2, <1>3, <1>5, <1>6 DEF IInv, TypeOK
<1>9. HasRow' /\ LinesAreLeft'
    BY <1>1, <1>2, <1>3, <1>6 DEF IInv, HasRow, LinesAreLeft
<1>10. PaidIsJustified'
    <2>1. \A p \in Requests : request'[p].step = "settle"
              => request'[p] = request[p] /\ request[p].invoice \in Invoices
        BY <1>2, <1>3 DEF IInv, TypeOK
    <2> QED
        BY <2>1, <1>5, <1>6, <1>7 DEF IInv, PaidIsJustified
<1>11. PaidIsCovered'
    BY <1>5, <1>6, <1>7 DEF IInv, PaidIsCovered
<1> QED
    BY <1>8, <1>9, <1>10, <1>11 DEF IInv

(* What SumPayments decides on, Settle may write.                          *)
LEMMA SumPaymentsIInv ==
    ASSUME IInv, NEW r \in Requests, SumPayments(r)
    PROVE  IInv'
<1> DEFINE q == request[r]
           new == StatusFor(q.invoice, q.status)
           state == IF new = q.status THEN Idle ELSE [q EXCEPT !.step = "settle", !.status = new]
<1>1. q \in RequestStates /\ q.step = "sum" /\ q.invoice \in Invoices /\ q.status \in Statuses
    BY DEF IInv, TypeOK, SumPayments, RequestStates
<1>2. new \in Statuses /\ (new # q.status => new \in {"partial", "paid"})
      /\ (new = "paid" => q.status = "paid" \/ paid[q.invoice] >= invoice[q.invoice].total)
    BY <1>1 DEF StatusFor, Statuses
<1> HIDE DEF new
<1>3. state \in RequestStates /\ state.step \in {"idle", "settle"}
      /\ (state.step = "settle" => state.invoice = q.invoice /\ state.status = new /\ new # q.status)
    BY <1>1, <1>2, IdleType DEF RequestStates, Steps
<1>4. Serve(r, state) /\ UNCHANGED <<invoice, lines, paid>> /\ disturbed' \subseteq Invoices
    BY DEF SumPayments, new, IInv, TypeOK
<1>5. invoice[q.invoice].status # "absent"
    BY <1>1 DEF IInv, HasRow
<1>6. lines' \in [Invoices -> Nat]
    BY <1>4 DEF IInv, TypeOK
<1>7. state.step = "settle" => /\ state.status # "absent"
                               /\ state.status = "paid" => paid[state.invoice] >= invoice[state.invoice].total
    BY <1>2, <1>3
<1> HIDE DEF state
<1> QED
    BY <1>1, <1>3, <1>4, <1>5, <1>6, <1>7, OnlyRequest

(* The requests that end with writing a status.                            *)
LEMMA WriteIInv ==
    ASSUME IInv, NEW r \in Requests, Send(r) \/ Cancel(r) \/ Settle(r)
    PROVE  IInv'
<1>1. CASE Send(r)
    BY <1>1, WriteStatus DEF Send, Statuses
<1>2. CASE Cancel(r)
    BY <1>2, WriteStatus DEF Cancel, Statuses
<1>3. CASE Settle(r)
    <2>1. request[r].status \in Statuses \ {"absent"}
          /\ (request[r].status = "paid" => paid[request[r].invoice] >= invoice[request[r].invoice].total)
        BY <1>3 DEF IInv, TypeOK, PaidIsJustified, Settle, RequestStates
    <2> QED
        BY <1>3, <2>1, WriteStatus DEF Settle
<1> QED
    BY <1>1, <1>2, <1>3

LEMMA CrashIInv ==
    ASSUME IInv, NEW r \in Requests, Crash(r)
    PROVE  IInv'
<1>1. lines' \in [Invoices -> Nat]
    BY DEF IInv, TypeOK, Crash
<1>2. disturbed' \subseteq Invoices
    BY DEF IInv, TypeOK, Crash
<1>3. Serve(r, Idle) /\ UNCHANGED <<invoice, paid>> /\ Idle \in RequestStates /\ Idle.step = "idle"
    BY IdleType DEF Crash
<1> QED
    BY <1>1, <1>2, <1>3, OnlyRequest

LEMMA StepIInv == IInv /\ [Next]_vars => IInv'
<1> SUFFICES ASSUME IInv, [Next]_vars PROVE IInv'
    OBVIOUS
<1>1. CASE UNCHANGED vars
    BY <1>1 DEF vars, IInv, TypeOK, HasRow, PaidIsJustified, LinesAreLeft, PaidIsCovered
<1>2. CASE Next
    <2>1. PICK r \in Requests :
              \/ \E i \in Invoices :
                    \/ \E n \in 0 .. MaxLines, price \in Prices, rate \in Rates, discount \in Discounts :
                           Create(r, i, n, price, rate, discount)
                    \/ \E rate \in Rates, discount \in Discounts : BeginChange(r, i, rate, discount)
                    \/ BeginSend(r, i) \/ BeginCancel(r, i)
                    \/ \E amount \in Amounts : BeginPay(r, i, amount)
              \/ InsertLine(r) \/ Change(r) \/ Send(r) \/ Cancel(r)
              \/ InsertPayment(r) \/ SumPayments(r) \/ Settle(r)
              \/ Crash(r)
        BY <1>2 DEF Next
    <2> QED
        BY <2>1, CreateIInv, BeginChangeIInv, BeginSendOrCancelIInv, BeginPayIInv, InsertLineIInv,
           ChangeIInv, WriteIInv, InsertPaymentIInv, SumPaymentsIInv, CrashIInv
<1> QED
    BY <1>1, <1>2

LEMMA Invariance == Spec => []IInv
BY InitIInv, StepIInv, PTL DEF Spec
-------------------------------------------------------------------------------
(* The tables and requests of Invoices keep their types.                   *)
THEOREM InvoiceTypes == Spec => []TypeOK
<1>1. IInv => TypeOK
    BY DEF IInv
<1> QED
    BY <1>1, Invariance, PTL

(* "paid" is never said of an invoice whose payments do not reach its      *)
(* total, however the statements of record_payment, update_invoice,        *)
(* send_invoice and cancel_invoice interleave and wherever one dies.       *)
THEOREM PaidInvoicesAreCovered == Spec => []PaidIsCovered
<1>1. IInv => PaidIsCovered
    BY DEF IInv
<1> QED
    BY <1>1, Invariance, PTL
-------------------------------------------------------------------------------
(***************************************************************************)
(* The status of an invoice on which requests come one by one: what the    *)
(* request at work may count on, and what it leaves behind.                *)
(***************************************************************************)

(* What the payments of an invoice come to.                                *)
Due(i) == IF paid[i] >= invoice[i].total THEN "paid" ELSE "partial"
StatusIsRight(i) == paid[i] > 0 /\ invoice[i].status # "cancelled" => invoice[i].status = Due(i)

(* What a request in state q, alone on invoice i, may count on.            *)
Working(q, i) ==
    /\ q.step # "idle"
    /\ q.step \notin {"sum", "settle"} => StatusIsRight(i)
    /\ q.step = "send" => invoice[i].status = "draft"
    /\ q.step = "cancel" => invoice[i].status # "paid"
    /\ q.step = "pay" => q.amount > 0
    /\ q.step \in {"pay", "sum"} => q.status = invoice[i].status /\ q.status # "cancelled"
    /\ q.step \in {"sum", "settle"} => paid[i] > 0
    /\ q.step = "settle" => q.status = Due(i) /\ invoice[i].status \notin {"paid", "cancelled"}

Alone(r, i) == \A p \in Requests \ {r} : request[p].invoice # i

(* An invoice whose requests come one by one.                              *)
InOrder(i) ==
    /\ Settled(i) => StatusIsRight(i)
    /\ \A r \in Requests : request[r].invoice = i => Alone(r, i) /\ Working(request[r], i)

IdleIsIdle == \A r \in Requests : request[r].step = "idle" => request[r] = Idle

OrderInv == IInv /\ IdleIsIdle /\ \A i \in Invoices \ disturbed : InOrder(i)
-------------------------------------------------------------------------------
LEMMA InitOrder == Init => OrderInv
BY InitIInv, NoneAssumption DEF Init, OrderInv, InOrder, IdleIsIdle, StatusIsRight, Idle

(* A step of request r on invoice i leaves the others as they were; i is   *)
(* in order afterwards if nobody else is at work on it and what r goes on  *)
(* with, or leaves behind, is right.                                       *)
LEMMA GoesOn ==
    ASSUME OrderInv, NEW r \in Requests, NEW i \in Invoices, NEW state, Serve(r, state),
           request[r].invoice \in {i, None},
           state.step = "idle" => state = Idle,
           state = Idle \/ state.invoice = i,
           disturbed \subseteq disturbed', disturbed' \subseteq disturbed \cup {i},
           \A j \in Invoices \ {i} : invoice'[j] = invoice[j] /\ paid'[j] = paid[j],
           i \notin disturbed' =>
               /\ Alone(r, i)
               /\ state = Idle => StatusIsRight(i)'
               /\ state # Idle => Working(state, i)'
    PROVE  IdleIsIdle' /\ \A j \in Invoices \ disturbed' : InOrder(j)'
<1>1. \A p \in Requests : request'[p] = IF p = r THEN state ELSE request[p]
    BY DEF OrderInv, IInv, TypeOK, Serve
<1>2. IdleIsIdle'
    BY <1>1 DEF OrderInv, IdleIsIdle
<1>3. Idle.invoice = None /\ Idle.step = "idle" /\ None # i
    BY NoneAssumption DEF Idle
<1>4. ASSUME NEW j \in Invoices \ disturbed', j # i
      PROVE  InOrder(j)'
    <2>1. InOrder(j) /\ invoice'[j] = invoice[j] /\ paid'[j] = paid[j]
        BY <1>4 DEF OrderInv
    <2>2. StatusIsRight(j)' <=> StatusIsRight(j)
        BY <2>1 DEF StatusIsRight, Due
    <2>3. \A p \in Requests : request[p].invoice = j \/ request'[p].invoice = j => request'[p] = request[p]
        BY <1>1, <1>3, <1>4, NoneAssumption
    <2>4. \A p \in Requests : request'[p].invoice = j <=> request[p].invoice = j
        BY <2>3
    <2>5. \A q : Working(q, j)' <=> Working(q, j)
        BY <2>1, <2>2 DEF Working, Due
    <2> QED
        BY <2>1, <2>2, <2>3, <2>4, <2>5 DEF InOrder, Settled, Alone
<1>5. ASSUME i \notin disturbed'
      PROVE  InOrder(i)'
    <2>1. \A p \in Requests : request'[p].invoice = i => p = r /\ state # Idle
        BY <1>1, <1>3, <1>5 DEF Alone
    <2>2. state # Idle => ~Settled(i)'
        BY <1>1 DEF Settled
    <2>3. Alone(r, i)'
        BY <2>1 DEF Alone
    <2>4. \A p \in Requests : request'[p].invoice = i => Alone(p, i)' /\ Working(request[p], i)'
        BY <1>1, <1>5, <2>1, <2>3 DEF Working
    <2> QED
        BY <1>5, <2>2, <2>4 DEF InOrder
<1> QED
    BY <1>2, <1>4, <1>5

LEMMA IdleFields == Idle.step = "idle" /\ Idle.invoice = None
BY DEF Idle

(* A request that reads.                                                   *)
LEMMA BeginOrder ==
    ASSUME OrderInv, NEW r \in Requests, NEW i \in Invoices, NEW statuses, Reads(r, i, statuses),
           NEW state, Serve(r, state), UNCHANGED <<invoice, paid>>,
           state.step \in {"change", "send", "cancel", "pay"}, state.invoice = i,
           state.step = "send" => invoice[i].status = "draft",
           state.step = "cancel" => invoice[i].status # "paid",
           state.step = "pay" => /\ state.amount > 0
                                 /\ state.status = invoice[i].status /\ state.status # "cancelled"
    PROVE  IdleIsIdle' /\ \A j \in Invoices \ disturbed' : InOrder(j)'
<1>1. request[r].invoice = None /\ state # Idle
    BY IdleFields DEF Reads
<1>2. disturbed \subseteq disturbed' /\ disturbed' \subseteq disturbed \cup {i}
    BY DEF Reads
<1>3. ASSUME i \notin disturbed'
      PROVE  Alone(r, i) /\ Working(state, i)'
    <2>1. Settled(i) /\ StatusIsRight(i)
        BY <1>3 DEF Reads, OrderInv, InOrder
    <2>2. StatusIsRight(i)'
        BY <2>1 DEF StatusIsRight, Due
    <2> QED
        BY <2>1, <2>2 DEF Settled, Alone, Working
<1> QED
    BY <1>1, <1>2, <1>3, GoesOn

LEMMA BeginsOrder ==
    ASSUME OrderInv, NEW r \in Requests, NEW i \in Invoices,
           \/ \E rate \in Rates, discount \in Discounts : BeginChange(r, i, rate, discount)
           \/ BeginSend(r, i) \/ BeginCancel(r, i)
           \/ \E amount \in Amounts : BeginPay(r, i, amount)
    PROVE  IdleIsIdle' /\ \A j \in Invoices \ disturbed' : InOrder(j)'
<1>1. \A step \in Steps : /\ Begin(r, i, step) \in RequestStates
                          /\ Begin(r, i, step).step = step /\ Begin(r, i, step).invoice = i
    BY BeginType
<1>2. {"change", "send", "cancel", "pay"} \subseteq Steps
    BY DEF Steps
<1>3. ASSUME NEW rate \in Rates, NEW discount \in Discounts, BeginChange(r, i, rate, discount)
      PROVE  IdleIsIdle' /\ \A j \in Invoices \ disturbed' : InOrder(j)'
    <2> DEFINE first == Begin(r, i, "change")
               state == [first EXCEPT !.rate = rate, !.discount = discount]
    <2>1. first \in RequestStates /\ first.step = "change" /\ first.invoice = i
        BY <1>1, <1>2
    <2> HIDE DEF first
    <2>2. state.step = "change" /\ state.invoice = i
        BY <2>1 DEF RequestStates
    <2>3. Serve(r, state) /\ UNCHANGED <<invoice, paid>> /\ Reads(r, i, {"draft", "sent", "partial"})
        BY <1>3 DEF BeginChange, first
    <2> HIDE DEF state
    <2> QED
        BY <2>2, <2>3, BeginOrder
<1>4. ASSUME NEW amount \in Amounts, BeginPay(r, i, amount)
      PROVE  IdleIsIdle' /\ \A j \in Invoices \ disturbed' : InOrder(j)'
    <2> DEFINE first == Begin(r, i, "pay")
               state == [first EXCEPT !.amount = amount, !.status = invoice[i].status]
    <2>1. first \in RequestStates /\ first.step = "pay" /\ first.invoice = i
        BY <1>1, <1>2
    <2> HIDE DEF first
    <2>2. state.step = "pay" /\ state.invoice = i /\ state.amount = amount
          /\ state.status = invoice[i].status
        BY <2>1 DEF RequestStates
    <2>3. Serve(r, state) /\ UNCHANGED <<invoice, paid>> /\ Reads(r, i, {"draft", "sent", "partial", "paid"})
        BY <1>4 DEF BeginPay, first
    <2>4. amount > 0 /\ invoice[i].status # "cancelled"
        BY <2>3, MoneyAssumption DEF Reads
    <2> HIDE DEF state
    <2> QED
        BY <2>2, <2>3, <2>4, BeginOrder
<1>5. CASE BeginSend(r, i)
    <2>1. Serve(r, Begin(r, i, "send")) /\ UNCHANGED <<invoice, paid>> /\ Reads(r, i, {"draft"})
        BY <1>5 DEF BeginSend
    <2> QED
        BY <1>1, <1>2, <2>1, BeginOrder DEF Reads
<1>6. CASE BeginCancel(r, i)
    <2>1. Serve(r, Begin(r, i, "cancel")) /\ UNCHANGED <<invoice, paid>>
          /\ Reads(r, i, {"draft", "sent", "partial", "cancelled"})
        BY <1>6 DEF BeginCancel
    <2> QED
        BY <1>1, <1>2, <2>1, BeginOrder DEF Reads
<1> QED
    BY <1>3, <1>4, <1>5, <1>6

(* A request at work.                                                      *)
LEMMA AtWork ==
    ASSUME OrderInv, NEW r \in Requests, request[r].step # "idle"
    PROVE  \E i \in Invoices, q \in RequestStates :
               /\ q = request[r] /\ i = q.invoice
               /\ i \notin disturbed => Alone(r, i) /\ Working(q, i) /\ InOrder(i)
BY DEF OrderInv, IInv, TypeOK, InOrder

LEMMA CreateOrder ==
    ASSUME OrderInv, NEW r \in Requests, NEW i \in Invoices, NEW n \in 0 .. MaxLines,
           NEW price \in Prices, NEW rate \in Rates, NEW discount \in Discounts,
           Create(r, i, n, price, rate, discount)
    PROVE  IdleIsIdle' /\ \A j \in Invoices \ disturbed' : InOrder(j)'
<1> DEFINE state == IF n = 0 THEN Idle
                    ELSE [Begin(r, i, "line") EXCEPT !.left = n, !.amount = price]
<1>1. "line" \in Steps
    BY DEF Steps
<1>2. Begin(r, i, "line") \in RequestStates
      /\ Begin(r, i, "line").step = "line" /\ Begin(r, i, "line").invoice = i
    BY <1>1, BeginType
<1>3. state = Idle \/ (state.step = "line" /\ state.invoice = i)
    BY <1>2 DEF RequestStates
<1>4. Serve(r, state) /\ UNCHANGED <<paid, disturbed>> /\ request[r] = Idle
      /\ invoice[i].status = "absent"
      /\ \A j \in Invoices \ {i} : invoice'[j] = invoice[j]
    BY DEF Create, NoRow, OrderInv, IInv, TypeOK
<1> HIDE DEF state
<1>5. Settled(i)
    <2>1. \A p \in Requests : request[p].step # "idle" => request[p].invoice # i
        BY <1>4 DEF OrderInv, IInv, HasRow
    <2>2. \A p \in Requests : request[p].step = "idle" => request[p].invoice # i
        BY IdleFields, NoneAssumption DEF OrderInv, IdleIsIdle
    <2> QED
        BY <2>1, <2>2 DEF Settled
<1>6. ASSUME i \notin disturbed
      PROVE  StatusIsRight(i)'
    <2>1. StatusIsRight(i)
        BY <1>5, <1>6 DEF OrderInv, InOrder
    <2>2. ~(paid[i] > 0)
        BY <1>4, <2>1 DEF StatusIsRight, Due
    <2> QED
        BY <1>4, <2>2 DEF StatusIsRight
<1>7. Alone(r, i)
    BY <1>5 DEF Settled, Alone
<1>8. ASSUME i \notin disturbed, state # Idle
      PROVE  Working(state, i)'
    BY <1>3, <1>6, <1>8 DEF Working
<1>9. request[r].invoice = None /\ (state.step = "idle" => state = Idle)
    BY <1>3, <1>4, IdleFields
<1> QED
    BY <1>3, <1>4, <1>6, <1>7, <1>8, <1>9, GoesOn

LEMMA InsertLineOrder ==
    ASSUME OrderInv, NEW r \in Requests, InsertLine(r)
    PROVE  IdleIsIdle' /\ \A j \in Invoices \ disturbed' : InOrder(j)'
<1>1. PICK i \in Invoices, q \in RequestStates :
          /\ q = request[r] /\ i = q.invoice
          /\ i \notin disturbed => Alone(r, i) /\ Working(q, i)
    BY AtWork DEF InsertLine
<1> DEFINE state == IF q.left = 1 THEN Idle ELSE [q EXCEPT !.left = @ - 1]
<1>2. q.step = "line" /\ Serve(r, state) /\ UNCHANGED <<invoice, paid, disturbed>>
    BY <1>1 DEF InsertLine
<1>3. state = Idle \/ (state.step = "line" /\ state.invoice = i)
    BY <1>1, <1>2 DEF RequestStates
<1> HIDE DEF state
<1>4. ASSUME i \notin disturbed PROVE StatusIsRight(i)'
    <2>1. StatusIsRight(i)
        BY <1>1, <1>2, <1>4 DEF Working
    <2> QED
        BY <1>2, <2>1 DEF StatusIsRight, Due
<1>5. ASSUME i \notin disturbed, state # Idle PROVE Working(state, i)'
    BY <1>3, <1>4, <1>5 DEF Working
<1>6. state.step = "idle" => state = Idle
    BY <1>3
<1> QED
    BY <1>1, <1>2, <1>3, <1>4, <1>5, <1>6, GoesOn

(* The statements after which a request is done.                           *)
LEMMA EndOrder ==
    ASSUME OrderInv, NEW r \in Requests, request[r].step # "idle", NEW i, i = request[r].invoice,
           Serve(r, Idle), UNCHANGED <<paid, disturbed>>,
           \A j \in Invoices \ {i} : invoice'[j] = invoice[j],
           i \notin disturbed => StatusIsRight(i)'
    PROVE  IdleIsIdle' /\ \A j \in Invoices \ disturbed' : InOrder(j)'
<1>1. i \in Invoices /\ (i \notin disturbed => Alone(r, i))
    BY AtWork
<1> QED
    BY <1>1, GoesOn

LEMMA ChangeOrder ==
    ASSUME OrderInv, NEW r \in Requests, Change(r)
    PROVE  IdleIsIdle' /\ \A j \in Invoices \ disturbed' : InOrder(j)'
<1>1. PICK i \in Invoices, q \in RequestStates :
          /\ q = request[r] /\ i = q.invoice
          /\ i \notin disturbed => Alone(r, i) /\ Working(q, i)
    BY AtWork DEF Change
<1>2. q.step = "change" /\ Serve(r, Idle) /\ UNCHANGED <<paid, disturbed>>
    BY <1>1 DEF Change
<1>3. \A j \in Invoices : /\ invoice'[j].status = invoice[j].status
                          /\ invoice'[j].total = invoice[j].total
                          /\ j # i => invoice'[j] = invoice[j]
    BY <1>1 DEF Change, OrderInv, IInv, TypeOK, Rows
<1>4. ASSUME i \notin disturbed PROVE StatusIsRight(i)'
    <2>1. StatusIsRight(i)
        BY <1>1, <1>2, <1>4 DEF Working
    <2> QED
        BY <1>2, <1>3, <2>1 DEF StatusIsRight, Due
<1> QED
    BY <1>1, <1>2, <1>3, <1>4, EndOrder

(* Send, Cancel and Settle set the status, and a settled one not at all.   *)
LEMMA WriteOrder ==
    ASSUME OrderInv, NEW r \in Requests, Send(r) \/ Cancel(r) \/ Settle(r)
    PROVE  /\ IdleIsIdle' /\ \A j \in Invoices \ disturbed' : InOrder(j)'
           /\ KeepsSettled
<1>1. request[r].step \in {"send", "cancel", "settle"}
    BY DEF Send, Cancel, Settle
<1>2. PICK i \in Invoices, q \in RequestStates :
          /\ q = request[r] /\ i = q.invoice
          /\ i \notin disturbed => Alone(r, i) /\ Working(q, i)
    BY <1>1, AtWork
<1>3. PICK s \in Statuses :
          /\ SetStatus(i, s)
          /\ \/ q.step = "send" /\ s = "sent"
             \/ q.step = "cancel" /\ s = "cancelled"
             \/ q.step = "settle" /\ s = q.status
    BY <1>2 DEF Send, Cancel, Settle, Statuses, RequestStates
<1>4. Serve(r, Idle) /\ UNCHANGED <<paid, disturbed>>
    BY DEF Send, Cancel, Settle
<1>5. \A j \in Invoices : /\ invoice'[j].status = IF j = i THEN s ELSE invoice[j].status
                          /\ invoice'[j].total = invoice[j].total
                          /\ j # i => invoice'[j] = invoice[j]
    BY <1>3 DEF SetStatus, OrderInv, IInv, TypeOK, Rows
<1>6. ASSUME i \notin disturbed PROVE StatusIsRight(i)'
    <2>1. CASE q.step = "send"
        <3>1. StatusIsRight(i) /\ invoice[i].status = "draft"
            BY <1>2, <1>6, <2>1 DEF Working
        <3>2. ~(paid[i] > 0)
            BY <3>1 DEF StatusIsRight, Due
        <3> QED
            BY <1>4, <3>2 DEF StatusIsRight
    <2>2. CASE q.step = "cancel"
        BY <1>3, <1>5, <2>2 DEF StatusIsRight
    <2>3. CASE q.step = "settle"
        <3>1. s = Due(i)
            BY <1>2, <1>3, <1>6, <2>3 DEF Working
        <3>2. Due(i)' = Due(i)
            BY <1>4, <1>5 DEF Due
        <3> QED
            BY <1>5, <3>1, <3>2 DEF StatusIsRight
    <2> QED
        BY <1>3, <2>1, <2>2, <2>3
<1>7. i \notin disturbed /\ invoice[i].status \in {"paid", "cancelled"} => s = invoice[i].status
    BY <1>2, <1>3 DEF Working
<1>8. KeepsSettled
    BY <1>5, <1>7 DEF KeepsSettled
<1> QED
    BY <1>1, <1>2, <1>4, <1>5, <1>6, <1>8, EndOrder

LEMMA PayOrder ==
    ASSUME OrderInv, NEW r \in Requests, InsertPayment(r)
    PROVE  IdleIsIdle' /\ \A j \in Invoices \ disturbed' : InOrder(j)'
<1>1. PICK i \in Invoices, q \in RequestStates :
          /\ q = request[r] /\ i = q.invoice
          /\ i \notin disturbed => Alone(r, i) /\ Working(q, i)
    BY AtWork DEF InsertPayment
<1> DEFINE state == [q EXCEPT !.step = "sum"]
<1>2. q.step = "pay" /\ Serve(r, state) /\ UNCHANGED <<invoice, disturbed>>
    BY <1>1 DEF InsertPayment
<1>3. state.step = "sum" /\ state.invoice = i /\ state.status = q.status
    BY <1>1 DEF RequestStates
<1>4. \A j \in Invoices : paid'[j] = IF j = i THEN paid[i] + q.amount ELSE paid[j]
    BY <1>1 DEF InsertPayment, OrderInv, IInv, TypeOK
<1> HIDE DEF state
<1>5. ASSUME i \notin disturbed PROVE Working(state, i)'
    <2>1. q.amount > 0 /\ q.amount \in Nat /\ paid[i] \in Nat
          /\ q.status = invoice[i].status /\ q.status # "cancelled"
        BY <1>1, <1>2, <1>5 DEF Working, RequestStates, OrderInv, IInv, TypeOK
    <2> QED
        BY <1>2, <1>3, <1>4, <2>1 DEF Working
<1>6. state # Idle
    BY <1>3, IdleFields
<1> QED
    BY <1>1, <1>2, <1>3, <1>4, <1>5, <1>6, GoesOn

LEMMA SumOrder ==
    ASSUME OrderInv, NEW r \in Requests, SumPayments(r)
    PROVE  IdleIsIdle' /\ \A j \in Invoices \ disturbed' : InOrder(j)'
<1>1. PICK i \in Invoices, q \in RequestStates :
          /\ q = request[r] /\ i = q.invoice
          /\ i \notin disturbed => Alone(r, i) /\ Working(q, i)
    BY AtWork DEF SumPayments
<1>2. PICK new : new = StatusFor(i, q.status)
    OBVIOUS
<1> DEFINE state == IF new = q.status THEN Idle ELSE [q EXCEPT !.step = "settle", !.status = new]
<1>3. q.step = "sum" /\ Serve(r, state) /\ UNCHANGED <<invoice, paid, disturbed>>
    BY <1>1, <1>2 DEF SumPayments
<1>4. IF new = q.status THEN state = Idle
      ELSE state.step = "settle" /\ state.invoice = i /\ state.status = new
    BY <1>1 DEF RequestStates
<1> HIDE DEF state
<1>5. ASSUME i \notin disturbed
      PROVE  /\ new = q.status => StatusIsRight(i)'
             /\ new # q.status => Working(state, i)'
    <2>1. paid[i] > 0 /\ q.status = invoice[i].status /\ q.status # "cancelled"
        BY <1>1, <1>3, <1>5 DEF Working
    <2>2. new = Due(i) /\ Due(i)' = Due(i)
        BY <1>2, <1>3, <2>1 DEF StatusFor, Due
    <2>3. invoice[i].status = "paid" => Due(i) = "paid"
        BY DEF OrderInv, IInv, PaidIsCovered, Due
    <2>4. CASE new = q.status
        BY <1>3, <2>1, <2>2, <2>4 DEF StatusIsRight
    <2>5. CASE new # q.status
        <3>1. invoice[i].status \notin {"paid", "cancelled"}
            BY <2>1, <2>2, <2>3, <2>5
        <3> QED
            BY <1>3, <1>4, <2>1, <2>2, <2>5, <3>1 DEF Working
    <2> QED
        BY <2>4, <2>5
<1>6. state.step = "idle" => state = Idle
    BY <1>4
<1>7. (state = Idle => new = q.status) /\ (state # Idle => new # q.status)
    BY <1>4, IdleFields
<1> QED
    BY <1>1, <1>3, <1>4, <1>5, <1>6, <1>7, GoesOn

LEMMA CrashOrder ==
    ASSUME OrderInv, NEW r \in Requests, Crash(r)
    PROVE  IdleIsIdle' /\ \A j \in Invoices \ disturbed' : InOrder(j)'
<1>1. PICK i \in Invoices : i = request[r].invoice
    BY AtWork DEF Crash
<1>2. Serve(r, Idle) /\ UNCHANGED <<invoice, paid>> /\ disturbed' = disturbed \cup {i}
    BY <1>1 DEF Crash
<1> QED
    BY <1>1, <1>2, GoesOn

LEMMA StepOrder == OrderInv /\ [Next]_vars => OrderInv' /\ [KeepsSettled]_vars
<1> SUFFICES ASSUME OrderInv, [Next]_vars PROVE OrderInv' /\ [KeepsSettled]_vars
    OBVIOUS
<1>1. IInv'
    BY StepIInv DEF OrderInv
<1>2. CASE UNCHANGED vars
    BY <1>1, <1>2 DEF vars, OrderInv, IdleIsIdle, InOrder, Settled, Alone, Working, StatusIsRight, Due
<1>3. CASE Next
    <2>1. PICK r \in Requests :
              \/ \E i \in Invoices :
                    \/ \E n \in 0 .. MaxLines, price \in Prices, rate \in Rates, discount \in Discounts :
                           Create(r, i, n, price, rate, discount)
                    \/ \E rate \in Rates, discount \in Discounts : BeginChange(r, i, rate, discount)
                    \/ BeginSend(r, i) \/ BeginCancel(r, i)
                    \/ \E amount \in Amounts : BeginPay(r, i, amount)
              \/ InsertLine(r) \/ Change(r) \/ Send(r) \/ Cancel(r)
              \/ InsertPayment(r) \/ SumPayments(r) \/ Settle(r)
              \/ Crash(r)
        BY <1>3 DEF Next
    <2>2. IdleIsIdle' /\ \A j \in Invoices \ disturbed' : InOrder(j)'
        BY <2>1, CreateOrder, BeginsOrder, InsertLineOrder, ChangeOrder, WriteOrder, PayOrder, SumOrder, CrashOrder
    <2>3. KeepsSettled
        <3>1. CASE Send(r) \/ Cancel(r) \/ Settle(r)
            BY <3>1, WriteOrder
        <3>2. CASE Change(r)
            BY <3>2 DEF Change, KeepsSettled, OrderInv, IInv, TypeOK, Rows
        <3>3. CASE \E i \in Invoices, n \in 0 .. MaxLines, price \in Prices, rate \in Rates, discount \in Discounts :
                      Create(r, i, n, price, rate, discount)
            BY <3>3 DEF Create, NoRow, KeepsSettled, OrderInv, IInv, TypeOK
        <3>4. CASE UNCHANGED invoice
            BY <3>4 DEF KeepsSettled
        <3> QED
            BY <2>1, <3>1, <3>2, <3>3, <3>4
            DEF BeginChange, BeginSend, BeginCancel, BeginPay, InsertLine, InsertPayment, SumPayments, Crash
    <2> QED
        BY <1>1, <2>2, <2>3 DEF OrderInv
<1> QED
    BY <1>2, <1>3

(* The status of an invoice says what its payments come to, and paid and   *)
(* cancelled are final, for every invoice on which requests come one by    *)
(* one and live, whatever befalls the other invoices.                      *)
THEOREM StatusesFollow == Spec => StatusFollows
<1>1. OrderInv => StatusFollowsPayments
    BY DEF OrderInv, InOrder, StatusIsRight, Due, StatusFollowsPayments
<1> QED
    BY <1>1, InitOrder, StepOrder, PTL DEF Spec, StatusFollows
-------------------------------------------------------------------------------
(***************************************************************************)
(* Appointments. A request that has checked knows of no appointment in its *)
(* way, and writes what it has read, until another one surprises it.       *)
(***************************************************************************)

(* No appointment but a itself keeps the row from being appointment a.     *)
Free(a, row) == \A b \in Ids \ {a} : ~Collide(appointment[b], row)

(* What a manager's request has read is still so: the row it changes, and  *)
(* that there is room for it, once it has checked.                         *)
Informed(q) ==
    /\ q.patch # NoPatch /\ Exists(q.id) => Patched(appointment[q.id], q.patch) = q.row
    /\ q.step \in {"insert", "update"} => Free(q.id, q.row)
    /\ q.step = "update" => q.patch # NoPatch

BookingInv ==
    /\ BookingTypeOK
    /\ Callers \subseteq Managers /\ ~raced =>
          /\ NoDoubleBooking
          /\ \A r \in Bookings : booking[r] # NoBooking => Informed(booking[r])
-------------------------------------------------------------------------------
BookingStates ==
    [step : {"check", "insert", "update"}, by : Callers, id : Ids,
     patch : Patches \cup {NoPatch}, row : Slots]

LEMMA SlotTypes ==
    /\ NoSlot.status = "absent" /\ NoBooking.step = "idle" /\ NoSlot \notin Slots
    /\ \A row \in Slots : row.status \in {"on", "over"} /\ row # NoSlot
    /\ \A q \in BookingStates : q # NoBooking /\ q.step # "idle"
BY DEF NoSlot, NoBooking, Slots, BookingStates

LEMMA PatchedType ==
    ASSUME NEW row \in Slots, NEW patch \in Patches \cup {NoPatch}
    PROVE  Patched(row, patch) \in Slots
<1>1. patch \in AllPatches
    BY PatchesAssumption DEF NoPatch, AllPatches
<1> QED
    BY <1>1 DEF Patched, Slots, AllPatches

LEMMA CollideSymmetric ==
    ASSUME NEW v, NEW w, Collide(v, w)
    PROVE  Collide(w, v)
BY DEF Collide, Overlaps

(* Nothing collides with what is not there.                                *)
LEMMA NothingCollides == \A v : ~Collide(NoSlot, v) /\ ~Collide(v, NoSlot)
BY DEF Collide, NoSlot

LEMMA InitBooking == BookingInit => BookingInv
<1> SUFFICES ASSUME BookingInit PROVE BookingInv
    OBVIOUS
<1>1. BookingTypeOK
    BY DEF BookingInit, BookingTypeOK
<1>2. NoDoubleBooking
    BY NothingCollides DEF BookingInit, NoDoubleBooking
<1> QED
    BY <1>1, <1>2 DEF BookingInv, BookingInit

(* A request comes to another state, and the rows stay as they are.        *)
LEMMA Reading ==
    ASSUME BookingInv, NEW r \in Bookings, NEW state \in BookingStates \cup {NoBooking},
           Book(r, state), UNCHANGED <<appointment, raced>>,
           Callers \subseteq Managers /\ ~raced /\ state # NoBooking => Informed(state)
    PROVE  BookingInv'
<1>1. \A p \in Bookings : booking'[p] = IF p = r THEN state ELSE booking[p]
    BY DEF BookingInv, BookingTypeOK, Book
<1>2. BookingTypeOK'
    BY DEF BookingInv, BookingTypeOK, BookingStates, Book
<1>3. NoDoubleBooking' <=> NoDoubleBooking
    BY DEF NoDoubleBooking
<1>4. \A q : Informed(q)' <=> Informed(q)
    BY DEF Informed, Exists, Free
<1> QED
    BY <1>1, <1>2, <1>3, <1>4 DEF BookingInv, Informed, Exists, Free

(* A manager sees every appointment there is.                              *)
LEMMA SeesAll ==
    ASSUME NEW u \in Managers, NEW a
    PROVE  Sees(u, a) <=> Exists(a)
BY DEF Sees

LEMMA BeginBookingInv ==
    ASSUME BookingInv, NEW r \in Bookings, NEW u \in Callers, NEW a \in Ids, NEW row \in Slots,
           BeginBooking(r, u, a, row)
    PROVE  BookingInv'
<1> DEFINE state == [step |-> "check", by |-> u, id |-> a, patch |-> NoPatch, row |-> row]
<1>1. state \in BookingStates
    BY DEF BookingStates
<1>2. Informed(state)
    BY DEF Informed
<1>3. Book(r, state) /\ UNCHANGED <<appointment, raced>>
    BY DEF BeginBooking
<1> QED
    BY <1>1, <1>2, <1>3, Reading

LEMMA BeginRebookingInv ==
    ASSUME BookingInv, NEW r \in Bookings, NEW u \in Callers, NEW a \in Ids, NEW patch \in Patches,
           BeginRebooking(r, u, a, patch)
    PROVE  BookingInv'
<1>1. PICK row : row = Patched(appointment[a], patch)
    OBVIOUS
<1> DEFINE state == [step |-> IF NeedsNoCheck(row, patch) THEN "update" ELSE "check",
                     by |-> u, id |-> a, patch |-> patch, row |-> row]
<1>2. Book(r, state) /\ UNCHANGED <<appointment, raced>> /\ Exists(a) /\ patch # NoPatch
    BY <1>1 DEF BeginRebooking, Sees
<1>3. appointment[a] \in Slots
    BY <1>2 DEF BookingInv, BookingTypeOK, Exists
<1>4. row \in Slots
    BY <1>1, <1>3, PatchedType
<1>5. state \in BookingStates
    BY <1>4 DEF BookingStates
<1>6. ASSUME Callers \subseteq Managers, ~raced
      PROVE  Informed(state)
    <2>1. CASE ~NeedsNoCheck(row, patch)
        BY <1>1, <1>2, <2>1 DEF Informed
    <2>2. CASE row.status = "over"
        BY <1>1, <1>2, <2>2 DEF Informed, Free, Collide
    <2>3. CASE patch = [NoPatch EXCEPT !.case = patch.case]
        <3>1. patch.lawyer = NotSet /\ patch.start = NotSet /\ patch.length = NotSet /\ patch.status = NotSet
            BY <2>3 DEF NoPatch
        <3>2. /\ row.lawyer = appointment[a].lawyer /\ row.start = appointment[a].start
              /\ row.length = appointment[a].length /\ row.status = appointment[a].status
            BY <1>1, <3>1 DEF Patched
        <3>3. \A b \in Ids \ {a} : ~Collide(appointment[b], appointment[a])
            BY <1>6 DEF BookingInv, NoDoubleBooking
        <3>4. Free(a, row)
            BY <3>2, <3>3 DEF Free, Collide, Overlaps
        <3> QED
            BY <1>1, <1>2, <3>4 DEF Informed
    <2> QED
        BY <2>1, <2>2, <2>3 DEF NeedsNoCheck
<1> QED
    BY <1>2, <1>5, <1>6, Reading

LEMMA CheckInv ==
    ASSUME BookingInv, NEW r \in Bookings, Check(r)
    PROVE  BookingInv'
<1>1. booking[r] \in BookingStates
    BY SlotTypes DEF BookingInv, BookingTypeOK, BookingStates, Check
<1>2. PICK q \in BookingStates : q = booking[r]
    BY <1>1
<1> DEFINE step == IF q.patch = NoPatch THEN "insert" ELSE "update"
           state == IF Clashes(q.by, q.id, q.row) THEN NoBooking ELSE Decided(q, step)
<1>3. Book(r, state) /\ UNCHANGED <<appointment, raced>>
    BY <1>2 DEF Check
<1>4. Decided(q, step) \in BookingStates
    BY DEF Decided, BookingStates
<1>5. ASSUME Callers \subseteq Managers, ~raced, ~Clashes(q.by, q.id, q.row)
      PROVE  Informed(Decided(q, step))
    <2>1. q.by \in Managers /\ Informed(q)
        BY <1>2, <1>5, SlotTypes DEF BookingInv, BookingStates
    <2>2. Free(q.id, q.row)
        <3> SUFFICES ASSUME NEW b \in Ids \ {q.id} PROVE ~Collide(appointment[b], q.row)
            BY DEF Free
        <3>1. CASE Exists(b)
            BY <1>5, <2>1, <3>1, SeesAll DEF Clashes
        <3>2. CASE ~Exists(b)
            BY <3>2, NothingCollides DEF Exists
        <3> QED
            BY <3>1, <3>2
    <2> QED
        BY <2>1, <2>2 DEF Informed, Decided
<1>6. state \in BookingStates \cup {NoBooking}
      /\ (Callers \subseteq Managers /\ ~raced /\ state # NoBooking => Informed(state))
    BY <1>4, <1>5
<1> HIDE DEF state
<1> QED
    BY <1>3, <1>6, Reading

(* A request writes its row: it fits, and whoever it does not surprise     *)
(* keeps being informed.                                                   *)
LEMMA Writing ==
    ASSUME BookingInv, NEW r \in Bookings, booking[r].step \in {"insert", "update"},
           NEW row \in Slots, NEW a \in Ids, a = booking[r].id, Book(r, NoBooking),
           appointment' = [appointment EXCEPT ![a] = row],
           Callers \subseteq Managers /\ ~raced => row = booking[r].row,
           raced' = (raced \/ Surprises(r))
    PROVE  BookingInv'
<1>1. \A p \in Bookings : booking'[p] = IF p = r THEN NoBooking ELSE booking[p]
    BY DEF BookingInv, BookingTypeOK, Book
<1>2. \A b \in Ids : appointment'[b] = IF b = a THEN row ELSE appointment[b]
    BY DEF BookingInv, BookingTypeOK
<1>3. BookingTypeOK'
    BY DEF BookingInv, BookingTypeOK, Book
<1>4. ASSUME Callers \subseteq Managers, ~raced'
      PROVE  /\ NoDoubleBooking'
             /\ \A p \in Bookings : booking'[p] # NoBooking => Informed(booking[p])'
    <2>1. NoDoubleBooking /\ Informed(booking[r]) /\ row = booking[r].row
        BY <1>4, SlotTypes DEF BookingInv
    <2>2. Free(a, row)
        BY <2>1 DEF Informed
    <2>3. NoDoubleBooking'
        BY <1>2, <2>1, <2>2, CollideSymmetric DEF NoDoubleBooking, Free
    <2>4. ASSUME NEW p \in Bookings, booking'[p] # NoBooking
          PROVE  Informed(booking[p])'
        <3>1. PICK q \in BookingStates : q = booking[p] /\ q = booking'[p] /\ p # r
            BY <1>1, <2>4 DEF BookingInv, BookingTypeOK, BookingStates
        <3>2. Informed(q) /\ q.id # a /\ q.id \in Ids
              /\ (q.step \in {"insert", "update"} => q.row.lawyer # row.lawyer)
            BY <1>4, <2>1, <2>4, <3>1, SlotTypes DEF BookingInv, Surprises, BookingStates
        <3>3. appointment'[q.id] = appointment[q.id]
            BY <1>2, <3>2
        <3>4. q.step \in {"insert", "update"} => Free(q.id, q.row)'
            BY <1>2, <3>2 DEF Informed, Free, Collide
        <3> QED
            BY <3>1, <3>2, <3>3, <3>4 DEF Informed, Exists
    <2> QED
        BY <2>3, <2>4
<1> QED
    BY <1>3, <1>4 DEF BookingInv

LEMMA InsertInv ==
    ASSUME BookingInv, NEW r \in Bookings, Insert(r)
    PROVE  BookingInv'
<1>1. booking[r] \in BookingStates
    BY SlotTypes DEF BookingInv, BookingTypeOK, BookingStates, Insert
<1>2. booking[r].row \in Slots /\ booking[r].id \in Ids
    BY <1>1 DEF BookingStates
<1> QED
    BY <1>2, Writing DEF Insert

LEMMA UpdateInv ==
    ASSUME BookingInv, NEW r \in Bookings, Update(r)
    PROVE  BookingInv'
<1>1. booking[r] \in BookingStates
    BY SlotTypes DEF BookingInv, BookingTypeOK, BookingStates, Update
<1>2. PICK q \in BookingStates, a \in Ids : q = booking[r] /\ a = q.id
    BY <1>1 DEF BookingStates
<1>3. q.step = "update" /\ Book(r, NoBooking) /\ raced' = (raced \/ Surprises(r))
    BY <1>2 DEF Update
<1>4. CASE Sees(q.by, a)
    <2>1. PICK row : row = Patched(appointment[a], q.patch)
        OBVIOUS
    <2>2. Exists(a) /\ appointment[a] \in Slots
        BY <1>4 DEF Sees, BookingInv, BookingTypeOK, Exists
    <2>3. row \in Slots
        BY <2>1, <2>2, PatchedType DEF BookingStates
    <2>4. appointment' = [appointment EXCEPT ![a] = row]
        BY <1>2, <1>4, <2>1 DEF Update, BookingInv, BookingTypeOK
    <2>5. Callers \subseteq Managers /\ ~raced => row = q.row
        BY <1>2, <1>3, <2>1, <2>2, SlotTypes DEF BookingInv, Informed
    <2> QED
        BY <1>2, <1>3, <2>3, <2>4, <2>5, Writing
<1>5. CASE ~Sees(q.by, a)
    <2>1. UNCHANGED <<appointment, active>>
        BY <1>2, <1>5 DEF Update, Book
    <2>2. \A p \in Bookings : booking'[p] = IF p = r THEN NoBooking ELSE booking[p]
        BY <1>3 DEF BookingInv, BookingTypeOK, Book
    <2>3. BookingTypeOK'
        BY <1>3, <2>1, <2>2 DEF BookingInv, BookingTypeOK, Book
    <2>4. NoDoubleBooking' <=> NoDoubleBooking
        BY <2>1 DEF NoDoubleBooking
    <2>5. \A p \in Bookings : booking'[p] # NoBooking /\ Informed(booking[p]) => Informed(booking[p])'
        BY <2>1, <2>2 DEF Informed, Exists, Free
    <2> QED
        BY <1>3, <2>2, <2>3, <2>4, <2>5 DEF BookingInv
<1> QED
    BY <1>4, <1>5

LEMMA DeleteInv ==
    ASSUME BookingInv, NEW u \in Callers, NEW a \in Ids, Delete(u, a)
    PROVE  BookingInv'
<1>1. \A b \in Ids : appointment'[b] = IF b = a THEN NoSlot ELSE appointment[b]
    BY DEF BookingInv, BookingTypeOK, Delete
<1>2. BookingTypeOK' /\ UNCHANGED <<active, booking, raced>>
    BY DEF BookingInv, BookingTypeOK, Delete
<1>3. NoDoubleBooking => NoDoubleBooking'
    BY <1>1, NothingCollides DEF NoDoubleBooking
<1>4. ASSUME NEW q \in BookingStates, Informed(q)
      PROVE  Informed(q)'
    BY <1>1, <1>4, NothingCollides DEF Informed, Exists, Free, BookingStates
<1>5. \A r \in Bookings : booking[r] \in BookingStates \cup {NoBooking}
    BY DEF BookingInv, BookingTypeOK, BookingStates
<1>6. \A r \in Bookings : booking'[r] # NoBooking /\ Informed(booking[r]) => Informed(booking[r])'
    BY <1>2, <1>4, <1>5 DEF Informed, Exists, Free
<1> QED
    BY <1>2, <1>3, <1>6 DEF BookingInv

LEMMA StepBooking == BookingInv /\ [BookingNext]_bookingVars => BookingInv'
<1> SUFFICES ASSUME BookingInv, [BookingNext]_bookingVars PROVE BookingInv'
    OBVIOUS
<1>1. CASE UNCHANGED bookingVars
    BY <1>1 DEF bookingVars, BookingInv, BookingTypeOK, NoDoubleBooking, Informed, Exists, Free
<1>2. CASE \E u \in Lawyers : SetLawyerStatus(u)
    <2>1. BookingTypeOK' /\ UNCHANGED <<appointment, booking, raced>>
        BY <1>2 DEF SetLawyerStatus, BookingInv, BookingTypeOK, OfficeUsers
    <2> QED
        BY <2>1 DEF BookingInv, NoDoubleBooking, Informed, Exists, Free
<1> QED
    BY <1>1, <1>2, BeginBookingInv, BeginRebookingInv, CheckInv, InsertInv, UpdateInv, DeleteInv DEF BookingNext

(* Appointments and the requests on them keep their types.                 *)
THEOREM BookingTypes == BookingSpec => []BookingTypeOK
<1>1. BookingInv => BookingTypeOK
    BY DEF BookingInv
<1> QED
    BY <1>1, InitBooking, StepBooking, PTL DEF BookingSpec

(* Managers book no lawyer twice, whatever they change, reopen or delete,  *)
(* unless one request writes what another has looked for in vain.          *)
THEOREM LawyersAreNotBookedTwice == BookingSpec => []NoOtherDoubleBooking
<1>1. BookingInv => NoOtherDoubleBooking
    BY DEF BookingInv, NoOtherDoubleBooking
<1> QED
    BY <1>1, InitBooking, StepBooking, PTL DEF BookingSpec
-------------------------------------------------------------------------------
(***************************************************************************)
(* Folders. A forest is what every set of parents covers that holds the    *)
(* root and, with a folder, those below it; each write is shown to keep    *)
(* that by turning a set closed after the write into one closed before it. *)
(***************************************************************************)

(* Sets that hold, with a folder, all that is below it.                    *)
Closed(S) == \A f \in Present : folder[f].parent \in S => f \in S

FilingInv == FilingTypeOK /\ Forest
-------------------------------------------------------------------------------
LEMMA PresentRows ==
    ASSUME FilingTypeOK
    PROVE  /\ Present \subseteq Folders /\ Folders \subseteq Parents /\ Root \in Parents
           /\ \A f \in Present : folder[f] \in FolderRows /\ folder[f].parent \in Parents
BY DEF FilingTypeOK, Present, Parents, FolderRows

(* What is below x is in every closed set that x is in.                    *)
LEMMA BelowIsLeast ==
    ASSUME NEW x, NEW S \in SUBSET Parents, x \in S, Closed(S)
    PROVE  Below(x) \subseteq S
BY DEF Below, Closed

LEMMA BelowIsClosed ==
    ASSUME FilingTypeOK, NEW x
    PROVE  /\ Below(x) \subseteq Parents /\ Closed(Below(x))
           /\ x \in Parents => x \in Below(x)
BY PresentRows DEF Below, Closed

(* A forest is a set of folders in every closed set that the root is in.   *)
LEMMA ForestIsLeast ==
    ASSUME FilingTypeOK
    PROVE  Present \subseteq Below(Root)
           <=> \A S \in SUBSET Parents : Root \in S /\ Closed(S) => Present \subseteq S
BY PresentRows DEF Below, Closed

(* Nothing but x itself is reached from outside of what is below it.       *)
LEMMA EntersAtTop ==
    ASSUME FilingTypeOK, NEW x \in Parents, NEW f \in Present, f \in Below(x), f # x
    PROVE  folder[f].parent \in Below(x)
<1> SUFFICES ASSUME folder[f].parent \notin Below(x) PROVE FALSE
    OBVIOUS
<1> DEFINE S == Below(x) \ {f}
<1>1. S \in SUBSET Parents /\ x \in S
    BY BelowIsClosed
<1>2. Closed(S)
    BY BelowIsClosed DEF Closed
<1>3. Below(x) \subseteq S
    BY <1>1, <1>2, BelowIsLeast
<1> QED
    BY <1>3

LEMMA InitFiling == FilingInit => FilingInv
BY DEF FilingInit, FilingInv, FilingTypeOK, Forest, Present

(* The same of the next state.                                             *)
LEMMA ForestAfter ==
    ASSUME FilingTypeOK',
           \A S \in SUBSET Parents : Root \in S /\ Closed(S)' => Present' \subseteq S
    PROVE  (Present \subseteq Below(Root))'
<1>1. Present' \subseteq Parents
    BY DEF Present, Parents
<1> QED
    BY <1>1 DEF Below, Closed

(* A folder that is new comes below one that is there.                     *)
LEMMA InsertForest ==
    ASSUME FilingTypeOK, FilingTypeOK', Present \subseteq Below(Root),
           NEW f \in Folders, NEW row \in FolderRows, f \notin Present,
           row.parent \in Present \cup {Root}, folder' = [folder EXCEPT ![f] = row]
    PROVE  (Present \subseteq Below(Root))'
<1>1. \A g \in Folders : folder'[g] = IF g = f THEN row ELSE folder[g]
    BY DEF FilingTypeOK
<1>2. ASSUME NEW S \in SUBSET Parents, Root \in S, Closed(S)'
      PROVE  Present' \subseteq S
    <2>1. \A g \in Present : g # f /\ g \in Present' /\ folder'[g] = folder[g]
        BY <1>1 DEF Present
    <2>2. Closed(S)
        BY <1>2, <2>1 DEF Closed
    <2>3. Present \subseteq S
        BY <1>2, <2>2, ForestIsLeast
    <2>4. f \in Present' /\ folder'[f] = row
        BY <1>1, NoFolderAssumption DEF Present
    <2>5. f \in S
        BY <1>2, <2>3, <2>4 DEF Closed
    <2> QED
        BY <1>1, <2>3, <2>5 DEF Present
<1> QED
    BY <1>2, ForestAfter

(* What the cascade leaves hangs on what it leaves.                        *)
LEMMA DeleteForest ==
    ASSUME FilingTypeOK, FilingTypeOK', Present \subseteq Below(Root), NEW x \in Folders,
           folder' = [f \in Folders |-> IF f \in Below(x) THEN NoFolder ELSE folder[f]]
    PROVE  (Present \subseteq Below(Root))'
<1>1. Below(x) \subseteq Parents /\ Closed(Below(x))
    BY BelowIsClosed
<1>2. Present' = Present \ Below(x) /\ \A g \in Present' : folder'[g] = folder[g]
    BY DEF Present
<1>3. ASSUME NEW S \in SUBSET Parents, Root \in S, Closed(S)'
      PROVE  Present' \subseteq S
    <2> DEFINE T == S \cup Below(x)
    <2>1. T \in SUBSET Parents /\ Root \in T
        BY <1>1, <1>3
    <2>2. Closed(T)
        <3> SUFFICES ASSUME NEW f \in Present, folder[f].parent \in T PROVE f \in T
            BY DEF Closed
        <3>1. CASE f \in Below(x)
            BY <3>1
        <3>2. CASE f \notin Below(x)
            BY <1>1, <1>2, <1>3, <3>2 DEF Closed
        <3> QED
            BY <3>1, <3>2
    <2>3. Present \subseteq T
        BY <2>1, <2>2, ForestIsLeast
    <2> QED
        BY <1>2, <2>3
<1> QED
    BY <1>3, ForestAfter

(* A folder that is moved to where it was not above takes all that is      *)
(* below it along.                                                         *)
LEMMA MoveForest ==
    ASSUME FilingTypeOK, FilingTypeOK', Present \subseteq Below(Root),
           NEW x \in Present, NEW row \in FolderRows, row.parent \in Present \cup {Root},
           row.parent \notin Below(x), folder' = [folder EXCEPT ![x] = row]
    PROVE  (Present \subseteq Below(Root))'
<1>1. Below(x) \subseteq Parents /\ Closed(Below(x)) /\ x \in Parents /\ x \in Below(x)
    BY BelowIsClosed, PresentRows
<1>2. /\ Present' = Present
      /\ \A g \in Present : folder'[g] = IF g = x THEN row ELSE folder[g]
    BY NoFolderAssumption DEF FilingTypeOK, Present
<1>3. ASSUME NEW S \in SUBSET Parents, Root \in S, Closed(S)'
      PROVE  Present' \subseteq S
    <2>1. Present \subseteq S \cup Below(x)
        <3> DEFINE T == S \cup Below(x)
        <3>1. T \in SUBSET Parents /\ Root \in T
            BY <1>1, <1>3
        <3>2. Closed(T)
            <4> SUFFICES ASSUME NEW f \in Present, folder[f].parent \in T PROVE f \in T
                BY DEF Closed
            <4>1. CASE f \in Below(x)
                BY <4>1
            <4>2. CASE f \notin Below(x)
                BY <1>1, <1>2, <1>3, <4>2 DEF Closed
            <4> QED
                BY <4>1, <4>2
        <3> QED
            BY <3>1, <3>2, ForestIsLeast
    <2>2. x \in S
        BY <1>2, <1>3, <2>1 DEF Closed
    <2>3. Below(x) \cap Present \subseteq S
        <3> DEFINE T == S \cup (Parents \ Below(x))
        <3>1. T \in SUBSET Parents /\ x \in T
            BY <2>2
        <3>2. Closed(T)
            <4> SUFFICES ASSUME NEW f \in Present, folder[f].parent \in T PROVE f \in T
                BY DEF Closed
            <4>1. CASE f = x \/ f \notin Below(x)
                BY <2>2, <4>1, PresentRows
            <4>2. CASE f # x /\ f \in Below(x)
                <5>1. folder[f].parent \in S
                    BY <1>1, <4>2, EntersAtTop
                <5> QED
                    BY <1>2, <1>3, <4>2, <5>1 DEF Closed
            <4> QED
                BY <4>1, <4>2
        <3>3. Below(x) \subseteq T
            BY <3>1, <3>2, BelowIsLeast
        <3> QED
            BY <3>3
    <2> QED
        BY <1>2, <2>1, <2>3
<1> QED
    BY <1>3, ForestAfter
-------------------------------------------------------------------------------
(* A request comes to another state, and the folders stay as they are.     *)
FilingStates ==
    [step : {"insert"}, row : FolderRows] \cup [step : {"delete"}, id : Folders]
    \cup [step : {"update"}, id : Folders, parent : Parents \cup {Keep}, name : Names \cup {Keep}]

LEMMA FilingStepStates ==
    ASSUME FilingTypeOK, NEW r \in Filings
    PROVE  /\ filing[r].step = "insert" => filing[r].row \in FolderRows
           /\ filing[r].step = "delete" => filing[r].id \in Folders
           /\ filing[r].step = "update" =>
                  /\ filing[r].id \in Folders /\ filing[r].parent \in Parents \cup {Keep}
                  /\ filing[r].name \in Names \cup {Keep}
BY DEF FilingTypeOK, NoFiling

LEMMA BeginFilingInv ==
    ASSUME FilingInv, NEW r \in Filings, NEW state \in FilingStates, BeginFiling(r, state)
    PROVE  FilingInv'
<1>1. FilingTypeOK'
    BY DEF FilingInv, FilingTypeOK, FilingStates, BeginFiling, FileAs
<1>2. Forest'
    BY DEF FilingInv, Forest, BeginFiling, Present, Below
<1> QED
    BY <1>1, <1>2 DEF FilingInv

LEMMA BeginsFiling ==
    ASSUME FilingInv, NEW r \in Filings,
           \/ \E c \in Cases, p \in Parents, n \in Names : BeginCreate(r, c, p, n)
           \/ \E f \in Folders, p \in Parents \cup {Keep}, n \in Names \cup {Keep} : BeginUpdate(r, f, p, n)
           \/ \E f \in Folders : BeginDelete(r, f)
    PROVE  FilingInv'
<1>1. ASSUME NEW c \in Cases, NEW p \in Parents, NEW n \in Names, BeginCreate(r, c, p, n)
      PROVE  FilingInv'
    <2>1. [step |-> "insert", row |-> [case |-> c, parent |-> p, name |-> n]] \in FilingStates
        BY DEF FilingStates, FolderRows
    <2> QED
        BY <1>1, <2>1, BeginFilingInv DEF BeginCreate
<1>2. ASSUME NEW f \in Folders, NEW p \in Parents \cup {Keep}, NEW n \in Names \cup {Keep},
             BeginUpdate(r, f, p, n)
      PROVE  FilingInv'
    <2>1. [step |-> "update", id |-> f, parent |-> p, name |-> n] \in FilingStates
        BY DEF FilingStates
    <2> QED
        BY <1>2, <2>1, BeginFilingInv DEF BeginUpdate
<1>3. ASSUME NEW f \in Folders, BeginDelete(r, f)
      PROVE  FilingInv'
    <2>1. [step |-> "delete", id |-> f] \in FilingStates
        BY DEF FilingStates
    <2> QED
        BY <1>3, <2>1, BeginFilingInv DEF BeginDelete
<1> QED
    BY <1>1, <1>2, <1>3

LEMMA FilingEnds ==
    ASSUME FilingTypeOK, NEW r \in Filings, FileAs(r, NoFiling),
           folder' \in [Folders -> FolderRows \cup {NoFolder}], looped' \in BOOLEAN
    PROVE  FilingTypeOK'
BY DEF FilingTypeOK, FileAs

LEMMA InsertFolderInv ==
    ASSUME FilingInv, NEW r \in Filings, NEW f \in Folders, InsertFolder(r, f)
    PROVE  FilingInv'
<1>1. PICK row \in FolderRows : row = filing[r].row
    BY FilingStepStates DEF FilingInv, InsertFolder
<1>2. f \notin Present /\ FileAs(r, NoFiling) /\ UNCHANGED looped
    BY DEF InsertFolder
<1>3. CASE ParentExists(row) /\ Unique(f, row)
    <2>1. folder' = [folder EXCEPT ![f] = row]
        BY <1>1, <1>3 DEF InsertFolder
    <2>2. FilingTypeOK'
        BY <1>2, <2>1, FilingEnds DEF FilingInv, FilingTypeOK
    <2> QED
        BY <1>2, <1>3, <2>1, <2>2, InsertForest DEF FilingInv, Forest, ParentExists
<1>4. CASE ~(ParentExists(row) /\ Unique(f, row))
    <2>1. UNCHANGED folder
        BY <1>1, <1>4 DEF InsertFolder
    <2>2. FilingTypeOK'
        BY <1>2, <2>1, FilingEnds DEF FilingInv, FilingTypeOK
    <2>3. Forest'
        BY <1>2, <2>1 DEF FilingInv, Forest, Present, Below
    <2> QED
        BY <2>2, <2>3 DEF FilingInv
<1> QED
    BY <1>3, <1>4

LEMMA UpdateFolderInv ==
    ASSUME FilingInv, NEW r \in Filings, UpdateFolder(r)
    PROVE  FilingInv'
<1>1. PICK q : q = filing[r]
    OBVIOUS
<1>2. /\ q.step = "update" /\ FileAs(r, NoFiling)
      /\ folder' = IF Accepted(q) THEN [folder EXCEPT ![q.id] = Updated(q)] ELSE folder
      /\ looped' = (looped \/ (Accepted(q) /\ Updated(q).parent \in Below(q.id)))
    BY <1>1 DEF UpdateFolder
<1>3. /\ q.id \in Folders /\ q.parent \in Parents \cup {Keep}
      /\ q.name \in Names \cup {Keep}
    BY <1>1, <1>2, FilingStepStates DEF FilingInv
<1>4. CASE Accepted(q)
    <2>1. PICK x \in Present : x = q.id
        BY <1>4 DEF Accepted
    <2>2. folder[x] \in FolderRows
        BY PresentRows DEF FilingInv
    <2>3. PICK row : row = Updated(q)
        OBVIOUS
    <2>4. row \in FolderRows
        BY <1>3, <2>1, <2>2, <2>3 DEF Updated, FolderRows
    <2>5. folder' = [folder EXCEPT ![x] = row] /\ row.parent \in Present \cup {Root}
          /\ looped' = (looped \/ row.parent \in Below(x))
        BY <1>2, <1>4, <2>1, <2>3 DEF Accepted, ParentExists
    <2>6. FilingTypeOK'
        BY <1>2, <2>4, <2>5, FilingEnds DEF FilingInv, FilingTypeOK
    <2> QED
        BY <2>4, <2>5, <2>6, MoveForest DEF FilingInv, Forest
<1>5. CASE ~Accepted(q)
    <2>1. UNCHANGED <<folder, looped>>
        BY <1>2, <1>5 DEF FilingInv, FilingTypeOK
    <2>2. FilingTypeOK'
        BY <1>2, <2>1, FilingEnds DEF FilingInv, FilingTypeOK
    <2>3. Forest'
        BY <2>1 DEF FilingInv, Forest, Present, Below
    <2> QED
        BY <2>2, <2>3 DEF FilingInv
<1> QED
    BY <1>4, <1>5

LEMMA DeleteFolderInv ==
    ASSUME FilingInv, NEW r \in Filings, DeleteFolder(r)
    PROVE  FilingInv'
<1>1. PICK x \in Folders : x = filing[r].id
    BY FilingStepStates DEF FilingInv, DeleteFolder
<1>2. folder' = [f \in Folders |-> IF f \in Below(x) THEN NoFolder ELSE folder[f]]
      /\ FileAs(r, NoFiling) /\ UNCHANGED looped
    BY <1>1 DEF DeleteFolder
<1>3. FilingTypeOK'
    BY <1>2, FilingEnds DEF FilingInv, FilingTypeOK
<1> QED
    BY <1>2, <1>3, DeleteForest DEF FilingInv, Forest

LEMMA StepFiling == FilingInv /\ [FilingNext]_filingVars => FilingInv'
<1> SUFFICES ASSUME FilingInv, [FilingNext]_filingVars PROVE FilingInv'
    OBVIOUS
<1>1. CASE UNCHANGED filingVars
    BY <1>1 DEF filingVars, FilingInv, FilingTypeOK, Forest, Present, Below
<1> QED
    BY <1>1, BeginsFiling, InsertFolderInv, UpdateFolderInv, DeleteFolderInv DEF FilingNext

(* Folders and the requests on them keep their types.                      *)
THEOREM FilingTypes == FilingSpec => []FilingTypeOK
<1>1. FilingInv => FilingTypeOK
    BY DEF FilingInv
<1> QED
    BY <1>1, InitFiling, StepFiling, PTL DEF FilingSpec

(* Creating, renaming, moving and deleting folders, interleaved in any     *)
(* way, keep them a forest, unless a folder is moved below itself.         *)
THEOREM FoldersAreForest == FilingSpec => []Forest
<1>1. FilingInv => Forest
    BY DEF FilingInv
<1> QED
    BY <1>1, InitFiling, StepFiling, PTL DEF FilingSpec
-------------------------------------------------------------------------------
(***************************************************************************)
(* Confidential and shared documents. Each of two statements that have     *)
(* passed their triggers knows what the other table was like.              *)
(***************************************************************************)

(* A share that has passed its trigger is of a document that is open, and  *)
(* that no mark is about to close.                                         *)
ShareIsOpen == \A r \in Sharings :
    sharing[r].step = "shared" => /\ sharing[r].share[1] \notin confidential
                                  /\ ~MarkPending(sharing[r].share[1])

(* A mark that has passed its trigger closes what is closed or not shared. *)
MarkIsUnshared == \A r \in Sharings :
    sharing[r].step = "marked" /\ sharing[r].to =>
        sharing[r].doc \in confidential \/ SharesOf(sharing[r].doc) = {}

(* Two UPDATEs of one document wait for one another.                       *)
OneMark == \A p, q \in Sharings :
    sharing[p].step = "marked" /\ sharing[q].step = "marked" /\ sharing[p].doc = sharing[q].doc => p = q

SharingInv ==
    /\ SharingTypeOK /\ OneMark
    /\ ~crossed => ShareIsOpen /\ MarkIsUnshared /\ \A s \in shares : s[1] \notin confidential
-------------------------------------------------------------------------------
ShareStates == [step : {"contact", "share", "shared"}, share : Documents \X Contacts]
MarkStates == [step : {"mark", "marked"}, doc : Documents, to : BOOLEAN]

LEMMA InitSharing == SharingInit => SharingInv
<1> SUFFICES ASSUME SharingInit PROVE SharingInv
    OBVIOUS
<1>1. SharingTypeOK
    BY DEF SharingInit, SharingTypeOK
<1>2. \A r \in Sharings : sharing[r].step = "idle"
    BY DEF SharingInit, NoSharing
<1> QED
    BY <1>1, <1>2 DEF SharingInit, SharingInv, ShareIsOpen, MarkIsUnshared, OneMark

LEMMA SharingStates ==
    ASSUME SharingTypeOK, NEW r \in Sharings
    PROVE  /\ sharing[r].step \in {"contact", "share", "shared"} => sharing[r] \in ShareStates
           /\ sharing[r].step \in {"mark", "marked"} => sharing[r] \in MarkStates
           /\ sharing[r].step \in {"idle", "contact", "share", "shared", "mark", "marked"}
BY DEF SharingTypeOK, ShareStates, MarkStates, NoSharing

(* The request of r is the only one that changes.                          *)
LEMMA OneMoves ==
    ASSUME SharingTypeOK, NEW r \in Sharings, NEW state \in ShareStates \cup MarkStates \cup {NoSharing},
           ShareAs(r, state)
    PROVE  /\ sharing' \in [Sharings -> ShareStates \cup MarkStates \cup {NoSharing}]
           /\ \A p \in Sharings : sharing'[p] = IF p = r THEN state ELSE sharing[p]
BY DEF SharingTypeOK, ShareAs, ShareStates, MarkStates

(* A request that holds no passed statement afterwards and changes no      *)
(* table: nothing is harder than before.                                   *)
LEMMA Withdraws ==
    ASSUME SharingInv, NEW r \in Sharings, NEW state \in ShareStates \cup MarkStates \cup {NoSharing},
           ShareAs(r, state), state.step \notin {"shared", "marked"},
           UNCHANGED <<confidential, shares, inactive, crossed>>
    PROVE  SharingInv'
<1>1. \A p \in Sharings : sharing'[p] = IF p = r THEN state ELSE sharing[p]
    BY OneMoves DEF SharingInv
<1>2. SharingTypeOK'
    BY OneMoves DEF SharingInv, SharingTypeOK, ShareStates, MarkStates
<1>3. OneMark'
    BY <1>1 DEF SharingInv, OneMark
<1>4. ShareIsOpen => ShareIsOpen'
    BY <1>1 DEF ShareIsOpen, MarkPending
<1>5. MarkIsUnshared => MarkIsUnshared'
    BY <1>1 DEF MarkIsUnshared, SharesOf
<1> QED
    BY <1>2, <1>3, <1>4, <1>5 DEF SharingInv

LEMMA GotoIs ==
    ASSUME SharingTypeOK, NEW r \in Sharings, NEW step \in {"idle", "share", "shared", "marked"}, ShareGoto(r, step),
           step \in {"share", "shared"} => sharing[r].step \in {"contact", "share"},
           step = "marked" => sharing[r].step = "mark"
    PROVE  \E state \in ShareStates \cup MarkStates \cup {NoSharing} :
               /\ ShareAs(r, state) /\ state.step = step
               /\ step \in {"share", "shared"} => state.share = sharing[r].share
               /\ step = "marked" => state.doc = sharing[r].doc /\ state.to = sharing[r].to
<1>1. CASE step = "idle"
    BY <1>1 DEF ShareGoto, NoSharing
<1>2. CASE step \in {"share", "shared"}
    <2>1. PICK q \in ShareStates : q = sharing[r]
        BY <1>2, SharingStates
    <2>2. /\ [q EXCEPT !.step = step] \in ShareStates /\ [q EXCEPT !.step = step].step = step
          /\ [q EXCEPT !.step = step].share = q.share
        BY <1>2 DEF ShareStates
    <2> QED
        BY <1>2, <2>1, <2>2 DEF ShareGoto
<1>3. CASE step = "marked"
    <2>1. PICK q \in MarkStates : q = sharing[r]
        BY <1>3, SharingStates
    <2>2. /\ [q EXCEPT !.step = step] \in MarkStates /\ [q EXCEPT !.step = step].step = step
          /\ [q EXCEPT !.step = step].doc = q.doc /\ [q EXCEPT !.step = step].to = q.to
        BY <1>3 DEF MarkStates
    <2> QED
        BY <1>3, <2>1, <2>2 DEF ShareGoto
<1> QED
    BY <1>1, <1>2, <1>3

LEMMA BeginsSharing ==
    ASSUME SharingInv, NEW r \in Sharings,
           \/ \E d \in Documents, c \in Contacts : BeginShare(r, d, c)
           \/ \E d \in Documents, to \in BOOLEAN : BeginMark(r, d, to)
           \/ FindContact(r)
    PROVE  SharingInv'
<1>1. ASSUME NEW d \in Documents, NEW c \in Contacts, BeginShare(r, d, c)
      PROVE  SharingInv'
    <2>1. [step |-> "contact", share |-> <<d, c>>] \in ShareStates
        BY DEF ShareStates
    <2> QED
        BY <1>1, <2>1, Withdraws DEF BeginShare
<1>2. ASSUME NEW d \in Documents, NEW to \in BOOLEAN, BeginMark(r, d, to)
      PROVE  SharingInv'
    <2>1. [step |-> "mark", doc |-> d, to |-> to] \in MarkStates
        BY DEF MarkStates
    <2> QED
        BY <1>2, <2>1, Withdraws DEF BeginMark
<1>3. CASE FindContact(r)
    <2>1. PICK step \in {"idle", "share"} : ShareGoto(r, step)
        BY <1>3 DEF FindContact
    <2>2. sharing[r].step = "contact" /\ UNCHANGED <<confidential, shares, inactive, crossed>>
        BY <1>3 DEF FindContact
    <2>3. PICK state \in ShareStates \cup MarkStates \cup {NoSharing} : ShareAs(r, state) /\ state.step = step
        BY <2>1, <2>2, GotoIs DEF SharingInv
    <2> QED
        BY <2>1, <2>2, <2>3, Withdraws
<1> QED
    BY <1>1, <1>2, <1>3

(* The trigger lets a share of an open document through.                   *)
LEMMA InsertShareInv ==
    ASSUME SharingInv, NEW r \in Sharings, InsertShare(r)
    PROVE  SharingInv'
<1>1. PICK s \in Documents \X Contacts : s = sharing[r].share
    BY SharingStates DEF SharingInv, InsertShare, ShareStates
<1> DEFINE refused == s[1] \in confidential \/ s \in shares
<1>2. /\ sharing[r].step = "share" /\ ShareGoto(r, IF refused THEN "idle" ELSE "shared")
      /\ crossed' = (crossed \/ (~refused /\ MarkPending(s[1])))
      /\ UNCHANGED <<confidential, shares, inactive>>
    BY <1>1 DEF InsertShare
<1>3. CASE refused
    <2>1. PICK state \in ShareStates \cup MarkStates \cup {NoSharing} : ShareAs(r, state) /\ state.step = "idle"
        BY <1>2, <1>3, GotoIs DEF SharingInv
    <2>2. UNCHANGED crossed
        BY <1>2, <1>3 DEF SharingInv, SharingTypeOK
    <2> QED
        BY <1>2, <2>1, <2>2, Withdraws
<1>4. CASE ~refused
    <2>1. PICK state \in ShareStates \cup MarkStates \cup {NoSharing} :
              ShareAs(r, state) /\ state.step = "shared" /\ state.share = s
        BY <1>1, <1>2, <1>4, GotoIs DEF SharingInv
    <2>2. \A p \in Sharings : sharing'[p] = IF p = r THEN state ELSE sharing[p]
        BY <2>1, OneMoves DEF SharingInv
    <2>3. SharingTypeOK'
        BY <1>2, <2>1, OneMoves DEF SharingInv, SharingTypeOK, ShareStates, MarkStates
    <2>4. OneMark'
        BY <2>1, <2>2 DEF SharingInv, OneMark
    <2>5. \A d : MarkPending(d)' <=> MarkPending(d)
        BY <1>2, <2>1, <2>2 DEF MarkPending
    <2>6. ~crossed' => ShareIsOpen'
        BY <1>2, <1>4, <2>1, <2>2, <2>5 DEF SharingInv, ShareIsOpen
    <2>7. MarkIsUnshared => MarkIsUnshared'
        BY <1>2, <2>1, <2>2 DEF MarkIsUnshared, SharesOf
    <2> QED
        BY <1>2, <2>3, <2>4, <2>6, <2>7 DEF SharingInv
<1> QED
    BY <1>3, <1>4

LEMMA CommitShareInv ==
    ASSUME SharingInv, NEW r \in Sharings, CommitShare(r)
    PROVE  SharingInv'
<1>1. PICK s \in Documents \X Contacts : s = sharing[r].share
    BY SharingStates DEF SharingInv, CommitShare, ShareStates
<1>2. /\ sharing[r].step = "shared" /\ shares' = shares \cup {s}
      /\ ShareGoto(r, "idle") /\ UNCHANGED <<confidential, inactive, crossed>>
    BY <1>1 DEF CommitShare
<1>3. PICK state \in ShareStates \cup MarkStates \cup {NoSharing} : ShareAs(r, state) /\ state.step = "idle"
    BY <1>2, GotoIs DEF SharingInv
<1>4. \A p \in Sharings : sharing'[p] = IF p = r THEN state ELSE sharing[p]
    BY <1>3, OneMoves DEF SharingInv
<1>5. SharingTypeOK'
    BY <1>2, <1>3, OneMoves DEF SharingInv, SharingTypeOK, ShareStates, MarkStates
<1>6. OneMark'
    BY <1>3, <1>4 DEF SharingInv, OneMark
<1>7. ASSUME ~crossed
      PROVE  ShareIsOpen' /\ MarkIsUnshared' /\ \A t \in shares' : t[1] \notin confidential'
    <2>1. s[1] \notin confidential /\ ~MarkPending(s[1])
        BY <1>1, <1>2, <1>7 DEF SharingInv, ShareIsOpen
    <2>2. ShareIsOpen'
        BY <1>2, <1>3, <1>4, <1>7 DEF SharingInv, ShareIsOpen, MarkPending
    <2>3. MarkIsUnshared'
        <3> SUFFICES ASSUME NEW p \in Sharings, sharing'[p].step = "marked", sharing'[p].to
                     PROVE  sharing'[p].doc \in confidential' \/ SharesOf(sharing[p].doc)' = {}
            BY DEF MarkIsUnshared
        <3>1. sharing'[p] = sharing[p] /\ sharing[p].doc # s[1]
            BY <1>3, <1>4, <2>1 DEF MarkPending
        <3>2. sharing[p].doc \in confidential \/ SharesOf(sharing[p].doc) = {}
            BY <1>7, <3>1 DEF SharingInv, MarkIsUnshared
        <3> QED
            BY <1>2, <3>1, <3>2 DEF SharesOf
    <2>4. \A t \in shares' : t[1] \notin confidential'
        BY <1>2, <1>7, <2>1 DEF SharingInv
    <2> QED
        BY <2>2, <2>3, <2>4
<1> QED
    BY <1>2, <1>5, <1>6, <1>7 DEF SharingInv

LEMMA UnshareInv ==
    ASSUME SharingInv, NEW d \in Documents, NEW c \in Contacts, Unshare(d, c)
    PROVE  SharingInv'
<1>1. shares' \subseteq shares /\ UNCHANGED <<confidential, inactive, sharing, crossed>>
    BY DEF Unshare
<1>2. SharingTypeOK' /\ OneMark'
    BY <1>1 DEF SharingInv, SharingTypeOK, OneMark
<1>3. ShareIsOpen => ShareIsOpen'
    BY <1>1 DEF ShareIsOpen, MarkPending
<1>4. MarkIsUnshared => MarkIsUnshared'
    BY <1>1 DEF MarkIsUnshared, SharesOf
<1> QED
    BY <1>1, <1>2, <1>3, <1>4 DEF SharingInv

(* The trigger lets a document be closed that has no shares.               *)
LEMMA UpdateDocumentInv ==
    ASSUME SharingInv, NEW r \in Sharings, UpdateDocument(r)
    PROVE  SharingInv'
<1>1. PICK q \in MarkStates : q = sharing[r]
    BY SharingStates DEF SharingInv, UpdateDocument
<1> DEFINE becomes == q.to /\ q.doc \notin confidential
           refused == becomes /\ SharesOf(q.doc) # {}
<1>2. /\ q.step = "mark" /\ ~Locked(q.doc) /\ ShareGoto(r, IF refused THEN "idle" ELSE "marked")
      /\ crossed' = (crossed \/ (becomes /\ ~refused /\ SharePending(q.doc)))
      /\ UNCHANGED <<confidential, shares, inactive>>
    BY <1>1 DEF UpdateDocument
<1>3. CASE refused
    <2>1. PICK state \in ShareStates \cup MarkStates \cup {NoSharing} : ShareAs(r, state) /\ state.step = "idle"
        BY <1>2, <1>3, GotoIs DEF SharingInv
    <2>2. UNCHANGED crossed
        BY <1>2, <1>3 DEF SharingInv, SharingTypeOK
    <2> QED
        BY <1>2, <2>1, <2>2, Withdraws
<1>4. CASE ~refused
    <2>1. PICK state \in ShareStates \cup MarkStates \cup {NoSharing} :
              ShareAs(r, state) /\ state.step = "marked" /\ state.doc = q.doc /\ state.to = q.to
        BY <1>1, <1>2, <1>4, GotoIs DEF SharingInv
    <2>2. \A p \in Sharings : sharing'[p] = IF p = r THEN state ELSE sharing[p]
        BY <2>1, OneMoves DEF SharingInv
    <2>3. SharingTypeOK'
        BY <1>2, <2>1, OneMoves DEF SharingInv, SharingTypeOK, ShareStates, MarkStates
    <2>4. OneMark'
        BY <1>2, <2>1, <2>2 DEF SharingInv, OneMark, Locked
    <2>5. ASSUME ~crossed'
          PROVE  ShareIsOpen'
        <3> SUFFICES ASSUME NEW p \in Sharings, sharing'[p].step = "shared"
                     PROVE  /\ sharing'[p].share[1] \notin confidential'
                            /\ ~MarkPending(sharing[p].share[1])'
            BY DEF ShareIsOpen
        <3>1. sharing'[p] = sharing[p] /\ p # r
            BY <2>1, <2>2
        <3>2. PICK d : d = sharing[p].share[1]
            OBVIOUS
        <3>3. d \notin confidential /\ ~MarkPending(d)
            BY <1>2, <2>5, <3>1, <3>2 DEF SharingInv, ShareIsOpen
        <3>4. q.to => d # q.doc
            BY <1>2, <1>4, <2>5, <3>1, <3>2, <3>3 DEF SharePending
        <3>5. ~MarkPending(d)'
            BY <2>1, <2>2, <3>3, <3>4 DEF MarkPending
        <3> QED
            BY <1>2, <3>1, <3>2, <3>3, <3>5 DEF MarkPending
    <2>6. ~crossed => MarkIsUnshared'
        BY <1>2, <1>4, <2>1, <2>2 DEF SharingInv, MarkIsUnshared, SharesOf
    <2> QED
        BY <1>2, <2>3, <2>4, <2>5, <2>6 DEF SharingInv
<1> QED
    BY <1>3, <1>4

LEMMA CommitMarkInv ==
    ASSUME SharingInv, NEW r \in Sharings, CommitMark(r)
    PROVE  SharingInv'
<1>1. PICK q \in MarkStates : q = sharing[r]
    BY SharingStates DEF SharingInv, CommitMark
<1>2. /\ q.step = "marked"
      /\ confidential' = IF q.to THEN confidential \cup {q.doc} ELSE confidential \ {q.doc}
      /\ ShareGoto(r, "idle") /\ UNCHANGED <<shares, inactive, crossed>>
    BY <1>1 DEF CommitMark
<1>3. PICK state \in ShareStates \cup MarkStates \cup {NoSharing} : ShareAs(r, state) /\ state.step = "idle"
    BY <1>2, GotoIs DEF SharingInv
<1>4. \A p \in Sharings : sharing'[p] = IF p = r THEN state ELSE sharing[p]
    BY <1>3, OneMoves DEF SharingInv
<1>5. SharingTypeOK'
    BY <1>2, <1>3, OneMoves DEF SharingInv, SharingTypeOK, ShareStates, MarkStates
<1>6. OneMark'
    BY <1>3, <1>4 DEF SharingInv, OneMark
<1>7. ASSUME ~crossed
      PROVE  ShareIsOpen' /\ MarkIsUnshared' /\ \A t \in shares' : t[1] \notin confidential'
    <2>1. q.to => q.doc \in confidential \/ SharesOf(q.doc) = {}
        BY <1>1, <1>2, <1>7 DEF SharingInv, MarkIsUnshared
    <2>2. \A p \in Sharings : sharing[p].step = "shared" /\ q.to => sharing[p].share[1] # q.doc
        BY <1>1, <1>2, <1>7 DEF SharingInv, ShareIsOpen, MarkPending
    <2>3. ShareIsOpen'
        BY <1>2, <1>3, <1>4, <1>7, <2>2 DEF SharingInv, ShareIsOpen, MarkPending
    <2>4. \A p \in Sharings : p # r /\ sharing[p].step = "marked" => sharing[p].doc # q.doc
        BY <1>1, <1>2 DEF SharingInv, OneMark
    <2>5. MarkIsUnshared'
        BY <1>2, <1>3, <1>4, <1>7, <2>4 DEF SharingInv, MarkIsUnshared, SharesOf
    <2>6. \A t \in shares' : t[1] \notin confidential'
        BY <1>2, <1>7, <2>1 DEF SharingInv, SharesOf
    <2> QED
        BY <2>3, <2>5, <2>6
<1> QED
    BY <1>2, <1>5, <1>6, <1>7 DEF SharingInv

LEMMA StepSharing == SharingInv /\ [SharingNext]_sharingVars => SharingInv'
<1> SUFFICES ASSUME SharingInv, [SharingNext]_sharingVars PROVE SharingInv'
    OBVIOUS
<1>1. CASE UNCHANGED sharingVars \/ \E c \in Contacts : SetContact(c)
    <2>1. UNCHANGED <<confidential, shares, sharing, crossed>> /\ inactive' \subseteq Contacts
        BY <1>1 DEF sharingVars, SetContact, SharingInv, SharingTypeOK
    <2> QED
        BY <2>1 DEF SharingInv, SharingTypeOK, OneMark, ShareIsOpen, MarkIsUnshared, MarkPending, SharesOf
<1> QED
    BY <1>1, BeginsSharing, InsertShareInv, CommitShareInv, UnshareInv, UpdateDocumentInv, CommitMarkInv
    DEF SharingNext

(* Shares, marks and the requests for them keep their types.               *)
THEOREM SharingTypes == SharingSpec => []SharingTypeOK
<1>1. SharingInv => SharingTypeOK
    BY DEF SharingInv
<1> QED
    BY <1>1, InitSharing, StepSharing, PTL DEF SharingSpec

(* No document is confidential and shared, for any number of documents,    *)
(* contacts and requests, unless a share and a mark of it cross between    *)
(* their triggers and their commits.                                       *)
THEOREM ConfidentialIsNotShared == SharingSpec => []NeverSharedWhileConfidential
<1>1. SharingInv => NeverSharedWhileConfidential
    BY DEF SharingInv, NeverSharedWhileConfidential
<1> QED
    BY <1>1, InitSharing, StepSharing, PTL DEF SharingSpec
===============================================================================
