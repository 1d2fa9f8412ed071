--------------------------- MODULE PurchaseOrders ----------------------------
(***************************************************************************)
(* One purchase order from draft to settlement: purchaseOrder.service.ts,  *)
(* goodsReceivedNote.service.ts, the warehouse stock of its products       *)
(* (lib/warehouseStock.ts, warehouseMovement.service.ts), the documents    *)
(* issued for it (poProformaInvoice and poCommercialInvoice.service.ts)    *)
(* and its settlement payments (purchaseOrderPayment.service.ts).          *)
(* A request is composed with the version the client was shown and makes   *)
(* its checks outside a transaction; the transaction comes later and is    *)
(* one step when a version protects what it read, two steps when only a    *)
(* row lock does (Match, Pay) or nothing at all (Look, Issue). A line      *)
(* orders one product.                                                     *)
(***************************************************************************)
EXTENDS NoValue, Sums, Sequences

CONSTANTS
  Callers,      \* requests in flight at once
  Operations,   \* the operations clients ask for
  Lines,        \* the lines of the order, one product each
  Orders,       \* the quantities an order may ask for: functions on Lines
  Deliveries,   \* the quantities a delivery may bring: functions on Lines
  UnitCost,     \* cost of a unit, ordered and received
  Amounts,      \* amounts a client may type: payments and invoice totals
  MaxRequests   \* bound: requests composed

AllOperations == {"edit", "send", "confirm", "cancel", "receive", "pay",
                  "stock_in", "stock_out", "proforma", "commercial", "supersede"}

ASSUME PurchaseAssumption ==
  /\ Operations \subseteq AllOperations
  /\ IsFiniteSet(Lines) /\ Lines # {}  \* createPurchaseOrderSchema: items.min(1)
  /\ Orders \subseteq [Lines -> Nat \ {0}]
  /\ Deliveries \subseteq [Lines -> Nat]
  /\ UnitCost \in Nat
  /\ Amounts \subseteq Nat \ {0}
  /\ MaxRequests \in Nat

PoStatuses == {"draft", "sent", "confirmed", "partially_received", "received", "cancelled"}

InvoiceKinds == {"proforma", "commercial"}

Document == [total : Nat, status : {"issued", "superseded"}, corrects : Nat]

Payment == [amount : Amounts, invoice : Nat, match : {"matched", "match_failed"},
            overridden : BOOLEAN, expense : Amounts]

VARIABLES
  po,          \* the purchase_orders row with its items
  received,    \* received[l]: sum of the goods_received_items of line l
  shelf,       \* shelf[l]: warehouse_stock of the line's product
  moved,       \* moved[l]: sum of the manual warehouse_movements of that product
  dispatched,  \* a shipment of the order has left the supplier
  docs,        \* docs[k]: the proforma or commercial invoices, in order of creation
  payments,    \* the purchase_order_payments, in order
  req,         \* req[c]: the request caller c has in flight
  asked        \* number of requests composed so far

purchaseVars == <<po, received, shelf, moved, dispatched, docs, payments, req, asked>>
tables == <<po, received, shelf, moved, dispatched, docs, payments>>

Idle == [pc |-> "idle", op |-> None, shown |-> 0, arg |-> None, total |-> 0, found |-> {}]

Units(q) == Sum(q, Lines)

Worth(q) == UnitCost * Units(q)

Paid == Sum([i \in DOMAIN payments |-> payments[i].amount], DOMAIN payments)

Issued(k) == {i \in DOMAIN docs[k] : docs[k][i].status = "issued"}

Newest(S) == CHOOSE i \in S : \A j \in S : j <= i

Receivable == {"sent", "confirmed", "partially_received", "received"}

Payable == Receivable

Invoiceable == Receivable

------------------------------------------------------------------------------
(* createPurchaseOrder: nothing is paid, all of it remains.                *)
Created(q, s, v) ==
  [status |-> s, version |-> v, ordered |-> q, expected |-> Worth(q), paid |-> 0,
   remaining |-> Worth(q), payment |-> "unpaid"]

(* The order has just been created, or created and sent.                   *)
PurchaseInit ==
  /\ \E q \in Orders :
       \/ po = Created(q, "draft", 0) /\ dispatched = FALSE
       \/ po = Created(q, "sent", 1)  /\ dispatched \in BOOLEAN
  /\ received = [l \in Lines |-> 0]
  /\ shelf = [l \in Lines |-> 0]
  /\ moved = [l \in Lines |-> 0]
  /\ docs = [k \in InvoiceKinds |-> <<>>]
  /\ payments = <<>>
  /\ req = [c \in Callers |-> Idle]
  /\ asked = 0

(* The body of a request: what the validation schemas let through.         *)
Bodies(op) ==
  CASE op = "edit"      -> Orders
    [] op = "receive"   -> {d \in Deliveries : Units(d) > 0}
    [] op = "pay"       -> [amount : Amounts, invoice : Amounts, override : BOOLEAN]
    [] op \in {"stock_in", "stock_out"} -> Lines
    [] op = "supersede" -> (DOMAIN docs["commercial"]) \X Amounts
    [] OTHER            -> {None}

(* The checks each service makes before its transaction.                   *)
Admissible(op, arg) ==
  /\ op = "edit"       => po.status = "draft"
  /\ op = "receive"    => po.status \in Receivable
  /\ op = "pay"        => po.status \in Payable /\ arg.amount <= po.remaining
  /\ op = "proforma"   => po.status \in Invoiceable
  /\ op = "commercial" => dispatched
  /\ op = "supersede"  => docs["commercial"][arg[1]].status = "issued"

(* The total an issue is about to use, read outside the transaction.       *)
QuotedTotal(op) ==
  IF op = "commercial" /\ Issued("proforma") # {}
    THEN docs["proforma"][Newest(Issued("proforma"))].total
    ELSE po.expected

Compose(c) ==
  /\ req[c] = Idle
  /\ asked < MaxRequests
  /\ asked' = asked + 1
  /\ \E op \in Operations : \E arg \in Bodies(op) :
       /\ Admissible(op, arg)
       /\ req' = [req EXCEPT ![c] =
                    [pc |-> "read", op |-> op, shown |-> po.version, arg |-> arg,
                     total |-> IF op \in InvoiceKinds THEN QuotedTotal(op) ELSE 0,
                     found |-> {}]]
  /\ UNCHANGED tables

(* A request ends without a trace: a guard that fails, any error, a crash. *)
Abandon(c) ==
  /\ req[c] # Idle
  /\ req' = [req EXCEPT ![c] = Idle]
  /\ UNCHANGED <<tables, asked>>

At(c, op) == req[c].pc = "read" /\ req[c].op = op

Finished(c) == req' = [req EXCEPT ![c] = Idle] /\ UNCHANGED asked

Current(c) == req[c].shown = po.version

(* A payment of c is under way: it holds the row of the order FOR UPDATE.  *)
HoldsOrder(c) == req[c].pc \in {"matched", "overridden"}

(* Bug: the payment reads the order without FOR UPDATE.                    *)
OrderFreeUnlocked(c) == TRUE

(* No one else holds it, so that c may update the row, or insert a row     *)
(* that refers to it, which takes it FOR KEY SHARE.                        *)
OrderFree(c) == \A d \in Callers \ {c} : ~HoldsOrder(d)

------------------------------------------------------------------------------
(* updatePurchaseOrder with new items: the total follows, remaining_amount *)
(* does not.                                                               *)
Edit(c) ==
  /\ At(c, "edit") /\ OrderFree(c)
  /\ Current(c) /\ po.status = "draft"
  /\ po' = [po EXCEPT !.ordered = req[c].arg, !.expected = Worth(req[c].arg),
                      !.version = @ + 1]
  /\ Finished(c)
  /\ UNCHANGED <<received, shelf, moved, dispatched, docs, payments>>

StatusMoves(c, from, to) ==
  /\ OrderFree(c)
  /\ Current(c) /\ po.status \in from
  /\ po' = [po EXCEPT !.status = to, !.version = @ + 1]
  /\ Finished(c)
  /\ UNCHANGED <<received, shelf, moved, dispatched, docs, payments>>

Send(c) == At(c, "send") /\ StatusMoves(c, {"draft"}, "sent")

Confirm(c) == At(c, "confirm") /\ StatusMoves(c, {"sent"}, "confirmed")

Cancel(c) == At(c, "cancel") /\ StatusMoves(c, {"draft", "sent"}, "cancelled")

------------------------------------------------------------------------------
(* Bug: what this delivery brought is compared, not what all of them did.  *)
StatusOfDelivery(sums, delivery) ==
  IF \A l \in Lines : delivery[l] >= po.ordered[l] THEN "received" ELSE "partially_received"

(* The status the sums of the received items give the order.               *)
ReceiptStatus(sums, delivery) ==
  IF \A l \in Lines : sums[l] >= po.ordered[l] THEN "received" ELSE "partially_received"

(* createGoodsReceivedNote. The counter row it takes first keeps two notes *)
(* of a business apart, so the sums it reads are those at the commit.      *)
Receive(c) ==
  /\ At(c, "receive") /\ OrderFree(c)
  /\ Current(c) /\ po.status \in Receivable
  /\ LET d == req[c].arg IN
     /\ received' = [l \in Lines |-> received[l] + d[l]]
     /\ shelf' = [l \in Lines |-> shelf[l] + d[l]]
     /\ po' = [po EXCEPT !.status = ReceiptStatus(received', d), !.version = @ + 1]
  /\ Finished(c)
  /\ UNCHANGED <<moved, dispatched, docs, payments>>

(* Bug: stock out takes what is not there.                                 *)
InStockUnchecked(l) == TRUE

InStock(l) == shelf[l] >= 1

(* recordWarehouseMovement of one unit, called by stockIn and stockOut.    *)
Move(c, l, d) ==
  /\ shelf' = [shelf EXCEPT ![l] = @ + d]
  /\ moved' = [moved EXCEPT ![l] = @ + d]
  /\ Finished(c)
  /\ UNCHANGED <<po, received, dispatched, docs, payments>>

StockIn(c) == At(c, "stock_in") /\ Move(c, req[c].arg, 1)

StockOut(c) == At(c, "stock_out") /\ InStock(req[c].arg) /\ Move(c, req[c].arg, -1)

------------------------------------------------------------------------------
Lesser(a, b) == IF a < b THEN a ELSE b
Distance(a, b) == IF a < b THEN b - a ELSE a - b

(* One percent of what was expected, ten at most.                          *)
Tolerance == Lesser(po.expected \div 100, 10)

(* The invoice of the match: an issued one, whose total then counts, or    *)
(* what the client typed. Issued ones of one moment are in no order.       *)
InvoiceTotals(arg) ==
  IF Issued("commercial") = {} THEN {arg.invoice}
  ELSE {docs["commercial"][i].total : i \in Issued("commercial")}

Matched(invoice) ==
  /\ Distance(invoice, po.expected) <= Tolerance
  /\ Distance(Worth(received), po.expected) <= Tolerance

(* Bug: paid is measured against the value of the order.                   *)
PaymentStatusByValue(paid, rest) ==
  IF paid >= po.expected THEN "paid" ELSE "partially_paid"

PaymentStatus(paid, rest) ==
  IF rest = 0 THEN "paid" ELSE IF paid > 0 THEN "partially_paid" ELSE "unpaid"

(* recordPurchaseOrderPayment takes the order FOR UPDATE, reads again all  *)
(* that the match rests on and decides it, which it may say it overrides.  *)
Match(c) ==
  /\ At(c, "pay") /\ OrderFree(c)
  /\ po.status \in Payable /\ req[c].arg.amount <= po.remaining
  /\ \E invoice \in InvoiceTotals(req[c].arg) :
       /\ Matched(invoice) \/ req[c].arg.override
       /\ req' = [req EXCEPT ![c].pc = IF Matched(invoice) THEN "matched" ELSE "overridden",
                             ![c].total = invoice]
  /\ UNCHANGED <<tables, asked>>

(* The UPDATE on the version the client was shown, the payment, the commit.*)
Pay(c) ==
  /\ HoldsOrder(c)
  /\ Current(c) /\ po.status \in Payable
  /\ LET amount == req[c].arg.amount
         rest == po.remaining - amount
         ok == req[c].pc = "matched"
     IN /\ po' = [po EXCEPT !.paid = @ + amount, !.remaining = rest,
                    !.payment = PaymentStatus(po.paid + amount, rest),
                    !.version = @ + 1]
        /\ payments' = Append(payments,
             [amount |-> amount, invoice |-> req[c].total, overridden |-> ~ok,
              match |-> IF ok THEN "matched" ELSE "match_failed", expense |-> amount])
  /\ Finished(c)
  /\ UNCHANGED <<received, shelf, moved, dispatched, docs>>

------------------------------------------------------------------------------
(* The first statement of issueProformaInvoice and issueCommercialInvoice: *)
(* the documents that are issued as far as this statement can see.         *)
Look(c) ==
  /\ req[c].pc = "read" /\ req[c].op \in InvoiceKinds
  /\ req' = [req EXCEPT ![c].pc = "looked", ![c].found = Issued(req[c].op)]
  /\ UNCHANGED <<tables, asked>>

Supersede(s, S) ==
  [i \in DOMAIN s |-> IF i \in S THEN [s[i] EXCEPT !.status = "superseded"] ELSE s[i]]

(* Their last: those found are superseded, the new one is committed.       *)
Issue(c, k) ==
  /\ req[c].pc = "looked" /\ req[c].op = k
  /\ OrderFree(c)
  /\ docs' = [docs EXCEPT ![k] = Append(Supersede(@, req[c].found),
                [total |-> req[c].total, status |-> "issued", corrects |-> 0])]
  /\ Finished(c)
  /\ UNCHANGED <<po, received, shelf, moved, dispatched, payments>>

IssueProforma(c) == Issue(c, "proforma")

IssueCommercial(c) == Issue(c, "commercial")

(* Bug: the correction trusts the check it made before its transaction.    *)
StillIssuedUnchecked(i) == TRUE

StillIssued(i) == i \in Issued("commercial")

(* supersedeCommercialInvoice: a correction, which bumps the order too.    *)
Correct(c) ==
  /\ At(c, "supersede") /\ OrderFree(c)
  /\ LET i == req[c].arg[1] IN
     /\ StillIssued(i)
     /\ docs' = [docs EXCEPT !["commercial"] = Append(Supersede(@, {i}),
                   [total |-> req[c].arg[2], status |-> "issued", corrects |-> i])]
  /\ po' = [po EXCEPT !.version = @ + 1]
  /\ Finished(c)
  /\ UNCHANGED <<received, shelf, moved, dispatched, payments>>

(* updateShipmentStatus, as far as issueCommercialInvoice looks at it.     *)
Dispatch ==
  /\ ~dispatched
  /\ po.status \in Receivable
  /\ dispatched' = TRUE
  /\ UNCHANGED <<po, received, shelf, moved, docs, payments, req, asked>>

Serve(c) ==
  \/ Compose(c) \/ Abandon(c)
  \/ Edit(c) \/ Send(c) \/ Confirm(c) \/ Cancel(c)
  \/ Receive(c) \/ StockIn(c) \/ StockOut(c) \/ Match(c) \/ Pay(c)
  \/ Look(c) \/ IssueProforma(c) \/ IssueCommercial(c) \/ Correct(c)

(* The bound on requests is reached and none is left.                      *)
PurchaseQuiescent ==
  /\ asked = MaxRequests
  /\ \A c \in Callers : req[c] = Idle
  /\ UNCHANGED purchaseVars

PurchaseNext == (\E c \in Callers : Serve(c)) \/ Dispatch \/ PurchaseQuiescent

PurchaseSpec == PurchaseInit /\ [][PurchaseNext]_purchaseVars

------------------------------------------------------------------------------
(* The tables hold values of their columns; stock is never negative        *)
(* (recordWarehouseMovement's conditional decrement).                      *)
PurchaseTypes ==
  /\ po.status \in PoStatuses
  /\ po.version \in Nat /\ po.ordered \in Orders
  /\ po.expected \in Nat /\ po.paid \in Nat /\ po.remaining \in Nat
  /\ po.payment \in {"unpaid", "partially_paid", "paid"}
  /\ received \in [Lines -> Nat]
  /\ shelf \in [Lines -> Nat]
  /\ moved \in [Lines -> Int]
  /\ docs \in [InvoiceKinds -> Seq(Document)]
  /\ payments \in Seq(Payment)

(* Two payments of one order, or a payment racing a correction: what was   *)
(* paid is the sum of the payments, together with what remains it is the   *)
(* balance the order was opened with, and the payment status says the      *)
(* same, which of an order of free goods is that nothing was paid          *)
(* (recordPurchaseOrderPayment, HNT-PO-001).                               *)
Settled ==
  /\ po.paid = Paid
  /\ po.paid + po.remaining \in {Worth(q) : q \in Orders}
  /\ po.payment = IF payments = <<>> THEN "unpaid"
                  ELSE IF po.remaining = 0 THEN "paid" ELSE "partially_paid"

(* Over any series of deliveries, over-deliveries included, the order is   *)
(* "received" exactly when every line is covered by what all its notes     *)
(* brought, and an order nothing came for, a cancelled one too, says so    *)
(* (createGoodsReceivedNote: status derivation).                           *)
StatusEarned ==
  /\ po.status = "received" <=> \A l \in Lines : received[l] >= po.ordered[l]
  /\ po.status \in {"draft", "sent", "confirmed", "cancelled"} <=> Units(received) = 0

(* No delivery and no manual movement is lost on the way to the shelf.     *)
StockExplained == \A l \in Lines : shelf[l] = received[l] + moved[l] /\ shelf[l] >= 0

(* Two clients correct the same commercial invoice: only one correction    *)
(* stands, so that corrections form a chain, and an order that had an      *)
(* invoice never finds itself without one (supersedeCommercialInvoice).    *)
CorrectedOnce ==
  /\ \A i, j \in DOMAIN docs["commercial"] :
       docs["commercial"][i].corrects = docs["commercial"][j].corrects =>
         i = j \/ docs["commercial"][i].corrects = 0
  /\ \A k \in InvoiceKinds : docs[k] # <<>> => Issued(k) # {}

(* A payment commits against the invoice that is then in force, if there  *)
(* is one, and says "matched" exactly when that invoice and the goods that *)
(* are in by then agree with what was ordered, overridden when not: no     *)
(* issue, correction or delivery comes between the match and the commit    *)
(* (HNT-PO-001: never a stale invoice or received value).                  *)
MatchStandsAtCommit ==
  [][payments' # payments =>
       LET p == payments'[Len(payments')] IN
       /\ \/ Issued("commercial") = {}
          \/ \E i \in Issued("commercial") : docs["commercial"][i].total = p.invoice
       /\ p.match = "matched" <=> /\ Distance(Worth(received), po.expected) <= Tolerance
                                  /\ Distance(p.invoice, po.expected) <= Tolerance
       /\ p.overridden <=> p.match = "match_failed"]_purchaseVars

(* "Only one current (issued) Commercial Invoice per PO"                   *)
(* (poCommercialInvoice.service.ts:94); the same of proformas.             *)
OneIssued == \A k \in InvoiceKinds : \A i, j \in Issued(k) : i = j

(* "nothing owed until a payment is recorded, so remaining_amount starts   *)
(* equal to the full expected value" (purchaseOrder.service.ts:161-163).   *)
RemainingIsOwed == po.remaining = po.expected - po.paid
=============================================================================
