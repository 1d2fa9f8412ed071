-------------------------- MODULE SupplierPayments ---------------------------
(***************************************************************************)
(* What a business pays a supplier ahead of the goods: the payment         *)
(* instructions of the supplier (supplierPaymentInstruction.service.ts),   *)
(* the advance payments of a proforma invoice and their reversals          *)
(* (poAdvancePayment.service.ts), and the payment status derived from all  *)
(* that was paid (lib/invoicePaymentStatus.ts). How the invoices come      *)
(* about and what a settlement does to the order is in PurchaseOrders.tla; *)
(* here they are issued and settled by the environment.                    *)
(***************************************************************************)
EXTENDS NoValue, Sums, Sequences

CONSTANTS
  Callers,       \* requests in flight at once
  Instructions,  \* payment instructions of one supplier
  Amounts,       \* totals and amounts
  TermDays,      \* days of the order's payment terms, None for prepayment
  MaxRequests,   \* bound: requests composed
  MaxDay         \* bound on the calendar

Instruction == [status : {"active", "archived", "revoked"}, is_default : BOOLEAN, version : Nat]

Proforma == [total : Amounts, status : {"issued", "superseded"}]

Advance == [invoice : Nat \ {0}, amount : Amounts, by : Instructions, reversed : Nat, version : Nat]

Invoice == [total : Amounts, issued_at : 0..MaxDay]

ASSUME SupplierAssumption ==
  /\ Amounts \subseteq Nat \ {0}
  /\ TermDays \in Nat \cup {None}
  /\ MaxRequests \in Nat /\ MaxDay \in Nat
  /\ None \notin Instruction \cup Invoice \cup Nat

VARIABLES
  instruction,  \* instruction[i]: its row, None before it is created
  proformas,    \* the proforma invoices of the order, in order
  advances,     \* the po_advance_payments, in order, with their reversals summed
  commercial,   \* the commercial invoice in force, None before there is one
  settled,      \* sum of the settlement payments
  today,
  req,          \* req[c]: the request caller c has in flight
  asked

supplierVars == <<instruction, proformas, advances, commercial, settled, today, req, asked>>
money == <<proformas, advances, commercial, settled, today>>

Idle == [pc |-> "idle", op |-> None, on |-> None, n |-> 0, shown |-> 0, sum |-> 0, via |-> None]

Rows == {i \in Instructions : instruction[i] # None}

SupplierInit ==
  /\ instruction = [i \in Instructions |-> None]
  /\ \E n \in Amounts : proformas = <<[total |-> n, status |-> "issued"]>>
  /\ advances = <<>>
  /\ commercial = None
  /\ settled = 0
  /\ today = 0
  /\ req = [c \in Callers |-> Idle]
  /\ asked = 0

------------------------------------------------------------------------------
(* getEffectiveAdvancePaidSum: payments and their negative reversals.      *)
EffectiveAdvancePaidSum(p) ==
  Sum([i \in DOMAIN advances |-> advances[i].amount - advances[i].reversed],
      {i \in DOMAIN advances : advances[i].invoice = p})

Latest == CHOOSE p \in DOMAIN proformas :
  /\ proformas[p].status = "issued"
  /\ \A q \in DOMAIN proformas : proformas[q].status = "issued" => q <= p

ProformaPaymentStatus(total, paid) ==
  IF paid <= 0 THEN "UNPAID" ELSE IF paid >= total THEN "FULLY_PREPAID" ELSE "PARTIALLY_PAID"

Overdue(inv) == TermDays # None /\ today > inv.issued_at + TermDays

(* Bug: the due date is looked at before the money.                        *)
FullStatusDueFirst(inv, paid) ==
  IF Overdue(inv) THEN "OVERDUE"
  ELSE IF paid >= inv.total THEN "FULLY_PAID"
  ELSE IF paid > 0 THEN "PARTIALLY_PAID" ELSE "UNPAID"

FullStatus(inv, paid) ==
  IF paid >= inv.total THEN "FULLY_PAID"
  ELSE IF Overdue(inv) THEN "OVERDUE"
  ELSE IF paid > 0 THEN "PARTIALLY_PAID" ELSE "UNPAID"

(* getPaymentStatus, of an order that is not cancelled.                    *)
PaymentStatus ==
  LET advance == EffectiveAdvancePaidSum(Latest) IN
  IF commercial = None THEN ProformaPaymentStatus(proformas[Latest].total, advance)
  ELSE FullStatus(commercial, advance + settled)

------------------------------------------------------------------------------
(* A request composed: the version and the rows it was shown, and the      *)
(* checks its service makes before the transaction.                        *)
Ask(c, r) ==
  /\ req[c] = Idle
  /\ asked < MaxRequests
  /\ asked' = asked + 1
  /\ req' = [req EXCEPT ![c] = r]
  /\ UNCHANGED <<instruction, money>>

Asking(op, row, n, shown, via) ==
  [pc |-> "read", op |-> op, on |-> row, n |-> n, shown |-> shown, sum |-> 0, via |-> via]

AskInstruction(c) ==
  \E i \in Rows, op \in {"set_default", "archive", "restore", "revoke"} :
    /\ op \in {"set_default", "archive"} => instruction[i].status = "active"
    /\ op = "restore" => instruction[i].status = "archived"
    /\ op = "revoke"  => instruction[i].status # "revoked"
    /\ Ask(c, Asking(op, i, 0, instruction[i].version, None))

AskAdvance(c) ==
  \E p \in DOMAIN proformas, i \in Rows, n \in Amounts :
    /\ proformas[p].status = "issued"
    /\ instruction[i].status = "active"
    /\ Ask(c, Asking("advance", p, n, 0, i))

AskReversal(c) ==
  \E a \in DOMAIN advances, n \in Amounts :
    Ask(c, Asking("reverse", a, n, advances[a].version, None))

(* A request ends without a trace: a failed guard, any error, a crash.     *)
Abandon(c) ==
  /\ req[c] # Idle
  /\ req' = [req EXCEPT ![c] = Idle]
  /\ UNCHANGED <<instruction, money, asked>>

At(c, pc, op) == req[c].pc = pc /\ req[c].op = op

Finished(c) == req' = [req EXCEPT ![c] = Idle] /\ UNCHANGED asked

------------------------------------------------------------------------------
(* createSupplierPaymentInstruction: the first becomes the default.        *)
CreateInstruction(i) ==
  /\ instruction[i] = None
  /\ instruction' = [instruction EXCEPT ![i] =
       [status |-> "active", is_default |-> Rows = {}, version |-> 0]]
  /\ UNCHANGED <<money, req, asked>>

(* setDefaultSupplierPaymentInstruction: neither the status nor a version  *)
(* is looked at in its transaction.                                        *)
SetDefault(c) ==
  /\ At(c, "read", "set_default")
  /\ instruction' = [i \in Instructions |->
       IF i \in Rows THEN [instruction[i] EXCEPT !.is_default = (i = req[c].on)] ELSE None]
  /\ Finished(c)
  /\ UNCHANGED money

(* Bug: the row is updated by its id alone.                                *)
GuardedById(c, from, row) ==
  /\ instruction' = [instruction EXCEPT ![req[c].on] = [row EXCEPT !.version = @ + 1]]
  /\ Finished(c)
  /\ UNCHANGED money

(* The guarded update of archive, restore and revoke.                      *)
Guarded(c, from, row) ==
  LET i == req[c].on IN
  /\ instruction[i].version = req[c].shown
  /\ instruction[i].status \in from
  /\ instruction' = [instruction EXCEPT ![i] = [row EXCEPT !.version = @ + 1]]
  /\ Finished(c)
  /\ UNCHANGED money

Archive(c) ==
  /\ At(c, "read", "archive")
  /\ Guarded(c, {"active"}, [instruction[req[c].on] EXCEPT !.status = "archived"])

Restore(c) ==
  /\ At(c, "read", "restore")
  /\ Guarded(c, {"archived"}, [instruction[req[c].on] EXCEPT !.status = "active"])

(* In one statement, so that no row is revoked and still the default.      *)
RevokedRow(row) == [row EXCEPT !.status = "revoked", !.is_default = FALSE]

Revoke(c) ==
  /\ At(c, "read", "revoke")
  /\ Guarded(c, {"active", "archived"}, RevokedRow(instruction[req[c].on]))

------------------------------------------------------------------------------
Holds(c, pc, op, row) == At(c, pc, op) /\ req[c].on = row

(* Bug: the sum is read without a lock on the invoice.                     *)
InvoiceFreeUnlocked(p) == TRUE

(* SELECT ... FOR UPDATE of the proforma invoice waits for this.           *)
InvoiceFree(p) == ~\E c \in Callers : Holds(c, "locked", "advance", p)

(* recordAdvancePayment up to the sum of what was paid so far.             *)
LockInvoice(c) ==
  /\ At(c, "read", "advance")
  /\ InvoiceFree(req[c].on)
  /\ req' = [req EXCEPT ![c].pc = "locked", ![c].sum = EffectiveAdvancePaidSum(req[c].on)]
  /\ UNCHANGED <<instruction, money, asked>>

(* ... and from there to its commit. No Expense is created.                *)
RecordAdvance(c) ==
  /\ At(c, "locked", "advance")
  /\ req[c].sum + req[c].n <= proformas[req[c].on].total
  /\ advances' = Append(advances, [invoice |-> req[c].on, amount |-> req[c].n,
                                   by |-> req[c].via, reversed |-> 0, version |-> 0])
  /\ Finished(c)
  /\ UNCHANGED <<instruction, proformas, commercial, settled, today>>

(* reverseAdvancePayment: the update of the version takes the row lock.    *)
BumpAdvance(c) ==
  /\ At(c, "read", "reverse")
  /\ ~\E d \in Callers : Holds(d, "locked", "reverse", req[c].on)
  /\ advances[req[c].on].version = req[c].shown
  /\ req' = [req EXCEPT ![c].pc = "locked"]
  /\ UNCHANGED <<instruction, money, asked>>

Reversible(a) == advances[a].amount - advances[a].reversed

RecordReversal(c) ==
  /\ At(c, "locked", "reverse")
  /\ req[c].n <= Reversible(req[c].on)
  /\ advances' = [advances EXCEPT ![req[c].on].reversed = @ + req[c].n,
                                  ![req[c].on].version = @ + 1]
  /\ Finished(c)
  /\ UNCHANGED <<instruction, proformas, commercial, settled, today>>

------------------------------------------------------------------------------
(* The environment: a new proforma supersedes the one before (its update   *)
(* waits for the row lock), the commercial invoice takes over its total, a *)
(* settlement payment is recorded, a day passes.                           *)
IssueProforma ==
  /\ Len(proformas) < 2
  /\ InvoiceFree(1)
  /\ \E n \in Amounts :
       proformas' = Append([p \in DOMAIN proformas |->
                              [proformas[p] EXCEPT !.status = "superseded"]],
                           [total |-> n, status |-> "issued"])
  /\ UNCHANGED <<instruction, advances, commercial, settled, today, req, asked>>

IssueCommercial ==
  /\ commercial = None
  /\ commercial' = [total |-> proformas[Latest].total, issued_at |-> today]
  /\ UNCHANGED <<instruction, proformas, advances, settled, today, req, asked>>

Settle ==
  /\ settled = 0
  /\ settled' = 1
  /\ UNCHANGED <<instruction, proformas, advances, commercial, today, req, asked>>

NextDay ==
  /\ today < MaxDay
  /\ today' = today + 1
  /\ UNCHANGED <<instruction, proformas, advances, commercial, settled, req, asked>>

Serve(c) ==
  \/ AskInstruction(c) \/ AskAdvance(c) \/ AskReversal(c) \/ Abandon(c)
  \/ SetDefault(c) \/ Archive(c) \/ Restore(c) \/ Revoke(c)
  \/ LockInvoice(c) \/ RecordAdvance(c) \/ BumpAdvance(c) \/ RecordReversal(c)

(* Nothing is in flight.                                                   *)
SupplierQuiescent ==
  /\ \A c \in Callers : req[c] = Idle
  /\ UNCHANGED supplierVars

SupplierNext ==
  \/ \E c \in Callers : Serve(c)
  \/ \E i \in Instructions : CreateInstruction(i)
  \/ IssueProforma \/ IssueCommercial \/ Settle \/ NextDay \/ SupplierQuiescent

SupplierSpec == SupplierInit /\ [][SupplierNext]_supplierVars

------------------------------------------------------------------------------
(* Every table holds rows of its shape.                                    *)
SupplierTypes ==
  /\ instruction \in [Instructions -> Instruction \cup {None}]
  /\ proformas \in Seq(Proforma)
  /\ advances \in Seq(Advance)
  /\ commercial \in Invoice \cup {None}
  /\ settled \in Nat /\ today \in 0..MaxDay

(* Whatever is recorded and reversed at once: an invoice is never paid     *)
(* ahead beyond its total (HNT2-PO-001), and no payment is taken back for  *)
(* more than it was (HNT2-PO-002).                                         *)
WithinInvoice ==
  /\ \A p \in DOMAIN proformas : EffectiveAdvancePaidSum(p) \in 0..proformas[p].total
  /\ \A a \in DOMAIN advances : advances[a].reversed <= advances[a].amount

(* "a revoked instruction can NEVER be restored", by a stale request       *)
(* either (restoreSupplierPaymentInstruction).                             *)
RevokedStays ==
  [][\A i \in Rows : instruction[i].status = "revoked" => instruction'[i].status = "revoked"]_supplierVars

(* What the request of a caller carries.                                   *)
Request == [pc : {"idle", "read", "locked"},
            op : {None, "set_default", "archive", "restore", "revoke", "advance", "reverse"},
            on : {None} \cup Instructions \cup Nat, n : Nat, shown : Nat, sum : Int,
            via : {None} \cup Instructions]

Carries(c) ==
  /\ req[c].op = "advance" => /\ req[c].on \in DOMAIN proformas
                              /\ req[c].n \in Amounts /\ req[c].via \in Instructions
  /\ req[c].op = "reverse" => req[c].on \in DOMAIN advances
  /\ req[c].op \in {"set_default", "archive", "restore", "revoke"} => req[c].on \in Rows

(* What WithinInvoice rests on, together inductive: the sum a request read *)
(* under the lock of an invoice is never less than what was paid by now,   *)
(* since no other request records a payment and a reversal only lowers it. *)
SupplierInvariant ==
  /\ SupplierTypes
  /\ req \in [Callers -> Request]
  /\ proformas # <<>> /\ proformas[Len(proformas)].status = "issued"
  /\ \A a \in DOMAIN advances : advances[a].invoice \in DOMAIN proformas
  /\ \A c \in Callers : req[c].pc # "idle" => Carries(c)
  /\ \A c \in Callers : At(c, "locked", "advance") =>
       EffectiveAdvancePaidSum(req[c].on) <= req[c].sum
  /\ \A c, d \in Callers :
       At(c, "locked", "advance") /\ At(d, "locked", "advance") /\ req[c].on = req[d].on => c = d
  /\ WithinInvoice

(* An order reported as paid in full stays so as days pass and payments    *)
(* come in: only a reversal or another invoice may change it               *)
(* (computeFullPaymentStatus).                                             *)
PaidStaysPaid ==
  [][/\ PaymentStatus = "FULLY_PAID"
     /\ commercial' = commercial /\ proformas' = proformas
     /\ \A a \in DOMAIN advances : advances'[a].reversed = advances[a].reversed
     => PaymentStatus' = "FULLY_PAID"]_supplierVars

(* "there is no window where the row is revoked but still marked default"  *)
(* (supplierPaymentInstruction.service.ts:328-329).                        *)
RevokedNeverDefault ==
  \A i \in Rows : instruction[i].status = "revoked" => ~instruction[i].is_default
=============================================================================
