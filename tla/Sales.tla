-------------------------------- MODULE Sales --------------------------------
(***************************************************************************)
(* One sale from createSale to its last refund, src/services/              *)
(* sale.service.ts: the row of sales, what its refunds returned, its       *)
(* receipt, the customer's balance and the stock of its products, all      *)
(* moved by the transactions of createSale, voidSale, refundSale and       *)
(* setSaleAttribution. Requests read before they open a transaction and    *)
(* carry the version of the sale their client last saw.                    *)
(* How rows of stock are locked is in BranchStock, how a retried request   *)
(* is told from a new one is in Idempotency.                               *)
(***************************************************************************)
EXTENDS NoValue, Sums, FiniteSets

CONSTANTS
  Requests,   \* HTTP requests about the sale
  Asks,       \* what a request may ask for
  Lines,      \* line items of the sale, each of a product of its own
  Quantity,   \* Quantity[l]: units sold on line l
  Amount,     \* Amount[l]: subtotal - discount + tax of line l, in cents
  Opening,    \* Opening[l]: stock of the product of line l before the sale
  Employees   \* whom the sale can be attributed to

Returns == [Lines -> Nat]
Nothing == [l \in Lines |-> 0]

ASSUME SalesAssumption ==
  /\ IsFiniteSet(Lines) /\ Lines # {} /\ IsFiniteSet(Employees)
  /\ Quantity \in [Lines -> Nat \ {0}]
  /\ Amount \in [Lines -> Nat]
  /\ Opening \in [Lines -> Nat]
  /\ None \notin Requests \cup Employees
  /\ \A a \in Asks :
       \/ a.kind = "void" /\ a.allowed \in BOOLEAN /\ a.version \in Nat
       \/ /\ a.kind = "refund" /\ a.version \in Nat
          /\ a.returned \in Returns /\ a.restockable \in Returns
          /\ a.returned # Nothing
          /\ \A l \in Lines : a.restockable[l] <= a.returned[l]
       \/ a.kind = "attribute" /\ a.version \in Nat /\ a.seller \in Employees \cup {None}

Statuses == {"completed", "void", "partially_refunded", "refunded"}
Sale == [status: Statuses, version: Nat, seller: Employees \cup {None}]

ASSUME NoneIsNothing == None \notin Sale /\ None \notin Asks

VARIABLES
  ask,        \* ask[r]: what r asks for while it runs, or None
  pc,         \* pc[r]: how far r is
  day,        \* "same": the business day of the sale; "later"
  sale,       \* the row of sales, or None
  lock,       \* the refund whose SELECT ... FOR UPDATE holds the row, or None
  snap,       \* snap[r]: what a refund read under its lock
  returned,   \* returned[l]: sum of returned_quantity in sale_refund_items
  restocked,  \* restocked[l]: sum of restockable_quantity
  reversed,   \* reversed[e]: what the reversal rows attributed to e take back
  receipt,    \* status of the sale's receipt
  stock,      \* stock[l]: quantity of the product of line l
  spent,      \* total_spent of the customer of the sale
  purchases   \* purchase_count of that customer

vars == <<ask, pc, day, sale, lock, snap, returned, restocked, reversed,
          receipt, stock, spent, purchases>>
books == <<returned, restocked, reversed, receipt, stock, spent, purchases>>

Sellers == Employees \cup {None}
Ended == {"done", "conflict", "rejected", "forbidden", "failed"}

Goto(r, label) == pc' = [pc EXCEPT ![r] = label]
End(r, label)  == Goto(r, label) /\ ask' = [ask EXCEPT ![r] = None]

(* r arrives asking for a, with a version its client has seen.             *)
Arrives(r, a, kind) ==
  /\ pc[r] = "idle"
  /\ sale # None
  /\ a.kind = kind
  /\ a.version <= sale.version

Total == Sum(Amount, Lines)

(* Amount[l] * k / Quantity[l], to a whole cent, ROUND_HALF_UP.            *)
Share(l, k) == (2 * Amount[l] * k + Quantity[l]) \div (2 * Quantity[l])
RefundTotal(a) == Sum([l \in Lines |-> Share(l, a.returned[l])], Lines)

Plus(f, g)  == [l \in Lines |-> f[l] + g[l]]
Minus(f, g) == [l \in Lines |-> f[l] - g[l]]

------------------------------------------------------------------------------
Init ==
  /\ ask = [r \in Requests |-> None]
  /\ pc = [r \in Requests |-> "idle"]
  /\ day = "same"
  /\ sale = None
  /\ lock = None
  /\ snap = [r \in Requests |-> None]
  /\ returned = Nothing
  /\ restocked = Nothing
  /\ reversed = [e \in Sellers |-> 0]
  /\ receipt = "none"
  /\ stock = Opening
  /\ spent = 0
  /\ purchases = 0

(* createSale, one transaction; without the stock there is no sale.        *)
Create(seller) ==
  /\ sale = None
  /\ \A l \in Lines : stock[l] >= Quantity[l]
  /\ stock' = Minus(stock, Quantity)
  /\ sale' = [status |-> "completed", version |-> 0, seller |-> seller]
  /\ receipt' = "issued"
  /\ spent' = spent + Total
  /\ purchases' = purchases + 1
  /\ UNCHANGED <<ask, pc, day, lock, snap, returned, restocked, reversed>>

(* The business day of the sale closes.                                    *)
CloseDay ==
  /\ day = "same"
  /\ sale # None
  /\ day' = "later"
  /\ UNCHANGED <<ask, pc, sale, lock, snap, books>>

(* voidSale reads the sale and the clock, then opens its transaction.      *)
VoidStart(r, a) ==
  /\ Arrives(r, a, "void")
  /\ IF a.allowed /\ day = "same"
       THEN Goto(r, "voiding") /\ ask' = [ask EXCEPT ![r] = a]
       ELSE End(r, IF a.allowed THEN "rejected" ELSE "forbidden")
  /\ UNCHANGED <<day, sale, lock, snap, books>>

Voidable(r) == sale.version = ask[r].version /\ sale.status = "completed"

(* markSaleReceiptVoided: only a receipt still issued moves.               *)
ReceiptVoided == IF receipt = "issued" THEN "voided" ELSE receipt

VoidCommit(r) ==
  /\ pc[r] = "voiding"
  /\ lock = None
  /\ Voidable(r)
  /\ sale' = [sale EXCEPT !.status = "void", !.version = @ + 1]
  /\ receipt' = ReceiptVoided
  /\ spent' = spent - Total
  /\ stock' = Plus(stock, Quantity)
  /\ End(r, "done")
  /\ UNCHANGED <<day, lock, snap, returned, restocked, reversed, purchases>>

VoidRefused(r) ==
  /\ pc[r] = "voiding"
  /\ lock = None
  /\ ~Voidable(r)
  /\ End(r, "conflict")
  /\ UNCHANGED <<day, sale, lock, snap, books>>

(* refundSale reads the sale and the clock, then opens its transaction.    *)
RefundStart(r, a) ==
  /\ Arrives(r, a, "refund")
  /\ IF day # "same"
       THEN Goto(r, "refunding") /\ ask' = [ask EXCEPT ![r] = a]
       ELSE End(r, "rejected")
  /\ UNCHANGED <<day, sale, lock, snap, books>>

(* SELECT ... FOR UPDATE, then the sale and its refund items are read.     *)
RefundLock(r) ==
  /\ pc[r] = "refunding"
  /\ lock = None
  /\ lock' = r
  /\ snap' = [snap EXCEPT ![r] = [sale |-> sale, returned |-> returned]]
  /\ Goto(r, "locked")
  /\ UNCHANGED <<ask, day, sale, books>>

(* Bug: the version alone is compared.                                     *)
RefundableAnyStatus(r, s) == s.version = ask[r].version

Refundable(r, s) ==
  s.version = ask[r].version /\ s.status \in {"completed", "partially_refunded"}

(* Bug: what earlier refunds returned is not subtracted.                   *)
WithinOriginal(r) == \A l \in Lines : ask[r].returned[l] <= Quantity[l]

WithinRemaining(r) ==
  \A l \in Lines : ask[r].returned[l] <= Quantity[l] - snap[r].returned[l]

(* Bugs: a status the enum does not have; a sale taken for refunded when   *)
(* the lines of this request are.                                          *)
StatusMisspelt(r) ==
  IF \A l \in Lines : ask[r].returned[l] + snap[r].returned[l] >= Quantity[l]
    THEN "refunded" ELSE "partial"
StatusOfRequest(r) ==
  IF \A l \in Lines : ask[r].returned[l] > 0 => ask[r].returned[l] + snap[r].returned[l] >= Quantity[l]
    THEN "refunded" ELSE "partially_refunded"

(* Refunded when every line of the sale, touched or not, is all returned.  *)
NewStatus(r) ==
  IF \A l \in Lines : ask[r].returned[l] + snap[r].returned[l] >= Quantity[l]
    THEN "refunded" ELSE "partially_refunded"

(* Bug: a receipt that left "issued" is not moved again.                   *)
ReceiptRefundedOnce(status) == IF receipt = "issued" THEN status ELSE receipt

(* markSaleReceiptRefunded                                                 *)
ReceiptRefunded(status) ==
  IF receipt \in {"issued", "partially_refunded"} THEN status ELSE receipt

(* Bug: written-off units go back on the shelf too.                        *)
ShelvedAll(r) == ask[r].returned

Shelved(r) == ask[r].restockable

(* Bug: the customer is given back the restockable part only.              *)
TakenBackShelved(r) == Sum([l \in Lines |-> Share(l, ask[r].restockable[l])], Lines)

TakenBack(r) == RefundTotal(ask[r])

RefundCommit(r) ==
  /\ pc[r] = "locked"
  /\ Refundable(r, snap[r].sale)
  /\ WithinRemaining(r)
  /\ Refundable(r, sale)
  /\ sale' = [sale EXCEPT !.status = NewStatus(r), !.version = @ + 1]
  /\ returned' = Plus(returned, ask[r].returned)
  /\ restocked' = Plus(restocked, ask[r].restockable)
  /\ stock' = Plus(stock, Shelved(r))
  /\ reversed' = [reversed EXCEPT ![sale.seller] = @ + RefundTotal(ask[r])]
  /\ spent' = spent - TakenBack(r)
  /\ receipt' = ReceiptRefunded(NewStatus(r))
  /\ lock' = None
  /\ snap' = [snap EXCEPT ![r] = None]
  /\ End(r, "done")
  /\ UNCHANGED <<day, purchases>>

RefundRefused(r) ==
  /\ pc[r] = "locked"
  /\ ~(Refundable(r, snap[r].sale) /\ WithinRemaining(r) /\ Refundable(r, sale))
  /\ lock' = None
  /\ snap' = [snap EXCEPT ![r] = None]
  /\ End(r, "conflict")
  /\ UNCHANGED <<day, sale, books>>

Attributed(a) == [sale EXCEPT !.seller = a.seller, !.version = @ + 1]

(* setSaleAttribution, whatever the status; the earlier reversal rows keep *)
(* the salesperson they were written with.                                 *)
AttributeStart(r, a) ==
  /\ Arrives(r, a, "attribute")
  /\ Goto(r, "attributing")
  /\ ask' = [ask EXCEPT ![r] = a]
  /\ UNCHANGED <<day, sale, lock, snap, books>>

AttributeCommit(r) ==
  /\ pc[r] = "attributing"
  /\ lock = None
  /\ sale.version = ask[r].version
  /\ sale' = Attributed(ask[r])
  /\ End(r, "done")
  /\ UNCHANGED <<day, lock, snap, books>>

AttributeRefused(r) ==
  /\ pc[r] = "attributing"
  /\ lock = None
  /\ sale.version # ask[r].version
  /\ End(r, "conflict")
  /\ UNCHANGED <<day, sale, lock, snap, books>>

(* The request throws or the server dies: its transaction rolls back.      *)
Fail(r) ==
  /\ pc[r] \in {"voiding", "refunding", "locked", "attributing"}
  /\ lock' = IF lock = r THEN None ELSE lock
  /\ snap' = [snap EXCEPT ![r] = None]
  /\ End(r, "failed")
  /\ UNCHANGED <<day, sale, books>>

(* Nothing is left to ask of the sale.                                     *)
Quiescent ==
  /\ \A r \in Requests : pc[r] \in Ended
  /\ UNCHANGED vars

Next ==
  \/ \E r \in Requests, a \in Asks : VoidStart(r, a) \/ RefundStart(r, a) \/ AttributeStart(r, a)
  \/ \E r \in Requests :
       \/ VoidCommit(r) \/ VoidRefused(r)
       \/ RefundLock(r) \/ RefundCommit(r) \/ RefundRefused(r)
       \/ AttributeCommit(r) \/ AttributeRefused(r)
       \/ Fail(r)
  \/ \E seller \in Sellers : Create(seller)
  \/ CloseDay
  \/ Quiescent

Spec == Init /\ [][Next]_vars

------------------------------------------------------------------------------
TypeOK ==
  /\ ask \in [Requests -> Asks \cup {None}]
  /\ pc \in [Requests -> {"idle", "voiding", "refunding", "locked", "attributing"} \cup Ended]
  /\ day \in {"same", "later"}
  /\ sale \in Sale \cup {None}
  /\ lock \in Requests \cup {None}
  /\ snap \in [Requests -> [sale: Sale, returned: Returns] \cup {None}]
  /\ returned \in Returns
  /\ restocked \in Returns
  /\ reversed \in [Sellers -> Nat]
  /\ receipt \in {"none", "issued", "voided", "partially_refunded", "refunded"}
  /\ stock \in [Lines -> Nat]
  /\ spent \in Int
  /\ purchases \in Nat

(* No line is ever returned, or put back on the shelf, beyond what was     *)
(* sold of it, by however many refunds, concurrent or not.                 *)
NeverOverReturned ==
  \A l \in Lines : restocked[l] <= returned[l] /\ returned[l] <= Quantity[l]

(* The status says what happened to the units: a void sale was never       *)
(* refunded, "refunded" is every unit of every line and nothing less.      *)
StatusExplained ==
  sale # None =>
    /\ sale.status \in {"completed", "void"} <=> returned = Nothing
    /\ sale.status = "refunded" <=> \A l \in Lines : returned[l] >= Quantity[l]

(* The sale's receipt tells the customer what became of the sale.          *)
ReceiptFollows ==
  /\ sale = None => receipt = "none"
  /\ sale # None =>
       receipt = IF sale.status = "completed" THEN "issued"
                 ELSE IF sale.status = "void" THEN "voided" ELSE sale.status

(* Every unit is accounted for: still sold, or back on the shelf by the    *)
(* void or as restockable, or written off.                                 *)
StockExplained ==
  \A l \in Lines :
    stock[l] = IF sale = None \/ (sale # None /\ sale.status = "void") THEN Opening[l]
               ELSE Opening[l] - Quantity[l] + restocked[l]

(* The customer's balance is the total of the sale, unless it was voided,  *)
(* less what its reversal rows take back.                                  *)
SpentExplained ==
  spent = IF sale = None \/ (sale # None /\ sale.status = "void") THEN 0
          ELSE Total - Sum(reversed, Sellers)

(* Void and refunded are final, whatever races (Final State Protection).   *)
FinalStays ==
  [][sale # None => (sale.status \in {"void", "refunded"} => sale'.status = sale.status)]_vars

(* commission.service.ts:30-31: a sale refunded in full nets to zero.      *)
RefundNetsToZero ==
  (sale # None /\ sale.status = "refunded") => Total = Sum(reversed, Sellers)
==============================================================================
