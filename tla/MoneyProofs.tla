----------------------------- MODULE MoneyProofs -----------------------------
(***************************************************************************)
(* Proofs about Sales, for any requests, lines, quantities and amounts, and*)
(* about SupplierPayments, for any requests, instructions, amounts and     *)
(* terms. The two share no state; both add up money (SumTheorems).         *)
(*                                                                         *)
(* What makes a refund right is checked on what it read under its lock;    *)
(* the invariant says that the row and its refund items are still those,   *)
(* because every other commit waits for the lock.                          *)
(***************************************************************************)
EXTENDS Sales, SupplierPayments, SumTheorems

Running == {"voiding", "refunding", "locked", "attributing"}

RowsOK ==
  /\ ask \in [Requests -> Asks \cup {None}]
  /\ pc \in [Requests -> {"idle", "voiding", "refunding", "locked", "attributing"} \cup Ended]
  /\ sale \in Sale \cup {None}
  /\ snap \in [Requests -> [sale: Sale, returned: Returns] \cup {None}]
  /\ returned \in Returns
  /\ restocked \in Returns

(* The holder of the lock is the refund in its transaction, and the sale   *)
(* and its refund items are as it read them.                               *)
LockHeld ==
  \A r \in Requests :
    /\ pc[r] = "locked" <=> lock = r
    /\ pc[r] = "locked" => snap[r] = [sale |-> sale, returned |-> returned]

(* A request in flight found the sale and asks for what it set out to do.  *)
Asked ==
  \A r \in Requests :
    /\ pc[r] \in Running => sale # None /\ ask[r] \in Asks
    /\ pc[r] \in {"refunding", "locked"} => ask[r].kind = "refund"
    /\ pc[r] = "attributing" => ask[r].kind = "attribute"

(* Before the sale there is nothing to return; it took stock that was there.*)
Sold ==
  /\ sale = None => returned = Nothing /\ restocked = Nothing
  /\ sale # None => \A l \in Lines : Quantity[l] <= Opening[l]

SalesInvariant ==
  /\ RowsOK
  /\ lock \in Requests \cup {None}
  /\ LockHeld
  /\ Asked
  /\ Sold
  /\ NeverOverReturned
  /\ StatusExplained
  /\ ReceiptFollows
  /\ StockExplained

(* What SalesAssumption says of an ask, by its kind.                       *)
LEMMA RefundAsked ==
  ASSUME NEW a \in Asks, a.kind = "refund"
  PROVE  /\ a.returned \in Returns /\ a.restockable \in Returns
         /\ a.returned # Nothing
         /\ \A l \in Lines : a.restockable[l] <= a.returned[l]
BY SalesAssumption

(* Who attributes a sale names a seller.                                   *)
LEMMA AttributionAsked ==
  ASSUME NEW a \in Asks, a.kind = "attribute"
  PROVE  a.seller \in Sellers
BY SalesAssumption DEF Sellers

(* Sums of quantities by line are quantities by line.                      *)
LEMMA PlusIsReturns ==
  ASSUME NEW f \in Returns, NEW g \in Returns
  PROVE  /\ Plus(f, g) \in Returns
         /\ \A l \in Lines : Plus(f, g)[l] = f[l] + g[l] /\ f[l] \in Nat /\ g[l] \in Nat
BY DEF Plus, Returns

(* Nothing is returned when no line is.                                    *)
LEMMA NothingReturned ==
  ASSUME NEW f \in Returns
  PROVE  f = Nothing <=> \A l \in Lines : f[l] = 0
BY DEF Returns, Nothing
------------------------------------------------------------------------------
(* The invariant holds before a sale is made.                              *)
LEMMA InvariantInit == Init => SalesInvariant
<1> SUFFICES ASSUME Init PROVE SalesInvariant
  OBVIOUS
<1> USE SalesAssumption, NoneIsNothing DEF Init
<1>1. RowsOK
  BY DEF RowsOK, Returns, Nothing
<1>2. LockHeld /\ Asked /\ Sold
  BY DEF LockHeld, Asked, Sold, Running
<1>3. NeverOverReturned /\ StatusExplained /\ ReceiptFollows /\ StockExplained
  BY DEF NeverOverReturned, StatusExplained, ReceiptFollows, StockExplained, Nothing
<1> QED BY <1>1, <1>2, <1>3 DEF SalesInvariant

(* The books and the sale stay: only what r knows and asks changes.        *)
LEMMA InvariantQuiet ==
  ASSUME SalesInvariant, UNCHANGED <<sale, books>>,
         ask' \in [Requests -> Asks \cup {None}],
         pc' \in [Requests -> {"idle"} \cup Running \cup Ended],
         snap' \in [Requests -> [sale: Sale, returned: Returns] \cup {None}],
         lock' \in Requests \cup {None},
         LockHeld', Asked'
  PROVE  SalesInvariant'
<1>1. RowsOK' /\ Sold'
  BY DEF SalesInvariant, RowsOK, Sold, books, Running
<1>2. NeverOverReturned' /\ StatusExplained' /\ ReceiptFollows' /\ StockExplained'
  BY DEF SalesInvariant, NeverOverReturned, StatusExplained, ReceiptFollows, StockExplained, books
<1> QED BY <1>1, <1>2 DEF SalesInvariant

(* A request that starts, or that ends without having held the lock.       *)
LEMMA InvariantWithoutLock ==
  ASSUME SalesInvariant, UNCHANGED <<day, sale, lock, snap, books>>,
         NEW r \in Requests, pc[r] # "locked",
         NEW label \in {"voiding", "refunding", "attributing"} \cup Ended,
         NEW a \in Asks \cup {None},
         Goto(r, label), ask' = [ask EXCEPT ![r] = a],
         label \notin Ended =>
           /\ sale # None /\ a \in Asks
           /\ label = "refunding" => a.kind = "refund"
           /\ label = "attributing" => a.kind = "attribute"
  PROVE  SalesInvariant'
<1>1. RowsOK /\ LockHeld /\ Asked /\ lock \in Requests \cup {None}
  BY DEF SalesInvariant
<1>2. label # "locked" /\ label \in {"idle"} \cup Running \cup Ended
  BY DEF Ended, Running
<1>3. /\ pc' \in [Requests -> {"idle"} \cup Running \cup Ended]
      /\ ask' \in [Requests -> Asks \cup {None}]
      /\ snap' \in [Requests -> [sale: Sale, returned: Returns] \cup {None}]
      /\ \A x \in Requests : /\ pc'[x] = IF x = r THEN label ELSE pc[x]
                             /\ ask'[x] = IF x = r THEN a ELSE ask[x]
  BY <1>1, <1>2 DEF RowsOK, Goto, Running
<1>4. LockHeld'
  BY <1>1, <1>2, <1>3 DEF LockHeld, books
<1>5. Asked'
  BY <1>1, <1>2, <1>3 DEF Asked, Running, Ended
<1> QED BY <1>1, <1>3, <1>4, <1>5, InvariantQuiet

(* Every request starts and ends, and whoever held the lock gives it back. *)
LEMMA InvariantEnd ==
  ASSUME SalesInvariant, UNCHANGED <<day, sale, books>>,
         NEW r \in Requests, pc[r] \in Running, NEW label \in Ended, End(r, label),
         lock' = (IF lock = r THEN None ELSE lock),
         snap' = [snap EXCEPT ![r] = None]
  PROVE  SalesInvariant'
<1>1. RowsOK /\ LockHeld /\ Asked /\ lock \in Requests \cup {None}
  BY DEF SalesInvariant
<1>2. label # "locked" /\ label \notin Running /\ label \in {"idle"} \cup Running \cup Ended
  BY DEF Ended, Running
<1>3. /\ pc' \in [Requests -> {"idle"} \cup Running \cup Ended]
      /\ ask' \in [Requests -> Asks \cup {None}]
      /\ snap' \in [Requests -> [sale: Sale, returned: Returns] \cup {None}]
      /\ \A x \in Requests : /\ pc'[x] = IF x = r THEN label ELSE pc[x]
                             /\ ask'[x] = IF x = r THEN None ELSE ask[x]
                             /\ snap'[x] = IF x = r THEN None ELSE snap[x]
  BY <1>1, <1>2 DEF RowsOK, Goto, End, Running
<1>4. None \notin Requests
  BY SalesAssumption
<1>5. LockHeld'
  BY <1>1, <1>2, <1>3, <1>4 DEF LockHeld, books
<1>6. Asked'
  BY <1>1, <1>2, <1>3 DEF Asked, Running
<1> QED BY <1>1, <1>3, <1>5, <1>6, InvariantQuiet
------------------------------------------------------------------------------
(* A sale is made with its lines, its stock and its receipt.               *)
LEMMA InvariantCreate ==
  ASSUME SalesInvariant, NEW seller \in Sellers, Create(seller)
  PROVE  SalesInvariant'
<1> USE SalesAssumption, NoneIsNothing DEF SalesInvariant, Create
<1>1. /\ sale = None /\ sale' = [status |-> "completed", version |-> 0, seller |-> seller]
      /\ sale' \in Sale /\ sale' # None
  BY DEF Sale, Statuses, Sellers
<1>2. returned = Nothing /\ restocked = Nothing /\ UNCHANGED <<ask, pc, lock, snap, returned, restocked>>
  BY <1>1 DEF Sold
<1>3. RowsOK'
  BY <1>1, <1>2 DEF RowsOK
<1>4. \A r \in Requests : pc[r] \notin Running
  BY <1>1 DEF Asked
<1>5. LockHeld' /\ Asked'
  BY <1>2, <1>4 DEF LockHeld, Asked, Running
<1>6. \A l \in Lines : stock[l] = Opening[l] /\ stock'[l] = Opening[l] - Quantity[l] /\ Quantity[l] <= Opening[l]
  BY <1>1 DEF StockExplained, Minus
<1>7. Sold'
  BY <1>1, <1>6 DEF Sold
<1>8. \A l \in Lines : returned[l] = 0 /\ restocked[l] = 0
  BY <1>2 DEF Nothing
<1>9. NeverOverReturned' /\ StatusExplained'
  BY <1>1, <1>2, <1>8 DEF NeverOverReturned, StatusExplained
<1>10. ReceiptFollows' /\ StockExplained'
  BY <1>1, <1>2, <1>6, <1>8 DEF ReceiptFollows, StockExplained
<1> QED BY <1>3, <1>5, <1>7, <1>9, <1>10

(* A commit without the lock ends r; nobody holds a snapshot.              *)
LEMMA NoSnapshot ==
  ASSUME SalesInvariant, lock = None, UNCHANGED <<lock, snap>>, sale' \in Sale,
         NEW r \in Requests, End(r, "done")
  PROVE  /\ ask' \in [Requests -> Asks \cup {None}]
         /\ pc' \in [Requests -> {"idle"} \cup Running \cup Ended]
         /\ LockHeld' /\ Asked'
<1> USE SalesAssumption, NoneIsNothing DEF SalesInvariant
<1>1. /\ pc' \in [Requests -> {"idle"} \cup Running \cup Ended]
      /\ ask' \in [Requests -> Asks \cup {None}]
      /\ \A x \in Requests : /\ pc'[x] = IF x = r THEN "done" ELSE pc[x]
                             /\ ask'[x] = IF x = r THEN None ELSE ask[x]
  BY DEF RowsOK, Goto, End, Running, Ended
<1>2. \A x \in Requests : pc[x] # "locked" /\ pc'[x] # "locked"
  BY <1>1 DEF LockHeld
<1>3. LockHeld'
  BY <1>2 DEF LockHeld
<1>4. sale' # None
  OBVIOUS
<1>5. Asked'
  BY <1>1, <1>4 DEF Asked, Running
<1> QED BY <1>1, <1>3, <1>5

(* A sale is voided, and all of it returns to stock.                       *)
LEMMA InvariantVoidCommit ==
  ASSUME SalesInvariant, NEW r \in Requests, VoidCommit(r)
  PROVE  SalesInvariant'
<1> USE SalesAssumption, NoneIsNothing DEF SalesInvariant
<1>1. sale # None /\ sale \in Sale /\ sale.status = "completed"
  BY DEF VoidCommit, Voidable, Asked, Running, RowsOK
<1>2. /\ sale' \in Sale /\ sale' # None /\ sale'.status = "void"
      /\ UNCHANGED <<lock, snap, returned, restocked>>
  <2>1. sale' = [sale EXCEPT !.status = "void", !.version = @ + 1] /\ "void" \in Statuses
    BY DEF VoidCommit, Statuses
  <2>2. sale' = [status |-> "void", version |-> sale.version + 1, seller |-> sale.seller]
    BY <1>1, <2>1 DEF Sale
  <2>3. sale' \in Sale /\ sale'.status = "void"
    BY <1>1, <2>1, <2>2 DEF Sale
  <2> QED BY <2>3 DEF VoidCommit
<1>3. /\ ask' \in [Requests -> Asks \cup {None}]
      /\ pc' \in [Requests -> {"idle"} \cup Running \cup Ended]
      /\ LockHeld' /\ Asked'
  BY <1>2, NoSnapshot DEF VoidCommit
<1>4. RowsOK'
  BY <1>2, <1>3 DEF RowsOK, Running
<1>5. Sold' /\ NeverOverReturned' /\ returned = Nothing
  BY <1>1, <1>2 DEF Sold, NeverOverReturned, StatusExplained
<1>6. \A l \in Lines : returned[l] = 0 /\ restocked[l] \in Nat /\ restocked[l] <= returned[l]
  BY <1>5 DEF Nothing, RowsOK, Returns, NeverOverReturned
<1>7. StatusExplained'
  BY <1>1, <1>2, <1>5, <1>6 DEF StatusExplained
<1>8. ReceiptFollows'
  BY <1>1, <1>2 DEF ReceiptFollows, VoidCommit, ReceiptVoided
<1>9. \A l \in Lines : stock[l] = Opening[l] - Quantity[l] + 0 /\ stock'[l] = stock[l] + Quantity[l]
  BY <1>1, <1>6 DEF StockExplained, VoidCommit, Plus
<1>10. StockExplained'
  BY <1>1, <1>2, <1>9 DEF StockExplained
<1> QED BY <1>2, <1>3, <1>4, <1>5, <1>7, <1>8, <1>10

(* A sale is attributed to another seller.                                 *)
LEMMA InvariantAttributeCommit ==
  ASSUME SalesInvariant, NEW r \in Requests, AttributeCommit(r)
  PROVE  SalesInvariant'
<1> USE SalesAssumption, NoneIsNothing DEF SalesInvariant
<1>1. sale # None /\ sale \in Sale /\ ask[r] \in Asks /\ ask[r].seller \in Sellers
  BY AttributionAsked DEF AttributeCommit, Asked, Running, RowsOK
<1>2. /\ sale' \in Sale /\ sale' # None /\ sale'.status = sale.status
      /\ UNCHANGED <<lock, snap, books>>
  <2>1. sale' = [sale EXCEPT !.seller = ask[r].seller, !.version = @ + 1]
    BY DEF AttributeCommit, Attributed
  <2>2. sale' = [status |-> sale.status, version |-> sale.version + 1, seller |-> ask[r].seller]
    BY <1>1, <2>1 DEF Sale
  <2> QED BY <1>1, <2>2 DEF AttributeCommit, Sale, Sellers
<1>3. /\ ask' \in [Requests -> Asks \cup {None}]
      /\ pc' \in [Requests -> {"idle"} \cup Running \cup Ended]
      /\ LockHeld' /\ Asked'
  BY <1>2, NoSnapshot DEF AttributeCommit
<1>4. RowsOK'
  BY <1>2, <1>3 DEF RowsOK, Running, books
<1>5. Sold' /\ NeverOverReturned' /\ StatusExplained'
  BY <1>1, <1>2 DEF Sold, NeverOverReturned, StatusExplained, books
<1>6. ReceiptFollows' /\ StockExplained'
  BY <1>1, <1>2 DEF ReceiptFollows, StockExplained, books
<1> QED BY <1>2, <1>3, <1>4, <1>5, <1>6

(* A refund locks the sale and checks what is left to return.              *)
LEMMA InvariantRefundLock ==
  ASSUME SalesInvariant, NEW r \in Requests, RefundLock(r)
  PROVE  SalesInvariant'
<1> USE SalesAssumption, NoneIsNothing DEF SalesInvariant
<1> DEFINE s == [sale |-> sale, returned |-> returned]
<1>1. pc[r] = "refunding" /\ sale # None /\ sale \in Sale
  BY DEF RefundLock, Asked, Running, RowsOK
<1>2. s \in [sale: Sale, returned: Returns]
  BY <1>1 DEF RowsOK
<1>3. /\ pc' \in [Requests -> {"idle"} \cup Running \cup Ended]
      /\ snap' \in [Requests -> [sale: Sale, returned: Returns] \cup {None}]
      /\ UNCHANGED <<ask, sale, books>> /\ lock' = r
      /\ \A x \in Requests : /\ pc'[x] = IF x = r THEN "locked" ELSE pc[x]
                             /\ snap'[x] = IF x = r THEN s ELSE snap[x]
  BY <1>2 DEF RefundLock, Goto, RowsOK, Running
<1>4. \A x \in Requests : pc[x] # "locked"
  BY DEF LockHeld, RefundLock
<1>5. LockHeld'
  BY <1>3, <1>4 DEF LockHeld, books
<1>6. Asked'
  BY <1>1, <1>3 DEF Asked, Running
<1> QED BY <1>3, <1>5, <1>6, InvariantQuiet DEF RowsOK

(* What a refund checked on its snapshot holds of the rows it changes, and *)
(* what it returns is something.                                           *)
LEMMA RefundFits ==
  ASSUME SalesInvariant, NEW r \in Requests, RefundCommit(r)
  PROVE  /\ sale \in Sale /\ sale # None /\ sale.status \in {"completed", "partially_refunded"}
         /\ ask[r].returned \in Returns /\ ask[r].restockable \in Returns
         /\ \E l \in Lines : ask[r].returned[l] > 0
         /\ \A l \in Lines :
              /\ ask[r].restockable[l] <= ask[r].returned[l]
              /\ ask[r].returned[l] + returned[l] <= Quantity[l]
         /\ NewStatus(r) = IF \A l \in Lines : ask[r].returned[l] + returned[l] >= Quantity[l]
                             THEN "refunded" ELSE "partially_refunded"
<1> USE SalesAssumption, NoneIsNothing DEF SalesInvariant
<1>1. /\ pc[r] = "locked" /\ sale # None /\ sale \in Sale
      /\ ask[r] \in Asks /\ ask[r].kind = "refund"
  BY DEF RefundCommit, Asked, Running, RowsOK
<1>2. snap[r].returned = returned /\ returned \in Returns
  BY <1>1 DEF LockHeld, RowsOK
<1>3. /\ ask[r].returned \in Returns /\ ask[r].restockable \in Returns
      /\ ask[r].returned # Nothing
      /\ \A l \in Lines : ask[r].restockable[l] <= ask[r].returned[l]
  BY <1>1, RefundAsked
<1>4. \E l \in Lines : ask[r].returned[l] > 0
  <2>1. PICK l \in Lines : ask[r].returned[l] # 0
    BY <1>3, NothingReturned
  <2> QED BY <1>3, <2>1 DEF Returns
<1>5. sale.status \in {"completed", "partially_refunded"}
  BY DEF RefundCommit, Refundable
<1>6. \A l \in Lines : ask[r].returned[l] + returned[l] <= Quantity[l]
  BY <1>2, <1>3 DEF RefundCommit, WithinRemaining, Returns
<1> QED BY <1>1, <1>2, <1>3, <1>4, <1>5, <1>6 DEF NewStatus

(* A refund commits within what it found under its lock.                   *)
LEMMA InvariantRefundCommit ==
  ASSUME SalesInvariant, NEW r \in Requests, RefundCommit(r)
  PROVE  SalesInvariant'
<1> USE SalesAssumption, NoneIsNothing DEF SalesInvariant
<1> DEFINE back == ask[r].returned
           shelf == ask[r].restockable
<1>1. /\ sale \in Sale /\ sale # None /\ sale.status \in {"completed", "partially_refunded"}
      /\ back \in Returns /\ shelf \in Returns
      /\ \E l \in Lines : back[l] > 0
      /\ \A l \in Lines : shelf[l] <= back[l] /\ back[l] + returned[l] <= Quantity[l]
      /\ NewStatus(r) = IF \A l \in Lines : back[l] + returned[l] >= Quantity[l]
                          THEN "refunded" ELSE "partially_refunded"
  BY RefundFits
<1>2. sale' \in Sale /\ sale' # None /\ sale'.status = NewStatus(r)
  <2>1. NewStatus(r) \in Statuses
    BY <1>1 DEF Statuses
  <2>2. sale' = [status |-> NewStatus(r), version |-> sale.version + 1, seller |-> sale.seller]
    BY <1>1 DEF RefundCommit, Sale
  <2> QED BY <1>1, <2>1, <2>2 DEF Sale
<1>3. returned \in Returns /\ restocked \in Returns
  BY DEF RowsOK
<1>4. /\ returned' \in Returns /\ restocked' \in Returns
      /\ \A l \in Lines : /\ returned'[l] = returned[l] + back[l]
                          /\ restocked'[l] = restocked[l] + shelf[l]
                          /\ returned[l] \in Nat /\ restocked[l] \in Nat
                          /\ back[l] \in Nat /\ shelf[l] \in Nat
  BY <1>1, <1>3, PlusIsReturns DEF RefundCommit
<1>5. /\ ask' \in [Requests -> Asks \cup {None}]
      /\ pc' \in [Requests -> {"idle"} \cup Running \cup Ended]
      /\ snap' \in [Requests -> [sale: Sale, returned: Returns] \cup {None}]
      /\ \A x \in Requests : /\ pc'[x] = IF x = r THEN "done" ELSE pc[x]
                             /\ ask'[x] = IF x = r THEN None ELSE ask[x]
  BY DEF RefundCommit, RowsOK, Goto, End, Running, Ended
<1>6. RowsOK'
  BY <1>2, <1>4, <1>5 DEF RowsOK, Running
<1>7. LockHeld' /\ lock' = None
  BY <1>5 DEF LockHeld, RefundCommit
<1>8. Asked'
  BY <1>2, <1>5 DEF Asked, Running
<1>9. Sold'
  BY <1>1, <1>2 DEF Sold
<1>10. NeverOverReturned'
  BY <1>1, <1>4 DEF NeverOverReturned
<1>11. StatusExplained'
  <2>1. returned' # Nothing
    BY <1>1, <1>4 DEF Nothing
  <2>2. NewStatus(r) = "refunded" <=> \A l \in Lines : returned'[l] >= Quantity[l]
    BY <1>1, <1>4
  <2>3. NewStatus(r) \notin {"completed", "void"}
    BY <1>1
  <2> QED BY <1>2, <2>1, <2>2, <2>3 DEF StatusExplained
<1>12. ReceiptFollows'
  <2>1. receipt \in {"issued", "partially_refunded"}
    BY <1>1 DEF ReceiptFollows
  <2>2. receipt' = NewStatus(r)
    BY <2>1 DEF RefundCommit, ReceiptRefunded
  <2> QED BY <1>1, <1>2, <2>2 DEF ReceiptFollows
<1>13. StockExplained'
  <2>1. \A l \in Lines : stock'[l] = stock[l] + shelf[l]
    BY DEF RefundCommit, Plus, Shelved
  <2>2. sale'.status # "void"
    BY <1>1, <1>2
  <2> QED BY <1>1, <1>2, <1>4, <2>1, <2>2 DEF StockExplained
<1> QED BY <1>6, <1>7, <1>8, <1>9, <1>10, <1>11, <1>12, <1>13

(* Every step keeps the invariant.                                         *)
LEMMA InvariantStep == SalesInvariant /\ [Next]_vars => SalesInvariant'
<1> SUFFICES ASSUME SalesInvariant, [Next]_vars PROVE SalesInvariant'
  OBVIOUS
<1>0. None \in Asks \cup {None} /\ None \notin Requests /\ LockHeld
  BY SalesAssumption DEF SalesInvariant
<1>1. ASSUME NEW r \in Requests, NEW a \in Asks, VoidStart(r, a)
      PROVE  SalesInvariant'
  BY <1>0, <1>1, InvariantWithoutLock DEF VoidStart, Arrives, End, Ended
<1>2. ASSUME NEW r \in Requests, NEW a \in Asks, RefundStart(r, a)
      PROVE  SalesInvariant'
  BY <1>0, <1>2, InvariantWithoutLock DEF RefundStart, Arrives, End, Ended
<1>3. ASSUME NEW r \in Requests, NEW a \in Asks, AttributeStart(r, a)
      PROVE  SalesInvariant'
  BY <1>3, InvariantWithoutLock DEF AttributeStart, Arrives
<1>4. ASSUME NEW r \in Requests, VoidRefused(r) \/ AttributeRefused(r)
      PROVE  SalesInvariant'
  BY <1>0, <1>4, InvariantWithoutLock DEF VoidRefused, AttributeRefused, End, Ended
<1>5. ASSUME NEW r \in Requests, RefundRefused(r)
      PROVE  SalesInvariant'
  <2>1. lock = r
    BY <1>0, <1>5 DEF RefundRefused, LockHeld
  <2> QED BY <1>5, <2>1, InvariantEnd DEF RefundRefused, Ended, Running
<1>6. ASSUME NEW r \in Requests, Fail(r)
      PROVE  SalesInvariant'
  BY <1>6, InvariantEnd DEF Fail, Ended, Running
<1>7. ASSUME UNCHANGED <<ask, pc, sale, lock, snap, books>>
      PROVE  SalesInvariant'
  <2>1. LockHeld' /\ Asked'
    BY <1>7 DEF SalesInvariant, LockHeld, Asked, books
  <2> QED BY <1>7, <2>1, InvariantQuiet DEF SalesInvariant, RowsOK, Running
<1>8. CASE CloseDay \/ Quiescent \/ UNCHANGED vars
  BY <1>7, <1>8 DEF CloseDay, Quiescent, vars, books
<1> QED BY <1>1, <1>2, <1>3, <1>4, <1>5, <1>6, <1>8, InvariantCreate, InvariantVoidCommit,
           InvariantRefundLock, InvariantRefundCommit, InvariantAttributeCommit DEF Next

(* The invariant holds of every state, for any requests, lines and amounts.*)
THEOREM InvariantHolds == Spec => []SalesInvariant
BY InvariantInit, InvariantStep, PTL DEF Spec

(* WithinRemaining is evaluated on what the refund read under its FOR      *)
(* UPDATE lock: no line is returned, or shelved, beyond what was sold,     *)
(* whatever refunds, voids and re-attributions run together.               *)
THEOREM NeverReturnedTwice == Spec => []NeverOverReturned
<1>1. SalesInvariant => NeverOverReturned
  BY DEF SalesInvariant
<1> QED BY <1>1, InvariantHolds, PTL

(* The status written by voidSale and refundSale is what was returned.     *)
THEOREM StatusIsExplained == Spec => []StatusExplained
<1>1. SalesInvariant => StatusExplained
  BY DEF SalesInvariant
<1> QED BY <1>1, InvariantHolds, PTL

(* markSaleReceiptVoided and markSaleReceiptRefunded, conditional on the   *)
(* receipt's own status, never leave it behind the sale.                   *)
THEOREM ReceiptIsFaithful == Spec => []ReceiptFollows
<1>1. SalesInvariant => ReceiptFollows
  BY DEF SalesInvariant
<1> QED BY <1>1, InvariantHolds, PTL

(* Stock is what was sold, void and put back: no unit is shelved twice.    *)
THEOREM StockIsExplained == Spec => []StockExplained
<1>1. SalesInvariant => StockExplained
  BY DEF SalesInvariant
<1> QED BY <1>1, InvariantHolds, PTL

(* Void and refunded are final: the guards of voidSale and refundSale hold *)
(* of the row they write, and setSaleAttribution keeps the status.         *)
THEOREM FinalStatusStays == Spec => FinalStays
<1>1. SalesInvariant /\ [Next]_vars =>
        [sale # None => (sale.status \in {"void", "refunded"} => sale'.status = sale.status)]_vars
  <2> SUFFICES ASSUME SalesInvariant, [Next]_vars, sale # None, sale.status \in {"void", "refunded"}
               PROVE  sale'.status = sale.status
    OBVIOUS
  <2>1. sale \in Sale
    BY DEF SalesInvariant, RowsOK
  <2>2. ASSUME NEW r \in Requests PROVE ~VoidCommit(r) /\ ~RefundCommit(r)
    BY <2>2, RefundFits DEF VoidCommit, Voidable
  <2>3. ASSUME NEW r \in Requests, AttributeCommit(r) PROVE sale'.status = sale.status
    <3>1. sale' = [sale EXCEPT !.seller = ask[r].seller, !.version = @ + 1]
      BY <2>3 DEF AttributeCommit, Attributed
    <3> QED BY <2>1, <3>1 DEF Sale
  <2>4. ASSUME NEW seller \in Sellers PROVE ~Create(seller)
    BY DEF Create
  <2>5. CASE UNCHANGED sale
    BY <2>5
  <2> QED BY <2>2, <2>3, <2>4, <2>5 DEF Next, vars, VoidStart, RefundStart, AttributeStart,
             VoidRefused, RefundLock, RefundRefused, AttributeRefused, Fail, CloseDay, Quiescent
<1> QED BY <1>1, InvariantHolds, PTL DEF Spec, FinalStays
------------------------------------------------------------------------------
(* The money of the sale and the types that are left.                      *)
MoneyInvariant ==
  /\ day \in {"same", "later"}
  /\ reversed \in [Sellers -> Nat]
  /\ stock \in [Lines -> Int]
  /\ purchases \in Nat
  /\ (sale = None \/ returned = Nothing) => \A e \in Sellers : reversed[e] = 0
  /\ SpentExplained

(* The product of two natural numbers is one.                              *)
LEMMA NatProduct == ASSUME NEW a \in Nat, NEW b \in Nat PROVE a * b \in Nat
OBVIOUS

(* What a refund gives back is a number of cents.                          *)
LEMMA RefundTotalIsNatural ==
  ASSUME NEW a, a.returned \in Returns
  PROVE  RefundTotal(a) \in Nat
<1> USE SalesAssumption
<1>1. ASSUME NEW l \in Lines PROVE Share(l, a.returned[l]) \in Nat
  <2> DEFINE q == Quantity[l]
             n == 2 * Amount[l] * a.returned[l] + q
  <2>1. q \in Nat /\ q > 0 /\ Amount[l] \in Nat /\ a.returned[l] \in Nat
    BY DEF Returns
  <2>2. n \in Nat
    BY <2>1, NatProduct
  <2> HIDE DEF n, q
  <2>3. n \div (2 * q) \in Nat
    BY <2>1, <2>2
  <2> QED BY <2>3 DEF Share, n, q
<1> DEFINE f == [l \in Lines |-> Share(l, a.returned[l])]
<1>2. Sum(f, Lines) \in Nat
  <2>1. \A l \in Lines : f[l] \in Nat
    BY <1>1
  <2> HIDE DEF f
  <2> QED BY <2>1, SumNat
<1> QED BY <1>2 DEF RefundTotal

(* The total of the sale is a natural number.                              *)
LEMMA TotalIsNatural == Total \in Nat
BY SalesAssumption, SumNat DEF Total

(* There are finitely many sellers.                                        *)
LEMMA SellersAreFinite == IsFiniteSet(Sellers)
BY SalesAssumption, FS_AddElement DEF Sellers

(* As long as nothing is returned, no commission is reversed.              *)
LEMMA NothingReversed ==
  ASSUME MoneyInvariant, sale = None \/ returned = Nothing
  PROVE  Sum(reversed, Sellers) = 0
BY SellersAreFinite, SumZero DEF MoneyInvariant

(* No money has moved before a sale is made.                               *)
LEMMA MoneyInit == Init => MoneyInvariant
<1> SUFFICES ASSUME Init PROVE MoneyInvariant
  OBVIOUS
<1> QED BY SalesAssumption DEF Init, MoneyInvariant, SpentExplained

(* A refund pays back, and takes back, its share of the sale.              *)
LEMMA MoneyRefund ==
  ASSUME SalesInvariant, MoneyInvariant, NEW r \in Requests, RefundCommit(r)
  PROVE  MoneyInvariant'
<1> DEFINE back == RefundTotal(ask[r])
           e == sale.seller
<1>1. /\ sale # None /\ sale.status # "void" /\ e \in Sellers
      /\ sale' # None /\ sale'.status # "void"
  <2>1. sale \in Sale /\ sale # None /\ sale.status \in {"completed", "partially_refunded"}
    BY RefundFits
  <2>2. sale' = [status |-> NewStatus(r), version |-> sale.version + 1, seller |-> sale.seller]
    BY <2>1 DEF RefundCommit, Sale
  <2>3. NewStatus(r) \in Statuses /\ NewStatus(r) # "void"
    BY DEF NewStatus, Statuses
  <2> QED BY <2>1, <2>2, <2>3, NoneIsNothing DEF Sale, Sellers
<1>2. back \in Nat
  BY RefundFits, RefundTotalIsNatural
<1>3. /\ reversed' = [reversed EXCEPT ![e] = @ + back] /\ spent' = spent - back
      /\ UNCHANGED <<day, purchases>>
  BY DEF RefundCommit, TakenBack
<1> HIDE DEF back, e
<1>4. reversed \in [Sellers -> Nat] /\ reversed' \in [Sellers -> Nat]
  BY <1>1, <1>2, <1>3 DEF MoneyInvariant
<1>5. Sum(reversed, Sellers) \in Int /\ Sum(reversed', Sellers) = Sum(reversed, Sellers) + back
  <2>1. /\ \A x \in Sellers : reversed[x] \in Int /\ reversed'[x] \in Int
        /\ \A x \in Sellers \ {e} : reversed'[x] = reversed[x]
        /\ reversed'[e] = reversed[e] + back
    BY <1>1, <1>2, <1>3, <1>4
  <2>2. /\ Sum(reversed, Sellers) \in Int
        /\ Sum(reversed', Sellers) = Sum(reversed, Sellers) + (reversed'[e] - reversed[e])
    BY <1>1, <2>1, SellersAreFinite, SumChange
  <2> QED BY <1>1, <1>2, <1>4, <2>1, <2>2
<1>6. SpentExplained'
  <2>1. spent = Total - Sum(reversed, Sellers)
    BY <1>1 DEF MoneyInvariant, SpentExplained
  <2>2. spent' = Total - Sum(reversed', Sellers)
    BY <1>2, <1>3, <1>5, <2>1, TotalIsNatural
  <2> QED BY <1>1, <2>2 DEF SpentExplained
<1>7. returned' # Nothing
  <2>1. PICK l \in Lines : ask[r].returned[l] > 0 /\ ask[r].returned \in Returns
    BY RefundFits
  <2>2. returned'[l] = returned[l] + ask[r].returned[l] /\ returned[l] \in Nat
    BY <2>1 DEF RefundCommit, Plus, SalesInvariant, RowsOK, Returns
  <2> QED BY <2>1, <2>2 DEF Nothing, Returns
<1>8. stock' \in [Lines -> Int]
  <2>1. stock' = [l \in Lines |-> stock[l] + ask[r].restockable[l]]
    BY DEF RefundCommit, Shelved, Plus
  <2>2. \A l \in Lines : stock[l] \in Int /\ ask[r].restockable[l] \in Int
    BY RefundFits DEF MoneyInvariant, Returns
  <2> QED BY <2>1, <2>2
<1> QED BY <1>1, <1>3, <1>4, <1>6, <1>7, <1>8 DEF MoneyInvariant

(* Every step keeps the money explained.                                   *)
LEMMA MoneyStep == SalesInvariant /\ MoneyInvariant /\ [Next]_vars => MoneyInvariant'
<1> SUFFICES ASSUME SalesInvariant, MoneyInvariant, [Next]_vars PROVE MoneyInvariant'
  OBVIOUS
<1> USE SalesAssumption, NoneIsNothing
<1>1. ASSUME UNCHANGED <<returned, reversed, stock, spent, purchases>>,
             day' \in {"same", "later"},
             (sale = None) = (sale' = None),
             sale # None => (sale.status = "void") = (sale'.status = "void")
      PROVE  MoneyInvariant'
  BY <1>1 DEF MoneyInvariant, SpentExplained
<1>2. ASSUME NEW seller \in Sellers, Create(seller) PROVE MoneyInvariant'
  <2>1. sale = None /\ sale' # None /\ sale'.status # "void" /\ returned = Nothing
    BY <1>2 DEF Create, Sale, Statuses, Sellers, SalesInvariant, Sold
  <2>2. spent = 0 /\ Sum(reversed, Sellers) = 0
    BY <2>1, NothingReversed DEF MoneyInvariant, SpentExplained
  <2>3. SpentExplained'
    BY <1>2, <2>1, <2>2, TotalIsNatural DEF Create, SpentExplained
  <2>4. stock' \in [Lines -> Int]
    BY <1>2 DEF Create, Minus, MoneyInvariant
  <2> QED BY <1>2, <2>1, <2>3, <2>4 DEF Create, MoneyInvariant
<1>3. ASSUME NEW r \in Requests, VoidCommit(r) PROVE MoneyInvariant'
  <2>1. sale # None /\ sale \in Sale /\ sale.status = "completed"
    BY <1>3 DEF VoidCommit, Voidable, SalesInvariant, Asked, Running, RowsOK
  <2>2. returned = Nothing
    BY <2>1 DEF SalesInvariant, StatusExplained
  <2>3. spent = Total - 0
    BY <2>1, <2>2, NothingReversed DEF MoneyInvariant, SpentExplained
  <2>4. sale' = [status |-> "void", version |-> sale.version + 1, seller |-> sale.seller]
    BY <1>3, <2>1 DEF VoidCommit, Sale
  <2>5. sale' # None /\ sale'.status = "void"
    BY <2>1, <2>4 DEF Sale, Statuses
  <2>6. SpentExplained'
    BY <1>3, <2>3, <2>5, TotalIsNatural DEF VoidCommit, SpentExplained
  <2>7. stock' \in [Lines -> Int]
    BY <1>3 DEF VoidCommit, Plus, MoneyInvariant
  <2> QED BY <1>3, <2>2, <2>6, <2>7 DEF VoidCommit, MoneyInvariant
<1>4. ASSUME NEW r \in Requests, AttributeCommit(r) PROVE MoneyInvariant'
  <2>1. sale # None /\ sale \in Sale /\ ask[r] \in Asks /\ ask[r].seller \in Sellers
    BY <1>4, AttributionAsked DEF AttributeCommit, SalesInvariant, Asked, Running, RowsOK
  <2>2. sale' = [status |-> sale.status, version |-> sale.version + 1, seller |-> ask[r].seller]
    BY <1>4, <2>1 DEF AttributeCommit, Attributed, Sale
  <2>3. sale' \in Sale /\ sale'.status = sale.status
    BY <2>1, <2>2 DEF Sale, Sellers
  <2> QED BY <1>1, <1>4, <2>1, <2>3 DEF AttributeCommit, books, MoneyInvariant
<1>5. CASE UNCHANGED <<sale, books>> /\ day' \in {"same", "later"}
  BY <1>1, <1>5 DEF books
<1>6. day \in {"same", "later"}
  BY DEF MoneyInvariant
<1> QED BY <1>2, <1>3, <1>4, <1>5, <1>6, MoneyRefund
        DEF Next, vars, books, VoidStart, RefundStart, AttributeStart, VoidRefused, RefundLock,
            RefundRefused, AttributeRefused, Fail, CloseDay, Quiescent

(* Sums unfold, so the money holds of every state as the rows do.          *)
THEOREM MoneyHolds == Spec => []MoneyInvariant
<1>1. SalesInvariant /\ MoneyInvariant /\ [Next]_vars => MoneyInvariant'
  BY MoneyStep
<1> QED BY <1>1, MoneyInit, InvariantHolds, PTL DEF Spec

(* total_spent of the customer is the total of the sale, unless void, less *)
(* its reversal rows, whoever they are attributed to: refundSale and       *)
(* setSaleAttribution may interleave as they will.                         *)
THEOREM SpentIsExplained == Spec => []SpentExplained
<1>1. MoneyInvariant => SpentExplained
  BY DEF MoneyInvariant
<1> QED BY <1>1, MoneyHolds, PTL

(* Every variable keeps its type; stock in particular is never negative,   *)
(* because createSale took what was there and no unit comes back twice.    *)
THEOREM TypeInvariant == Spec => []TypeOK
<1>1. SalesInvariant /\ MoneyInvariant => TypeOK
  <2> SUFFICES ASSUME SalesInvariant, MoneyInvariant PROVE TypeOK
    OBVIOUS
  <2> USE SalesAssumption, NoneIsNothing
  <2>1. \A l \in Lines : stock[l] \in Nat
    <3> SUFFICES ASSUME NEW l \in Lines PROVE stock[l] \in Nat
      OBVIOUS
    <3>1. restocked[l] \in Nat /\ Opening[l] \in Nat /\ Quantity[l] \in Nat
      BY DEF SalesInvariant, RowsOK, Returns
    <3>2. sale # None => Quantity[l] <= Opening[l]
      BY DEF SalesInvariant, Sold
    <3> QED BY <3>1, <3>2 DEF SalesInvariant, StockExplained
  <2>2. stock \in [Lines -> Nat]
    BY <2>1 DEF MoneyInvariant
  <2>3. spent \in Int
    <3>1. Sum(reversed, Sellers) \in Nat
      BY SellersAreFinite, SumNat DEF MoneyInvariant
    <3> QED BY <3>1, TotalIsNatural DEF MoneyInvariant, SpentExplained
  <2>4. receipt \in {"none", "issued", "voided", "partially_refunded", "refunded"}
    BY DEF SalesInvariant, ReceiptFollows, RowsOK, Sale, Statuses
  <2> QED BY <2>2, <2>3, <2>4 DEF TypeOK, SalesInvariant, RowsOK, MoneyInvariant
<1> QED BY <1>1, InvariantHolds, MoneyHolds, PTL

------------------------------------------------------------------------------
(***************************************************************************)
(* SupplierPayments: the invariant is SupplierInvariant of that module. Its*)
(* sums are over payments in a sequence that grows.                        *)
(***************************************************************************)
(* What is left of each advance payment, and which are for invoice p.      *)
Left(rows)  == [i \in DOMAIN rows |-> rows[i].amount - rows[i].reversed]
Of(rows, p) == {i \in DOMAIN rows : rows[i].invoice = p}

Ahead(rows, p) == Sum(Left(rows), Of(rows, p))

(* The effective sum of an invoice is what its advances leave.             *)
LEMMA PaidAhead == \A p : EffectiveAdvancePaidSum(p) = Ahead(advances, p)
BY DEF EffectiveAdvancePaidSum, Ahead, Left, Of

(* What is left of the advances of an invoice, while none was taken back   *)
(* for more than it was, is a natural number.                              *)
LEMMA LeftIsNatural ==
  ASSUME NEW rows \in Seq(Advance), NEW p,
         \A i \in DOMAIN rows : rows[i].reversed <= rows[i].amount
  PROVE  /\ IsFiniteSet(Of(rows, p))
         /\ \A i \in Of(rows, p) : Left(rows)[i] \in Nat
         /\ Ahead(rows, p) \in Nat
<1>1. IsFiniteSet(Of(rows, p))
  <2>1. DOMAIN rows = 1..Len(rows) /\ Len(rows) \in Nat
    OBVIOUS
  <2>2. IsFiniteSet(1..Len(rows))
    BY <2>1, FS_Interval
  <2>3. Of(rows, p) \subseteq 1..Len(rows)
    BY <2>1 DEF Of
  <2> QED BY <2>2, <2>3, FS_Subset
<1>2. ASSUME NEW i \in DOMAIN rows PROVE Left(rows)[i] \in Nat
  <2>1. rows[i] \in Advance
    OBVIOUS
  <2>2. rows[i].amount \in Nat /\ rows[i].reversed \in Nat
    BY <2>1, SupplierAssumption DEF Advance
  <2> QED BY <2>2 DEF Left
<1>3. \A i \in Of(rows, p) : Left(rows)[i] \in Nat
  BY <1>2 DEF Of
<1> QED BY <1>1, <1>3, SumNat DEF Ahead

(* A payment appended adds its amount to its own invoice, to no other.     *)
LEMMA PaymentAdds ==
  ASSUME NEW rows \in Seq(Advance), NEW p, NEW row \in Advance,
         \A i \in DOMAIN rows : rows[i].reversed <= rows[i].amount, row.reversed = 0
  PROVE  Ahead(Append(rows, row), p) = Ahead(rows, p) + (IF row.invoice = p THEN row.amount ELSE 0)
<1> DEFINE more == Append(rows, row)
           n == Len(rows) + 1
<1>1. /\ DOMAIN rows = 1..Len(rows) /\ Len(rows) \in Nat
      /\ more \in Seq(Advance) /\ DOMAIN more = 1..n
      /\ more[n] = row
      /\ \A i \in DOMAIN rows : more[i] = rows[i]
  OBVIOUS
<1> HIDE DEF more
<1>2. \A i \in DOMAIN more : more[i].reversed <= more[i].amount
  <2>1. row.amount \in Nat
    BY SupplierAssumption DEF Advance
  <2> QED BY <1>1, <2>1
<1>3. /\ IsFiniteSet(Of(more, p))
      /\ \A i \in Of(more, p) : Left(more)[i] \in Nat
  BY <1>1, <1>2, LeftIsNatural
<1>4. Of(more, p) \ {n} = Of(rows, p) /\ n \notin Of(rows, p)
  BY <1>1 DEF Of
<1>5. IsFiniteSet(Of(rows, p)) /\ Sum(Left(rows), Of(rows, p)) \in Nat
  BY LeftIsNatural DEF Ahead
<1>6. Sum(Left(more), Of(rows, p)) = Sum(Left(rows), Of(rows, p))
  <2>1. \A i \in Of(rows, p) : Left(more)[i] = Left(rows)[i]
    BY <1>1 DEF Of, Left
  <2> QED BY <1>5, <2>1, SumAgrees
<1>7. row.amount \in Nat
  BY SupplierAssumption DEF Advance
<1>8. CASE row.invoice = p
  <2>1. n \in Of(more, p) /\ Left(more)[n] = row.amount
    BY <1>1, <1>8, <1>7 DEF Of, Left
  <2>2. Sum(Left(more), Of(more, p)) = Left(more)[n] + Sum(Left(more), Of(more, p) \ {n})
    BY <1>3, <2>1, SumRemove
  <2>3. Sum(Left(more), Of(more, p) \ {n}) = Sum(Left(rows), Of(rows, p))
    BY <1>4, <1>6
  <2>4. Sum(Left(more), Of(more, p)) = row.amount + Sum(Left(rows), Of(rows, p))
    BY <2>1, <2>2, <2>3
  <2>5. Sum(Left(more), Of(more, p)) = Sum(Left(rows), Of(rows, p)) + row.amount
    BY <1>5, <1>7, <2>4
  <2> QED BY <1>8, <2>5 DEF more, Ahead
<1>9. CASE row.invoice # p
  <2>1. Of(more, p) = Of(rows, p)
    BY <1>1, <1>4, <1>9 DEF Of
  <2> QED BY <1>5, <1>6, <1>9, <2>1 DEF more, Ahead
<1> QED BY <1>8, <1>9

(* Less is left of an invoice when less is left of one of its payments.    *)
LEMMA LessIsLeft ==
  ASSUME NEW rows \in Seq(Advance), NEW new \in Seq(Advance),
         NEW a \in DOMAIN rows, DOMAIN new = DOMAIN rows,
         \A i \in DOMAIN rows : /\ rows[i].reversed <= rows[i].amount
                               /\ new[i].invoice = rows[i].invoice
                               /\ new[i].reversed <= new[i].amount,
         \A i \in DOMAIN rows \ {a} : new[i] = rows[i],
         new[a].amount = rows[a].amount, rows[a].reversed <= new[a].reversed, NEW p
  PROVE  Ahead(new, p) <= Ahead(rows, p)
<1>1. Of(new, p) = Of(rows, p)
  BY DEF Of
<1>2. \A i \in Of(rows, p) : Left(rows)[i] \in Nat
  BY LeftIsNatural
<1>3. \A i \in Of(rows, p) : Left(new)[i] \in Nat
  <2>1. \A i \in Of(new, p) : Left(new)[i] \in Nat
    BY LeftIsNatural
  <2> QED BY <1>1, <2>1
<1>4. IsFiniteSet(Of(rows, p)) /\ Sum(Left(rows), Of(rows, p)) \in Nat
  BY LeftIsNatural DEF Ahead
<1>5. \A i \in Of(rows, p) : Left(rows)[i] \in Int /\ Left(new)[i] \in Int
  BY <1>2, <1>3
<1>6. \A i \in Of(rows, p) \ {a} : Left(new)[i] = Left(rows)[i]
  BY DEF Of, Left
<1>7. Left(new)[a] <= Left(rows)[a]
  <2>1. rows[a] \in Advance /\ new[a] \in Advance
    OBVIOUS
  <2>2. /\ rows[a].amount \in Nat /\ rows[a].reversed \in Nat
        /\ new[a].amount \in Nat /\ new[a].reversed \in Nat
    BY <2>1, SupplierAssumption DEF Advance
  <2> QED BY <2>2 DEF Left
<1>8. CASE a \in Of(rows, p)
  <2>1. Sum(Left(new), Of(rows, p)) = Sum(Left(rows), Of(rows, p)) + (Left(new)[a] - Left(rows)[a])
    BY <1>4, <1>5, <1>6, <1>8, SumChange
  <2>2. Left(new)[a] \in Int /\ Left(rows)[a] \in Int
    BY <1>5, <1>8
  <2>3. Sum(Left(new), Of(rows, p)) <= Sum(Left(rows), Of(rows, p))
    BY <1>4, <1>7, <2>1, <2>2
  <2> QED BY <1>1, <2>3 DEF Ahead
<1>9. CASE a \notin Of(rows, p)
  <2>1. \A i \in Of(rows, p) : Left(new)[i] = Left(rows)[i]
    BY <1>6, <1>9
  <2>2. Sum(Left(new), Of(rows, p)) = Sum(Left(rows), Of(rows, p))
    BY <1>4, <2>1, SumAgrees
  <2> QED BY <1>1, <1>4, <2>2 DEF Ahead
<1> QED BY <1>8, <1>9

(* What is left once the row of one payment is replaced.                   *)
LEMMA RowReplaced ==
  ASSUME NEW rows \in Seq(Advance), NEW new, NEW a \in DOMAIN rows,
         NEW row \in Advance, new = [rows EXCEPT ![a] = row],
         row.invoice = rows[a].invoice, row.amount = rows[a].amount,
         rows[a].reversed <= row.reversed, row.reversed <= row.amount,
         \A i \in DOMAIN rows : rows[i].reversed <= rows[i].amount
  PROVE  /\ new \in Seq(Advance) /\ DOMAIN new = DOMAIN rows
         /\ \A i \in DOMAIN rows : /\ new[i].invoice = rows[i].invoice
                                   /\ new[i].reversed <= new[i].amount
         /\ \A p : Ahead(new, p) <= Ahead(rows, p)
<1>1. new \in Seq(Advance) /\ DOMAIN new = DOMAIN rows
  OBVIOUS
<1>2. \A i \in DOMAIN rows : new[i] = IF i = a THEN row ELSE rows[i]
  OBVIOUS
<1>3. \A i \in DOMAIN rows : /\ rows[i].reversed <= rows[i].amount
                            /\ new[i].invoice = rows[i].invoice
                            /\ new[i].reversed <= new[i].amount
  BY <1>2
<1>4. \A i \in DOMAIN rows \ {a} : new[i] = rows[i]
  BY <1>2
<1>5. new[a].amount = rows[a].amount /\ rows[a].reversed <= new[a].reversed
  BY <1>2
<1>6. \A p : Ahead(new, p) <= Ahead(rows, p)
  BY <1>1, <1>3, <1>4, <1>5, LessIsLeft
<1> QED BY <1>1, <1>3, <1>6

(* Nothing is paid ahead of an invoice that is yet to come.                *)
LEMMA NothingPaidYet ==
  ASSUME NEW rows, NEW p, \A i \in DOMAIN rows : rows[i].invoice # p
  PROVE  Ahead(rows, p) = 0
<1>1. Of(rows, p) = {}
  BY DEF Of
<1> QED BY <1>1, SumEmpty DEF Ahead

(* The invariant of SupplierPayments, with the sums above.                 *)
Locking(r) == r.pc = "locked" /\ r.op = "advance"

Carried(r, invoices, rows, set) ==
  /\ r.op = "advance" => r.on \in DOMAIN invoices /\ r.n \in Amounts /\ r.via \in Instructions
  /\ r.op = "reverse" => r.on \in DOMAIN rows
  /\ r.op \in {"set_default", "archive", "restore", "revoke"} => r.on \in set

SupplierBooks ==
  /\ SupplierTypes
  /\ req \in [Callers -> Request]
  /\ proformas # <<>> /\ proformas[Len(proformas)].status = "issued"
  /\ \A a \in DOMAIN advances : /\ advances[a].invoice \in DOMAIN proformas
                                /\ advances[a].reversed <= advances[a].amount
  /\ \A c \in Callers : req[c].pc # "idle" => Carried(req[c], proformas, advances, Rows)
  /\ \A c \in Callers : Locking(req[c]) => Ahead(advances, req[c].on) <= req[c].sum
  /\ \A c, d \in Callers : Locking(req[c]) /\ Locking(req[d]) /\ req[c].on = req[d].on => c = d
  /\ \A p \in DOMAIN proformas : Ahead(advances, p) <= proformas[p].total

(* The names the proof uses and the invariant of SupplierPayments say the  *)
(* same.                                                                   *)
LEMMA SupplierRestated ==
  SupplierBooks <=> SupplierInvariant
<1>1. ASSUME SupplierBooks PROVE SupplierInvariant
  <2> USE <1>1 DEF SupplierBooks
  <2>1. WithinInvoice
    <3>1. ASSUME NEW p \in DOMAIN proformas
          PROVE  EffectiveAdvancePaidSum(p) \in 0..proformas[p].total
      <4>1. Ahead(advances, p) \in Nat
        BY LeftIsNatural DEF SupplierTypes
      <4>2. proformas[p] \in Proforma
        BY DEF SupplierTypes
      <4>3. proformas[p].total \in Nat
        BY <4>2, SupplierAssumption DEF Proforma
      <4>4. Ahead(advances, p) <= proformas[p].total
        OBVIOUS
      <4>5. Ahead(advances, p) \in 0..proformas[p].total
        BY <4>1, <4>3, <4>4
      <4> QED BY <4>5, PaidAhead
    <3> QED BY <3>1 DEF WithinInvoice
  <2>2. \A c \in Callers : req[c].pc # "idle" => Carries(c)
    BY DEF Carried, Carries
  <2>3. \A c \in Callers : At(c, "locked", "advance") =>
          EffectiveAdvancePaidSum(req[c].on) <= req[c].sum
    BY PaidAhead DEF Locking, At
  <2>4. \A c, d \in Callers :
          At(c, "locked", "advance") /\ At(d, "locked", "advance") /\ req[c].on = req[d].on => c = d
    BY DEF Locking, At
  <2> QED BY <2>1, <2>2, <2>3, <2>4 DEF SupplierInvariant
<1>2. ASSUME SupplierInvariant PROVE SupplierBooks
  <2> USE <1>2 DEF SupplierInvariant
  <2>1. ASSUME NEW p \in DOMAIN proformas PROVE Ahead(advances, p) <= proformas[p].total
    <3>1. EffectiveAdvancePaidSum(p) \in 0..proformas[p].total
      BY DEF WithinInvoice
    <3>2. proformas[p] \in Proforma
      BY DEF SupplierTypes
    <3>3. proformas[p].total \in Nat
      BY <3>2, SupplierAssumption DEF Proforma
    <3> QED BY <3>1, <3>3, PaidAhead
  <2>2. \A c \in Callers : req[c].pc # "idle" => Carried(req[c], proformas, advances, Rows)
    BY DEF Carried, Carries
  <2>3. \A c \in Callers : Locking(req[c]) => Ahead(advances, req[c].on) <= req[c].sum
    BY PaidAhead DEF Locking, At
  <2>4. \A c, d \in Callers : Locking(req[c]) /\ Locking(req[d]) /\ req[c].on = req[d].on => c = d
    BY DEF Locking, At
  <2> QED BY <2>1, <2>2, <2>3, <2>4 DEF SupplierBooks, WithinInvoice
<1> QED BY <1>1, <1>2

(* Requests that keep what they hold, end, or come in with what they ask.  *)
LEMMA SupplierQuiet ==
  ASSUME SupplierBooks, UNCHANGED <<proformas, advances>>,
         instruction' \in [Instructions -> Instruction \cup {None}],
         commercial' \in Invoice \cup {None}, settled' \in Nat, today' \in 0..MaxDay,
         req' \in [Callers -> Request], Rows \subseteq Rows',
         \A c \in Callers : \/ req'[c] = req[c]
                            \/ /\ ~Locking(req'[c])
                               /\ req'[c].pc # "idle" => Carried(req'[c], proformas, advances, Rows')
  PROVE  SupplierBooks'
<1> USE DEF SupplierBooks
<1>1. SupplierTypes'
  BY DEF SupplierTypes
<1>2. proformas' = proformas /\ advances' = advances
  OBVIOUS
<1>3. \A c \in Callers : req'[c].pc # "idle" => Carried(req'[c], proformas, advances, Rows')
  <2>1. ASSUME NEW c \in Callers, req'[c].pc # "idle", req'[c] = req[c]
        PROVE  Carried(req'[c], proformas, advances, Rows')
    <3>1. Carried(req[c], proformas, advances, Rows)
      BY <2>1
    <3> QED BY <2>1, <3>1 DEF Carried
  <2> QED BY <2>1
<1>4. \A c \in Callers : Locking(req'[c]) => req'[c] = req[c]
  OBVIOUS
<1>5. /\ \A c \in Callers : Locking(req'[c]) => Ahead(advances, req'[c].on) <= req'[c].sum
      /\ \A c, d \in Callers :
           Locking(req'[c]) /\ Locking(req'[d]) /\ req'[c].on = req'[d].on => c = d
  BY <1>4
<1> QED BY <1>1, <1>2, <1>3, <1>5

(* A caller without a request carries nothing.                             *)
LEMMA SupplierIdle == Idle \in Request /\ Idle.pc = "idle"
BY DEF Idle, Request

(* The tables keep their rows while one request is put down.               *)
LEMMA SupplierPutDown ==
  ASSUME SupplierBooks, NEW c \in Callers, req' = [req EXCEPT ![c] = Idle],
         UNCHANGED <<proformas, advances>>,
         instruction' \in [Instructions -> Instruction \cup {None}], Rows \subseteq Rows',
         commercial' \in Invoice \cup {None}, settled' \in Nat, today' \in 0..MaxDay
  PROVE  SupplierBooks'
<1>1. req \in [Callers -> Request]
  BY DEF SupplierBooks
<1>2. req' \in [Callers -> Request]
  BY <1>1, SupplierIdle
<1>3. \A d \in Callers : req'[d] = req[d] \/ req'[d] = Idle
  BY <1>1
<1>4. \A d \in Callers : \/ req'[d] = req[d]
                         \/ /\ ~Locking(req'[d])
                            /\ req'[d].pc # "idle" => Carried(req'[d], proformas, advances, Rows')
  BY <1>3, SupplierIdle DEF Locking
<1> QED BY <1>2, <1>4, SupplierQuiet

(* A request that is composed reads what is there.                         *)
LEMMA SupplierAsk ==
  ASSUME SupplierBooks, NEW c \in Callers, NEW r \in Request, ~Locking(r),
         Carried(r, proformas, advances, Rows), req' = [req EXCEPT ![c] = r],
         UNCHANGED <<instruction, money>>
  PROVE  SupplierBooks'
<1>1. req \in [Callers -> Request] /\ SupplierTypes
  BY DEF SupplierBooks
<1>2. req' \in [Callers -> Request]
  BY <1>1
<1>3. \A d \in Callers : req'[d] = req[d] \/ req'[d] = r
  BY <1>1
<1>4. UNCHANGED <<proformas, advances>> /\ Rows' = Rows
  BY DEF money, Rows
<1>5. Carried(r, proformas, advances, Rows')
  BY <1>4
<1>6. \A d \in Callers : \/ req'[d] = req[d]
                         \/ /\ ~Locking(req'[d])
                            /\ req'[d].pc # "idle" => Carried(req'[d], proformas, advances, Rows')
  BY <1>3, <1>5
<1>7. /\ instruction' \in [Instructions -> Instruction \cup {None}]
      /\ commercial' \in Invoice \cup {None} /\ settled' \in Nat /\ today' \in 0..MaxDay
  BY <1>1 DEF SupplierTypes, money
<1> QED BY <1>2, <1>6, <1>7, <1>4, SupplierQuiet

(* Rows of instructions that keep their shape.                             *)
LEMMA InstructionRow ==
  ASSUME NEW row \in Instruction, NEW status \in {"active", "archived", "revoked"}, NEW q,
         \/ q = [row EXCEPT !.status = status]
         \/ q = [row EXCEPT !.version = @ + 1]
         \/ q = [row EXCEPT !.status = status, !.is_default = FALSE]
         \/ \E b \in BOOLEAN : q = [row EXCEPT !.is_default = b]
  PROVE  q \in Instruction
<1>1. row = [status |-> row.status, is_default |-> row.is_default, version |-> row.version]
  BY DEF Instruction
<1>2. CASE q = [row EXCEPT !.status = status]
  BY <1>2 DEF Instruction
<1>3. CASE q = [row EXCEPT !.version = @ + 1]
  BY <1>3 DEF Instruction
<1>4. CASE q = [row EXCEPT !.status = status, !.is_default = FALSE]
  <2>1. q = [status |-> status, is_default |-> FALSE, version |-> row.version]
    BY <1>1, <1>4
  <2> QED BY <2>1 DEF Instruction
<1>5. ASSUME NEW b \in BOOLEAN, q = [row EXCEPT !.is_default = b] PROVE q \in Instruction
  BY <1>5 DEF Instruction
<1> QED BY <1>2, <1>3, <1>4, <1>5

(* The requests on the instructions: the money is not touched.             *)
LEMMA SupplierInstructions ==
  ASSUME SupplierBooks, NEW c \in Callers,
         SetDefault(c) \/ Archive(c) \/ Restore(c) \/ Revoke(c)
  PROVE  SupplierBooks'
<1>1. /\ instruction \in [Instructions -> Instruction \cup {None}] /\ commercial \in Invoice \cup {None}
      /\ settled \in Nat /\ today \in 0..MaxDay
  BY DEF SupplierBooks, SupplierTypes
<1>2. req' = [req EXCEPT ![c] = Idle] /\ UNCHANGED money
  BY DEF SetDefault, Archive, Restore, Revoke, Guarded, Finished
<1>3. None \notin Instruction
  BY SupplierAssumption
<1>4. \A i \in Rows : i \in Instructions /\ instruction[i] \in Instruction
  BY <1>1 DEF Rows
<1>5. req[c].on \in Rows
  <2>1. req[c].pc = "read" /\ req[c].op \in {"set_default", "archive", "restore", "revoke"}
    BY DEF SetDefault, Archive, Restore, Revoke, At
  <2>2. Carried(req[c], proformas, advances, Rows)
    BY <2>1 DEF SupplierBooks
  <2> QED BY <2>1, <2>2 DEF Carried
<1>6. instruction' \in [Instructions -> Instruction \cup {None}] /\ Rows \subseteq Rows'
  <2>1. CASE SetDefault(c)
    <3>1. ASSUME NEW i \in Rows
          PROVE  [instruction[i] EXCEPT !.is_default = (i = req[c].on)] \in Instruction
      <4>1. instruction[i] \in Instruction
        BY <1>4
      <4> QED BY <4>1 DEF Instruction
    <3>2. instruction' = [i \in Instructions |->
            IF i \in Rows THEN [instruction[i] EXCEPT !.is_default = (i = req[c].on)] ELSE None]
      BY <2>1 DEF SetDefault
    <3>3. \A i \in Rows : instruction'[i] \in Instruction
      BY <1>4, <3>1, <3>2
    <3>4. \A i \in Rows : i \in Rows'
      BY <1>3, <1>4, <3>3 DEF Rows
    <3> QED BY <3>1, <3>2, <3>4
  <2>2. CASE Archive(c) \/ Restore(c) \/ Revoke(c)
    <3>1. PICK q \in Instruction :
            instruction' = [instruction EXCEPT ![req[c].on] = [q EXCEPT !.version = @ + 1]]
      <4>1. instruction[req[c].on] \in Instruction
        BY <1>4, <1>5
      <4>2. CASE Archive(c)
        <5>1. [instruction[req[c].on] EXCEPT !.status = "archived"] \in Instruction
          BY <4>1, InstructionRow
        <5> QED BY <4>2, <5>1 DEF Archive, Guarded
      <4>3. CASE Restore(c)
        <5>1. [instruction[req[c].on] EXCEPT !.status = "active"] \in Instruction
          BY <4>1, InstructionRow
        <5> QED BY <4>3, <5>1 DEF Restore, Guarded
      <4>4. CASE Revoke(c)
        <5>1. RevokedRow(instruction[req[c].on]) \in Instruction
          BY <4>1, InstructionRow DEF RevokedRow
        <5> QED BY <4>4, <5>1 DEF Revoke, Guarded
      <4> QED BY <2>2, <4>2, <4>3, <4>4
    <3>2. [q EXCEPT !.version = @ + 1] \in Instruction
      BY InstructionRow
    <3>3. instruction' \in [Instructions -> Instruction \cup {None}]
      BY <1>1, <3>1, <3>2
    <3>4. \A i \in Rows : instruction'[i] \in Instruction
      BY <1>1, <1>4, <3>1, <3>2
    <3>5. \A i \in Rows : i \in Rows'
      BY <1>3, <1>4, <3>4 DEF Rows
    <3> QED BY <3>3, <3>5
  <2> QED BY <2>1, <2>2
<1> QED BY <1>1, <1>2, <1>6, SupplierPutDown DEF money

(* What a caller may compose (AskInstruction, AskAdvance, AskReversal).    *)
LEMMA SupplierComposes ==
  ASSUME SupplierBooks, NEW c \in Callers,
         AskInstruction(c) \/ AskAdvance(c) \/ AskReversal(c)
  PROVE  SupplierBooks'
<1> USE DEF Ask
<1>1. /\ instruction \in [Instructions -> Instruction \cup {None}]
      /\ proformas \in Seq(Proforma) /\ advances \in Seq(Advance)
  BY DEF SupplierBooks, SupplierTypes
<1>2. ASSUME NEW i \in Rows, NEW op \in {"set_default", "archive", "restore", "revoke"},
             Ask(c, Asking(op, i, 0, instruction[i].version, None))
      PROVE  SupplierBooks'
  <2>1. PICK r : r = [pc |-> "read", op |-> op, on |-> i, n |-> 0,
                      shown |-> instruction[i].version, sum |-> 0, via |-> None]
    OBVIOUS
  <2>2. req' = [req EXCEPT ![c] = r]
    BY <1>2, <2>1 DEF Asking
  <2>3. i \in Instructions /\ instruction[i] \in Instruction
    BY <1>1 DEF Rows
  <2>4. instruction[i].version \in Nat
    BY <2>3 DEF Instruction
  <2>5. r \in Request
    BY <2>1, <2>3, <2>4 DEF Request
  <2>6. Carried(r, proformas, advances, Rows) /\ ~Locking(r)
    BY <2>1 DEF Carried, Locking
  <2> QED BY <1>2, <2>2, <2>5, <2>6, SupplierAsk
<1>3. ASSUME NEW p \in DOMAIN proformas, NEW i \in Rows, NEW n \in Amounts,
             Ask(c, Asking("advance", p, n, 0, i))
      PROVE  SupplierBooks'
  <2>1. PICK r : r = [pc |-> "read", op |-> "advance", on |-> p, n |-> n,
                      shown |-> 0, sum |-> 0, via |-> i]
    OBVIOUS
  <2>2. req' = [req EXCEPT ![c] = r]
    BY <1>3, <2>1 DEF Asking
  <2>3. i \in Instructions /\ n \in Nat /\ p \in Nat
    BY <1>1, SupplierAssumption DEF Rows
  <2>4. r \in Request
    BY <2>1, <2>3 DEF Request
  <2>5. Carried(r, proformas, advances, Rows) /\ ~Locking(r)
    BY <2>1, <2>3 DEF Carried, Locking
  <2> QED BY <1>3, <2>2, <2>4, <2>5, SupplierAsk
<1>4. ASSUME NEW a \in DOMAIN advances, NEW n \in Amounts,
             Ask(c, Asking("reverse", a, n, advances[a].version, None))
      PROVE  SupplierBooks'
  <2>1. PICK r : r = [pc |-> "read", op |-> "reverse", on |-> a, n |-> n,
                      shown |-> advances[a].version, sum |-> 0, via |-> None]
    OBVIOUS
  <2>2. req' = [req EXCEPT ![c] = r]
    BY <1>4, <2>1 DEF Asking
  <2>3. n \in Nat /\ a \in Nat /\ advances[a] \in Advance
    BY <1>1, SupplierAssumption
  <2>4. advances[a].version \in Nat
    BY <2>3 DEF Advance
  <2>5. r \in Request
    BY <2>1, <2>3, <2>4 DEF Request
  <2>6. Carried(r, proformas, advances, Rows) /\ ~Locking(r)
    BY <2>1 DEF Carried, Locking
  <2> QED BY <1>4, <2>2, <2>5, <2>6, SupplierAsk
<1>5. CASE AskInstruction(c)
  BY <1>2, <1>5 DEF AskInstruction
<1>6. CASE AskAdvance(c)
  BY <1>3, <1>6 DEF AskAdvance
<1>7. CASE AskReversal(c)
  BY <1>4, <1>7 DEF AskReversal
<1> QED BY <1>5, <1>6, <1>7

(* The invoice is locked and its sum read: nobody else holds it.           *)
LEMMA SupplierLock ==
  ASSUME SupplierBooks, NEW c \in Callers, LockInvoice(c)
  PROVE  SupplierBooks'
<1>1. /\ SupplierTypes /\ req \in [Callers -> Request]
      /\ req[c].pc = "read" /\ req[c].op = "advance"
      /\ UNCHANGED <<instruction, money, asked>>
  BY DEF SupplierBooks, LockInvoice, At
<1>2. UNCHANGED <<instruction, proformas, advances, commercial, settled, today>> /\ Rows' = Rows
  BY <1>1 DEF money, Rows
<1>3. SupplierTypes'
  BY <1>1, <1>2 DEF SupplierTypes
<1>4. PICK sum : sum = Ahead(advances, req[c].on)
  OBVIOUS
<1>5. sum \in Nat
  <2>1. advances \in Seq(Advance)
    BY <1>1 DEF SupplierTypes
  <2>2. \A i \in DOMAIN advances : advances[i].reversed <= advances[i].amount
    BY DEF SupplierBooks
  <2> QED BY <1>4, <2>1, <2>2, LeftIsNatural
<1>6. req[c] \in Request
  BY <1>1
<1>7. PICK r : r = [req[c] EXCEPT !.pc = "locked", !.sum = sum]
  OBVIOUS
<1>8. req' = [req EXCEPT ![c] = r]
  <2>1. req' = [req EXCEPT ![c].pc = "locked", ![c].sum = sum]
    BY <1>4, PaidAhead DEF LockInvoice
  <2> QED BY <1>1, <1>6, <1>7, <2>1 DEF Request
<1>9. /\ r \in Request /\ r.pc = "locked" /\ r.op = "advance" /\ r.on = req[c].on
      /\ r.n = req[c].n /\ r.via = req[c].via /\ r.sum = sum
  <2>1. r = [pc |-> "locked", op |-> req[c].op, on |-> req[c].on, n |-> req[c].n,
             shown |-> req[c].shown, sum |-> sum, via |-> req[c].via]
    BY <1>6, <1>7 DEF Request
  <2> QED BY <1>1, <1>5, <1>6, <2>1 DEF Request
<1>10. req' \in [Callers -> Request] /\ \A d \in Callers : req'[d] = IF d = c THEN r ELSE req[d]
  BY <1>1, <1>8, <1>9
<1>11. \A d \in Callers : req'[d].pc # "idle" => Carried(req'[d], proformas, advances, Rows)
  <2>1. Carried(req[c], proformas, advances, Rows)
    BY <1>1 DEF SupplierBooks
  <2>2. Carried(r, proformas, advances, Rows)
    BY <1>1, <1>9, <2>1 DEF Carried
  <2>3. \A d \in Callers : req[d].pc # "idle" => Carried(req[d], proformas, advances, Rows)
    BY DEF SupplierBooks
  <2> QED BY <1>10, <2>2, <2>3
<1>12. \A d \in Callers : Locking(req'[d]) => Ahead(advances, req'[d].on) <= req'[d].sum
  <2>1. Ahead(advances, r.on) <= r.sum
    BY <1>4, <1>5, <1>9
  <2>2. \A d \in Callers : Locking(req[d]) => Ahead(advances, req[d].on) <= req[d].sum
    BY DEF SupplierBooks
  <2> QED BY <1>10, <2>1, <2>2
<1>13. \A d, e \in Callers :
         Locking(req'[d]) /\ Locking(req'[e]) /\ req'[d].on = req'[e].on => d = e
  <2>1. \A d \in Callers : Locking(req[d]) => req[d].on # req[c].on
    BY DEF LockInvoice, InvoiceFree, Holds, At, Locking
  <2>2. \A d, e \in Callers : Locking(req[d]) /\ Locking(req[e]) /\ req[d].on = req[e].on => d = e
    BY DEF SupplierBooks
  <2> QED BY <1>9, <1>10, <2>1, <2>2
<1>14. /\ proformas # <<>> /\ proformas[Len(proformas)].status = "issued"
       /\ \A a \in DOMAIN advances : /\ advances[a].invoice \in DOMAIN proformas
                                     /\ advances[a].reversed <= advances[a].amount
       /\ \A p \in DOMAIN proformas : Ahead(advances, p) <= proformas[p].total
  BY DEF SupplierBooks
<1> QED BY <1>2, <1>3, <1>10, <1>11, <1>12, <1>13, <1>14 DEF SupplierBooks

(* The payment is recorded: under the lock its sum cannot have grown.      *)
LEMMA SupplierRecord ==
  ASSUME SupplierBooks, NEW c \in Callers, RecordAdvance(c)
  PROVE  SupplierBooks'
<1>1. /\ SupplierTypes /\ req \in [Callers -> Request]
      /\ advances \in Seq(Advance) /\ proformas \in Seq(Proforma)
      /\ \A i \in DOMAIN advances : advances[i].reversed <= advances[i].amount
      /\ \A i \in DOMAIN advances : advances[i].invoice \in DOMAIN proformas
  BY DEF SupplierBooks, SupplierTypes
<1>2. /\ Locking(req[c]) /\ req[c].pc # "idle"
      /\ req[c].sum + req[c].n <= proformas[req[c].on].total
      /\ UNCHANGED <<instruction, proformas, commercial, settled, today>>
      /\ req' = [req EXCEPT ![c] = Idle]
  BY DEF RecordAdvance, At, Finished, Locking
<1>3. Rows' = Rows
  BY <1>2 DEF Rows
<1>4. req[c].on \in DOMAIN proformas /\ req[c].n \in Amounts /\ req[c].via \in Instructions
  <2>1. Carried(req[c], proformas, advances, Rows)
    BY <1>2 DEF SupplierBooks
  <2> QED BY <1>2, <2>1 DEF Carried, Locking
<1>5. req[c].on \in Nat \ {0} /\ req[c].n \in Nat
  <2>1. \A p \in DOMAIN proformas : p \in Nat \ {0}
    BY <1>1
  <2>2. Amounts \subseteq Nat
    BY SupplierAssumption
  <2> QED BY <1>4, <2>1, <2>2
<1>6. PICK row : row = [invoice |-> req[c].on, amount |-> req[c].n, by |-> req[c].via,
                        reversed |-> 0, version |-> 0]
  OBVIOUS
<1>7. /\ row \in Advance /\ row.invoice = req[c].on /\ row.amount = req[c].n
      /\ row.reversed = 0
  BY <1>4, <1>5, <1>6 DEF Advance
<1>8. advances' = Append(advances, row)
  BY <1>6 DEF RecordAdvance
<1>9. /\ advances' \in Seq(Advance) /\ DOMAIN advances \subseteq DOMAIN advances'
      /\ \A i \in DOMAIN advances' : \/ i \in DOMAIN advances /\ advances'[i] = advances[i]
                                     \/ advances'[i] = row
  <2>1. row \in Advance
    BY <1>7
  <2> QED BY <1>1, <1>8, <2>1
<1>10. \A i \in DOMAIN advances' : /\ advances'[i].invoice \in DOMAIN proformas
                                  /\ advances'[i].reversed <= advances'[i].amount
  <2>1. row.invoice \in DOMAIN proformas /\ row.reversed <= row.amount
    BY <1>4, <1>5, <1>7
  <2>2. ASSUME NEW i \in DOMAIN advances, advances'[i] = advances[i]
        PROVE  /\ advances'[i].invoice \in DOMAIN proformas
               /\ advances'[i].reversed <= advances'[i].amount
    BY <1>1, <2>2
  <2> QED BY <1>9, <2>1, <2>2
<1>11. \A p : Ahead(advances', p) = Ahead(advances, p) + (IF p = req[c].on THEN req[c].n ELSE 0)
  <2>1. \A p : Ahead(Append(advances, row), p)
                 = Ahead(advances, p) + (IF row.invoice = p THEN row.amount ELSE 0)
    BY <1>1, <1>7, PaymentAdds
  <2> QED BY <1>7, <1>8, <2>1
<1>12. \A p : Ahead(advances, p) \in Nat
  BY <1>1, LeftIsNatural
<1>13. \A p \in DOMAIN proformas : Ahead(advances', p) <= proformas[p].total
  <2>1. Ahead(advances, req[c].on) <= req[c].sum
    BY <1>2 DEF SupplierBooks
  <2>2. \A p \in DOMAIN proformas : Ahead(advances, p) <= proformas[p].total
    BY DEF SupplierBooks
  <2>3. \A p \in DOMAIN proformas : proformas[p].total \in Nat
    <3>1. \A p \in DOMAIN proformas : proformas[p] \in Proforma
      BY <1>1
    <3> QED BY <3>1, SupplierAssumption DEF Proforma
  <2>4. req[c].sum \in Int
    <3>1. req[c] \in Request
      BY <1>1
    <3> QED BY <3>1 DEF Request
  <2>5. Ahead(advances', req[c].on) <= proformas[req[c].on].total
    BY <1>2, <1>4, <1>5, <1>11, <1>12, <2>1, <2>3, <2>4
  <2>6. \A p \in DOMAIN proformas : p # req[c].on => Ahead(advances', p) = Ahead(advances, p)
    BY <1>11, <1>12
  <2> QED BY <2>2, <2>5, <2>6
<1>14. req' \in [Callers -> Request] /\ \A d \in Callers : req'[d] = IF d = c THEN Idle ELSE req[d]
  BY <1>1, <1>2, SupplierIdle
<1>15. ~Locking(Idle) /\ Idle.pc = "idle"
  BY SupplierIdle DEF Locking
<1>16. \A d \in Callers : req'[d].pc # "idle" => Carried(req'[d], proformas, advances', Rows)
  <2>1. \A d \in Callers : req[d].pc # "idle" => Carried(req[d], proformas, advances, Rows)
    BY DEF SupplierBooks
  <2>2. ASSUME NEW d \in Callers, req'[d].pc # "idle"
        PROVE  Carried(req'[d], proformas, advances', Rows)
    <3>1. req'[d] = req[d] /\ Carried(req[d], proformas, advances, Rows)
      BY <1>14, <1>15, <2>1, <2>2
    <3> QED BY <1>9, <3>1 DEF Carried
  <2> QED BY <2>2
<1>17. \A d \in Callers : Locking(req'[d]) => Ahead(advances', req'[d].on) <= req'[d].sum
  <2>1. \A d \in Callers : Locking(req[d]) => Ahead(advances, req[d].on) <= req[d].sum
    BY DEF SupplierBooks
  <2>2. \A d \in Callers : Locking(req'[d]) => d # c /\ req'[d] = req[d]
    BY <1>14, <1>15
  <2>3. \A d \in Callers : Locking(req[d]) /\ d # c => req[d].on # req[c].on
    BY <1>2 DEF SupplierBooks
  <2> QED BY <1>11, <1>12, <2>1, <2>2, <2>3
<1>18. \A d, e \in Callers :
         Locking(req'[d]) /\ Locking(req'[e]) /\ req'[d].on = req'[e].on => d = e
  <2>1. \A d, e \in Callers : Locking(req[d]) /\ Locking(req[e]) /\ req[d].on = req[e].on => d = e
    BY DEF SupplierBooks
  <2> QED BY <1>14, <1>15, <2>1
<1>19. SupplierTypes'
  BY <1>1, <1>2, <1>9 DEF SupplierTypes
<1>20. proformas' # <<>> /\ proformas'[Len(proformas')].status = "issued" /\ proformas' = proformas
  BY <1>2 DEF SupplierBooks
<1> QED BY <1>3, <1>10, <1>13, <1>14, <1>16, <1>17, <1>18, <1>19, <1>20 DEF SupplierBooks

(* A reversal is recorded: less is paid ahead of its invoice.              *)
LEMMA SupplierReverse ==
  ASSUME SupplierBooks, NEW c \in Callers, RecordReversal(c)
  PROVE  SupplierBooks'
<1>1. /\ SupplierTypes /\ req \in [Callers -> Request]
      /\ advances \in Seq(Advance) /\ proformas \in Seq(Proforma)
      /\ \A i \in DOMAIN advances : advances[i].reversed <= advances[i].amount
      /\ \A i \in DOMAIN advances : advances[i].invoice \in DOMAIN proformas
  BY DEF SupplierBooks, SupplierTypes
<1>2. /\ req[c].pc # "idle" /\ req[c].op = "reverse"
      /\ UNCHANGED <<instruction, proformas, commercial, settled, today>>
      /\ req' = [req EXCEPT ![c] = Idle]
      /\ req[c].n <= advances[req[c].on].amount - advances[req[c].on].reversed
  BY DEF RecordReversal, At, Finished, Reversible
<1>3. Rows' = Rows
  BY <1>2 DEF Rows
<1>4. PICK a : a = req[c].on
  OBVIOUS
<1>5. PICK n : n = req[c].n
  OBVIOUS
<1>6. a \in DOMAIN advances
  <2>1. Carried(req[c], proformas, advances, Rows)
    BY <1>2 DEF SupplierBooks
  <2> QED BY <1>2, <1>4, <2>1 DEF Carried
<1>7. n \in Nat
  <2>1. req[c] \in Request
    BY <1>1
  <2> QED BY <1>5, <2>1 DEF Request
<1>8. advances' = [advances EXCEPT ![a].reversed = @ + n, ![a].version = @ + 1]
  BY <1>4, <1>5 DEF RecordReversal
<1>9. n <= advances[a].amount - advances[a].reversed
  BY <1>2, <1>4, <1>5
<1>10. PICK rows : rows = advances
  OBVIOUS
<1>11. PICK new : new = advances'
  OBVIOUS
<1>12. /\ new \in Seq(Advance) /\ DOMAIN new = DOMAIN rows
       /\ \A i \in DOMAIN rows : /\ new[i].invoice = rows[i].invoice
                                 /\ new[i].reversed <= new[i].amount
       /\ \A p : Ahead(new, p) <= Ahead(rows, p)
  <2>1. rows \in Seq(Advance) /\ a \in DOMAIN rows /\ n <= rows[a].amount - rows[a].reversed
    BY <1>1, <1>6, <1>9, <1>10
  <2>2. \A i \in DOMAIN rows : rows[i].reversed <= rows[i].amount
    BY <1>1, <1>10
  <2>3. rows[a] \in Advance
    BY <2>1
  <2>4. PICK row : row = [rows[a] EXCEPT !.reversed = @ + n, !.version = @ + 1]
    OBVIOUS
  <2>5. /\ row \in Advance /\ row.invoice = rows[a].invoice /\ row.amount = rows[a].amount
        /\ row.reversed = rows[a].reversed + n
    <3>1. row = [invoice |-> rows[a].invoice, amount |-> rows[a].amount, by |-> rows[a].by,
                 reversed |-> rows[a].reversed + n, version |-> rows[a].version + 1]
      BY <2>3, <2>4 DEF Advance
    <3> QED BY <1>7, <2>3, <3>1 DEF Advance
  <2>6. new = [rows EXCEPT ![a] = row]
    <3>1. advances' = [advances EXCEPT ![a] = row]
      <4>1. advances[a] \in Advance /\ row = [advances[a] EXCEPT !.reversed = @ + n, !.version = @ + 1]
        BY <1>10, <2>3, <2>4
      <4> QED BY <1>1, <1>6, <1>8, <4>1 DEF Advance
    <3> QED BY <1>10, <1>11, <3>1
  <2>7. rows[a].reversed <= row.reversed /\ row.reversed <= row.amount
    <3>1. rows[a].amount \in Nat /\ rows[a].reversed \in Nat
      BY <2>3, SupplierAssumption DEF Advance
    <3> QED BY <1>7, <2>1, <2>5, <3>1
  <2>8. row \in Advance /\ row.invoice = rows[a].invoice /\ row.amount = rows[a].amount
    BY <2>5
  <2>9. rows \in Seq(Advance) /\ a \in DOMAIN rows
    BY <2>1
  <2> QED BY <2>2, <2>6, <2>7, <2>8, <2>9, RowReplaced
<1>13. \A p : Ahead(rows, p) \in Nat /\ Ahead(new, p) \in Nat
  <2>1. \A p : Ahead(rows, p) \in Nat
    BY <1>1, <1>10, LeftIsNatural
  <2>2. \A p : Ahead(new, p) \in Nat
    BY <1>12, LeftIsNatural
  <2> QED BY <2>1, <2>2
<1>14. req' \in [Callers -> Request] /\ \A d \in Callers : req'[d] = IF d = c THEN Idle ELSE req[d]
  BY <1>1, <1>2, SupplierIdle
<1>15. ~Locking(Idle) /\ Idle.pc = "idle"
  BY SupplierIdle DEF Locking
<1>16. \A d \in Callers : req'[d].pc # "idle" => Carried(req'[d], proformas, new, Rows)
  <2>1. \A d \in Callers : req[d].pc # "idle" => Carried(req[d], proformas, rows, Rows)
    BY <1>10 DEF SupplierBooks
  <2>2. ASSUME NEW d \in Callers, req'[d].pc # "idle"
        PROVE  Carried(req'[d], proformas, new, Rows)
    <3>1. req'[d] = req[d] /\ Carried(req[d], proformas, rows, Rows)
      BY <1>14, <1>15, <2>1, <2>2
    <3> QED BY <1>12, <3>1 DEF Carried
  <2> QED BY <2>2
<1>17. \A d \in Callers : Locking(req'[d]) => Ahead(new, req'[d].on) <= req'[d].sum
  <2>1. \A d \in Callers : Locking(req[d]) => Ahead(rows, req[d].on) <= req[d].sum
    BY <1>10 DEF SupplierBooks
  <2>2. \A d \in Callers : req[d].sum \in Int
    <3>1. \A d \in Callers : req[d] \in Request
      BY <1>1
    <3> QED BY <3>1 DEF Request
  <2>3. ASSUME NEW d \in Callers, Locking(req'[d]) PROVE Ahead(new, req'[d].on) <= req'[d].sum
    <3>1. req'[d] = req[d] /\ Ahead(rows, req[d].on) <= req[d].sum
      BY <1>14, <1>15, <2>1, <2>3
    <3> QED BY <1>12, <1>13, <2>2, <3>1
  <2> QED BY <2>3
<1>18. \A d, e \in Callers :
         Locking(req'[d]) /\ Locking(req'[e]) /\ req'[d].on = req'[e].on => d = e
  <2>1. \A d, e \in Callers : Locking(req[d]) /\ Locking(req[e]) /\ req[d].on = req[e].on => d = e
    BY DEF SupplierBooks
  <2> QED BY <1>14, <1>15, <2>1
<1>19. SupplierTypes'
  BY <1>1, <1>2, <1>11, <1>12 DEF SupplierTypes
<1>20. proformas' # <<>> /\ proformas'[Len(proformas')].status = "issued" /\ proformas' = proformas
  BY <1>2 DEF SupplierBooks
<1>21. \A p \in DOMAIN proformas : Ahead(new, p) <= proformas[p].total
  <2>1. \A p \in DOMAIN proformas : Ahead(rows, p) <= proformas[p].total
    BY <1>10 DEF SupplierBooks
  <2>2. \A p \in DOMAIN proformas : proformas[p].total \in Nat
    <3>1. \A p \in DOMAIN proformas : proformas[p] \in Proforma
      BY <1>1
    <3> QED BY <3>1, SupplierAssumption DEF Proforma
  <2> QED BY <1>12, <1>13, <2>1, <2>2
<1>22. \A i \in DOMAIN new : new[i].invoice \in DOMAIN proformas /\ new[i].reversed <= new[i].amount
  BY <1>1, <1>10, <1>12
<1> QED BY <1>3, <1>11, <1>14, <1>16, <1>17, <1>18, <1>19, <1>20, <1>21, <1>22 DEF SupplierBooks

(* A new proforma invoice: nothing was paid ahead of it yet.               *)
LEMMA SupplierIssue ==
  ASSUME SupplierBooks, IssueProforma
  PROVE  SupplierBooks'
<1>1. /\ SupplierTypes /\ req \in [Callers -> Request]
      /\ advances \in Seq(Advance) /\ proformas \in Seq(Proforma)
      /\ \A i \in DOMAIN advances : advances[i].reversed <= advances[i].amount
      /\ \A i \in DOMAIN advances : advances[i].invoice \in DOMAIN proformas
  BY DEF SupplierBooks, SupplierTypes
<1>2. /\ UNCHANGED <<instruction, advances, commercial, settled, today, req>> /\ Rows' = Rows
  BY DEF IssueProforma, Rows
<1>3. PICK n \in Amounts :
        proformas' = Append([p \in DOMAIN proformas |-> [proformas[p] EXCEPT !.status = "superseded"]],
                            [total |-> n, status |-> "issued"])
  BY DEF IssueProforma
<1>4. PICK old : old = [p \in DOMAIN proformas |-> [proformas[p] EXCEPT !.status = "superseded"]]
  OBVIOUS
<1>5. PICK row : row = [total |-> n, status |-> "issued"]
  OBVIOUS
<1>6. row \in Proforma /\ row.status = "issued" /\ row.total = n
  BY <1>5 DEF Proforma
<1>7. /\ old \in Seq(Proforma) /\ Len(old) = Len(proformas)
      /\ \A p \in DOMAIN proformas : old[p].total = proformas[p].total
  <2>1. \A p \in DOMAIN proformas : proformas[p] \in Proforma
    BY <1>1
  <2>2. \A p \in DOMAIN proformas : old[p] \in Proforma /\ old[p].total = proformas[p].total
    BY <1>4, <2>1 DEF Proforma
  <2>3. DOMAIN proformas = 1..Len(proformas) /\ Len(proformas) \in Nat
    BY <1>1
  <2>4. old \in [1..Len(proformas) -> Proforma]
    BY <1>4, <2>2, <2>3
  <2> QED BY <2>2, <2>3, <2>4
<1>8. /\ proformas' \in Seq(Proforma) /\ Len(proformas') = Len(proformas) + 1
      /\ DOMAIN proformas' = 1..(Len(proformas) + 1)
      /\ DOMAIN proformas = 1..Len(proformas) /\ Len(proformas) \in Nat
      /\ proformas'[Len(proformas')] = row
      /\ \A p \in DOMAIN proformas : proformas'[p] = old[p]
  <2>1. proformas' = Append(old, row)
    BY <1>3, <1>4, <1>5
  <2>2. row \in Proforma
    BY <1>6
  <2> QED BY <1>1, <1>7, <2>1, <2>2
<1>9. SupplierTypes'
  BY <1>1, <1>2, <1>8 DEF SupplierTypes
<1>10. proformas' # <<>> /\ proformas'[Len(proformas')].status = "issued"
  BY <1>6, <1>8
<1>11. DOMAIN proformas \subseteq DOMAIN proformas'
  BY <1>8
<1>12. \A c \in Callers : req[c].pc # "idle" => Carried(req[c], proformas', advances, Rows)
  <2>1. \A c \in Callers : req[c].pc # "idle" => Carried(req[c], proformas, advances, Rows)
    BY DEF SupplierBooks
  <2> QED BY <1>11, <2>1 DEF Carried
<1>13. \A p \in DOMAIN proformas' : Ahead(advances, p) <= proformas'[p].total
  <2>1. \A p \in DOMAIN proformas : Ahead(advances, p) <= proformas'[p].total
    BY <1>7, <1>8 DEF SupplierBooks
  <2>2. Ahead(advances, Len(proformas')) <= proformas'[Len(proformas')].total
    <3>1. Ahead(advances, Len(proformas')) = 0
      <4>1. \A i \in DOMAIN advances : advances[i].invoice # Len(proformas')
        BY <1>1, <1>8
      <4> QED BY <4>1, NothingPaidYet
    <3>2. proformas'[Len(proformas')].total \in Nat
      BY <1>6, <1>8, SupplierAssumption
    <3> QED BY <3>1, <3>2
  <2>3. \A p \in DOMAIN proformas' : p \in DOMAIN proformas \/ p = Len(proformas')
    BY <1>8
  <2> QED BY <2>1, <2>2, <2>3
<1>14. /\ \A c \in Callers : Locking(req[c]) => Ahead(advances, req[c].on) <= req[c].sum
       /\ \A c, d \in Callers : Locking(req[c]) /\ Locking(req[d]) /\ req[c].on = req[d].on => c = d
  BY DEF SupplierBooks
<1>15. \A a \in DOMAIN advances : /\ advances[a].invoice \in DOMAIN proformas'
                                 /\ advances[a].reversed <= advances[a].amount
  BY <1>1, <1>11
<1> QED BY <1>1, <1>2, <1>9, <1>10, <1>12, <1>13, <1>14, <1>15 DEF SupplierBooks

(* The commercial invoice takes over the total of a proforma invoice.      *)
LEMMA CommercialIsInvoice ==
  ASSUME SupplierBooks, IssueCommercial
  PROVE  commercial' \in Invoice
<1>1. /\ proformas \in Seq(Proforma) /\ today \in 0..MaxDay
      /\ proformas # <<>> /\ proformas[Len(proformas)].status = "issued"
  BY DEF SupplierBooks, SupplierTypes
<1>2. /\ Len(proformas) \in DOMAIN proformas
      /\ \A q \in DOMAIN proformas : proformas[q].status = "issued" => q <= Len(proformas)
  BY <1>1
<1>3. \E p \in DOMAIN proformas :
        /\ proformas[p].status = "issued"
        /\ \A q \in DOMAIN proformas : proformas[q].status = "issued" => q <= p
  BY <1>1, <1>2
<1>4. Latest \in DOMAIN proformas
  BY <1>3 DEF Latest
<1>5. proformas[Latest] \in Proforma
  BY <1>1, <1>4
<1>6. proformas[Latest].total \in Amounts
  BY <1>5 DEF Proforma
<1>7. commercial' = [total |-> proformas[Latest].total, issued_at |-> today]
  BY DEF IssueCommercial
<1> QED BY <1>1, <1>6, <1>7 DEF Invoice

(* The version of a payment is taken by one reversal.                      *)
LEMMA SupplierBump ==
  ASSUME SupplierBooks, NEW c \in Callers, BumpAdvance(c)
  PROVE  SupplierBooks'
<1>1. /\ SupplierTypes /\ req \in [Callers -> Request]
      /\ req[c].pc = "read" /\ req[c].op = "reverse"
      /\ UNCHANGED <<instruction, money>>
  BY DEF SupplierBooks, BumpAdvance, At
<1>2. req[c] \in Request /\ Carried(req[c], proformas, advances, Rows)
  BY <1>1 DEF SupplierBooks
<1>3. PICK r : r = [req[c] EXCEPT !.pc = "locked"]
  OBVIOUS
<1>4. r \in Request /\ r.op = "reverse" /\ r.on = req[c].on
  BY <1>1, <1>2, <1>3 DEF Request
<1>5. req' = [req EXCEPT ![c] = r]
  BY <1>1, <1>3 DEF BumpAdvance
<1>6. Carried(r, proformas, advances, Rows) /\ ~Locking(r)
  BY <1>1, <1>2, <1>4 DEF Carried, Locking
<1> QED BY <1>1, <1>4, <1>5, <1>6, SupplierAsk

(* The first instruction and those after it.                               *)
LEMMA SupplierCreates ==
  ASSUME SupplierBooks, NEW i \in Instructions, CreateInstruction(i)
  PROVE  SupplierBooks'
<1>1. SupplierTypes /\ req \in [Callers -> Request] /\ UNCHANGED <<money, req>>
  BY DEF SupplierBooks, CreateInstruction
<1>2. PICK row : row = [status |-> "active", is_default |-> Rows = {}, version |-> 0]
  OBVIOUS
<1>3. row \in Instruction
  BY <1>2 DEF Instruction
<1>4. instruction \in [Instructions -> Instruction \cup {None}]
  BY <1>1 DEF SupplierTypes
<1>5. instruction[i] = None /\ instruction' = [instruction EXCEPT ![i] = row]
  BY <1>2 DEF CreateInstruction
<1>6. instruction' \in [Instructions -> Instruction \cup {None}] /\ Rows \subseteq Rows'
  BY <1>3, <1>4, <1>5 DEF Rows
<1>7. /\ commercial' \in Invoice \cup {None} /\ settled' \in Nat /\ today' \in 0..MaxDay
      /\ UNCHANGED <<proformas, advances>> /\ req' \in [Callers -> Request]
      /\ \A c \in Callers : req'[c] = req[c]
  BY <1>1 DEF SupplierTypes, money
<1> QED BY <1>6, <1>7, SupplierQuiet

(* Steps that leave the requests and the payments alone.                   *)
LEMMA SupplierPasses ==
  ASSUME SupplierBooks,
         IssueCommercial \/ Settle \/ NextDay \/ UNCHANGED supplierVars
  PROVE  SupplierBooks'
<1>1. SupplierTypes /\ req \in [Callers -> Request] /\ UNCHANGED <<instruction, proformas, advances, req>>
  BY DEF SupplierBooks, IssueCommercial, Settle, NextDay, supplierVars
<1>2. /\ instruction' \in [Instructions -> Instruction \cup {None}] /\ Rows \subseteq Rows'
      /\ req' \in [Callers -> Request] /\ \A c \in Callers : req'[c] = req[c]
  BY <1>1 DEF SupplierTypes, Rows
<1>3. commercial' \in Invoice \cup {None}
  BY <1>1, CommercialIsInvoice DEF SupplierTypes, IssueCommercial, Settle, NextDay, supplierVars
<1>4. settled' \in Nat
  BY <1>1 DEF SupplierTypes, IssueCommercial, Settle, NextDay, supplierVars
<1>5. today' \in 0..MaxDay
  BY <1>1, SupplierAssumption DEF SupplierTypes, IssueCommercial, Settle, NextDay, supplierVars
<1> QED BY <1>1, <1>2, <1>3, <1>4, <1>5, SupplierQuiet

(* Abandoned: nothing is written.                                          *)
LEMMA SupplierAbandons ==
  ASSUME SupplierBooks, NEW c \in Callers, Abandon(c)
  PROVE  SupplierBooks'
<1>1. SupplierTypes /\ req' = [req EXCEPT ![c] = Idle] /\ UNCHANGED <<instruction, money>>
  BY DEF SupplierBooks, Abandon
<1>2. /\ instruction' \in [Instructions -> Instruction \cup {None}] /\ Rows \subseteq Rows'
      /\ commercial' \in Invoice \cup {None} /\ settled' \in Nat /\ today' \in 0..MaxDay
      /\ UNCHANGED <<proformas, advances>>
  BY <1>1 DEF SupplierTypes, Rows, money
<1> QED BY <1>1, <1>2, SupplierPutDown

(* Before the first request nothing was paid.                              *)
LEMMA SupplierStarts == ASSUME SupplierInit PROVE SupplierBooks
<1>1. PICK n \in Amounts : proformas = <<[total |-> n, status |-> "issued"]>>
  BY DEF SupplierInit
<1>2. PICK row : row = [total |-> n, status |-> "issued"]
  OBVIOUS
<1>3. row \in Proforma /\ row.status = "issued" /\ row.total = n /\ n \in Nat
  BY <1>2, SupplierAssumption DEF Proforma
<1>4. /\ proformas \in Seq(Proforma) /\ proformas # <<>> /\ Len(proformas) = 1
      /\ DOMAIN proformas = {1} /\ proformas[1] = row
  BY <1>1, <1>2, <1>3
<1>5. /\ advances = <<>> /\ commercial = None /\ settled = 0 /\ today = 0
      /\ instruction \in [Instructions -> {None}]
      /\ req \in [Callers -> Request] /\ \A c \in Callers : req[c] = Idle
  BY SupplierIdle DEF SupplierInit
<1>6. advances \in Seq(Advance) /\ DOMAIN advances = {}
  BY <1>5
<1>7. SupplierTypes
  BY <1>4, <1>5, <1>6, SupplierAssumption DEF SupplierTypes
<1>8. \A c \in Callers : req[c].pc = "idle" /\ ~Locking(req[c])
  BY <1>5, SupplierIdle DEF Locking
<1>9. \A p \in DOMAIN proformas : Ahead(advances, p) <= proformas[p].total
  <2>1. \A p : Ahead(advances, p) = 0
    BY <1>6, NothingPaidYet
  <2> QED BY <1>3, <1>4, <2>1
<1> QED BY <1>3, <1>4, <1>5, <1>6, <1>7, <1>8, <1>9 DEF SupplierBooks

(* Every step of every caller and of the environment.                      *)
LEMMA SupplierStep == ASSUME SupplierBooks, [SupplierNext]_supplierVars PROVE SupplierBooks'
<1>1. ASSUME NEW c \in Callers, Serve(c) PROVE SupplierBooks'
  <2>1. CASE AskInstruction(c) \/ AskAdvance(c) \/ AskReversal(c)
    BY <2>1, SupplierComposes
  <2>2. CASE Abandon(c)
    BY <2>2, SupplierAbandons
  <2>3. CASE SetDefault(c) \/ Archive(c) \/ Restore(c) \/ Revoke(c)
    BY <2>3, SupplierInstructions
  <2>4. CASE LockInvoice(c)
    BY <2>4, SupplierLock
  <2>5. CASE RecordAdvance(c)
    BY <2>5, SupplierRecord
  <2>6. CASE BumpAdvance(c)
    BY <2>6, SupplierBump
  <2>7. CASE RecordReversal(c)
    BY <2>7, SupplierReverse
  <2> QED BY <1>1, <2>1, <2>2, <2>3, <2>4, <2>5, <2>6, <2>7 DEF Serve
<1>2. ASSUME NEW i \in Instructions, CreateInstruction(i) PROVE SupplierBooks'
  BY <1>2, SupplierCreates
<1>3. CASE IssueProforma
  BY <1>3, SupplierIssue
<1>4. CASE IssueCommercial \/ Settle \/ NextDay \/ UNCHANGED supplierVars
  BY <1>4, SupplierPasses
<1> QED BY <1>1, <1>2, <1>3, <1>4 DEF SupplierNext, SupplierQuiescent

(* Whatever is recorded and reversed at once, what is known of the         *)
(* payments, the invoices and the requests in flight holds at every step.  *)
THEOREM SupplierInvariantHolds == SupplierSpec => []SupplierInvariant
<1>1. SupplierInit => SupplierBooks
  BY SupplierStarts
<1>2. SupplierBooks /\ [SupplierNext]_supplierVars => SupplierBooks'
  BY SupplierStep
<1>3. SupplierBooks <=> SupplierInvariant
  BY SupplierRestated
<1> QED BY <1>1, <1>2, <1>3, PTL DEF SupplierSpec

(* No invoice is paid ahead beyond its total, and no payment is taken back *)
(* for more than it was (recordAdvancePayment, reverseAdvancePayment).     *)
THEOREM WithinInvoiceHolds == SupplierSpec => []WithinInvoice
<1>1. SupplierInvariant => WithinInvoice
  BY DEF SupplierInvariant
<1> QED BY <1>1, SupplierInvariantHolds, PTL

(* One step leaves a revoked instruction revoked.                          *)
LEMMA RevokedStep ==
  ASSUME SupplierBooks, [SupplierNext]_supplierVars, NEW i \in Rows,
         instruction[i].status = "revoked"
  PROVE  instruction'[i].status = "revoked"
<1>1. instruction \in [Instructions -> Instruction \cup {None}] /\ i \in Instructions
  BY DEF SupplierBooks, SupplierTypes, Rows
<1>2. instruction[i] # None /\ instruction[i] \in Instruction
  BY <1>1 DEF Rows
<1>3. ASSUME NEW c \in Callers, SetDefault(c) PROVE instruction'[i].status = "revoked"
  <2>1. instruction'[i] = [instruction[i] EXCEPT !.is_default = (i = req[c].on)]
    BY <1>1, <1>3 DEF SetDefault
  <2> QED BY <1>2, <2>1 DEF Instruction
<1>4. ASSUME NEW c \in Callers, Archive(c) \/ Restore(c) \/ Revoke(c)
      PROVE  instruction'[i].status = "revoked"
  <2>1. /\ instruction[req[c].on].status # "revoked"
        /\ \E q : instruction' = [instruction EXCEPT ![req[c].on] = q]
    BY <1>4 DEF Archive, Restore, Revoke, Guarded
  <2>2. instruction'[i] = instruction[i]
    BY <1>1, <2>1
  <2> QED BY <2>2
<1>5. ASSUME NEW j \in Instructions, CreateInstruction(j) PROVE instruction'[i].status = "revoked"
  BY <1>1, <1>2, <1>5 DEF CreateInstruction
<1>6. CASE UNCHANGED instruction
  BY <1>6
<1>7. ASSUME NEW c \in Callers, Serve(c)
      PROVE  \/ UNCHANGED instruction
             \/ SetDefault(c) \/ Archive(c) \/ Restore(c) \/ Revoke(c)
  BY <1>7 DEF Serve, AskInstruction, AskAdvance, AskReversal, Ask, Abandon, LockInvoice,
     RecordAdvance, BumpAdvance, RecordReversal
<1> QED BY <1>3, <1>4, <1>5, <1>6, <1>7 DEF SupplierNext, IssueProforma, IssueCommercial, Settle,
     NextDay, SupplierQuiescent, supplierVars

(* A revoked instruction is never restored, by a request that was composed *)
(* before it was revoked either (restoreSupplierPaymentInstruction).       *)
THEOREM RevokedForGood == SupplierSpec => RevokedStays
<1>1. SupplierBooks /\ [SupplierNext]_supplierVars =>
        [\A i \in Rows : instruction[i].status = "revoked" => instruction'[i].status = "revoked"]_supplierVars
  BY RevokedStep
<1>2. SupplierBooks <=> SupplierInvariant
  BY SupplierRestated
<1> QED BY <1>1, <1>2, SupplierInvariantHolds, PTL DEF SupplierSpec, RevokedStays
=============================================================================
