----------------------------- MODULE BranchStock -----------------------------
(***************************************************************************)
(* The stock of one branch (branch_inventory), its ledger                  *)
(* (inventory_adjustments) and the low-stock alerts, as the transactions   *)
(* of createSale, voidSale, refundSale (src/services/sale.service.ts) and  *)
(* adjustProductStock (src/services/product.service.ts) change them with   *)
(* the helpers of src/lib/stockAlerts.ts. Postgres runs READ COMMITTED: a  *)
(* write takes the row's lock until the transaction ends, a read takes no  *)
(* lock and sees what is committed or what its own transaction wrote.      *)
(* What the sale itself records is left to Sales.                          *)
(***************************************************************************)
EXTENDS NoValue, Integers, Sequences, FiniteSetsExt

CONSTANTS
  Jobs,       \* the requests that move stock
  Products,   \* (product, size) combinations of the branch
  Plans,      \* what a job may be asked to do
  Opening,    \* Opening[p]: the quantity p starts with, or None for no row
  Levels,     \* possible values of min_stock_level; NoLevel when unset
  OpeningLevels,  \* the min_stock_levels the products may start with
  NoLevel,
  MaxEdits,   \* bound on changes of a min_stock_level
  MaxFaults   \* bound on crashes of the server

Kinds == {"sell", "restore", "increase", "decrease"}
Moves == {m \in [product: Products, amount: Nat] : m.amount > 0}

ASSUME StockAssumption ==
  /\ \A plan \in Plans : plan.kind \in Kinds
  /\ \A plan \in Plans : plan.lines \in Seq(Moves) /\ plan.lines # << >>
  /\ \A plan \in Plans : plan.kind \in {"increase", "decrease"} => Len(plan.lines) = 1
  /\ Opening \in [Products -> Nat \cup {None}]
  /\ Levels \subseteq Nat \cup {NoLevel}
  /\ OpeningLevels \subseteq [Products -> Levels]
  /\ NoLevel \notin Nat
  /\ None \notin Nat \cup Jobs
  /\ IsFiniteSet(Products)
  /\ MaxEdits \in Nat
  /\ MaxFaults \in Nat

VARIABLES
  plan,       \* plan[j]: what j was asked to do
  level,      \* level[p]: min_stock_level of the product
  row,        \* row[p]: the committed row of branch_inventory, or None
  lock,       \* lock[p]: the job whose open transaction wrote row p, or None
  pc,         \* pc[j]: how far j is
  seen,       \* seen[j]: the levels j read before its transaction
  line,       \* line[j]: the line of its plan j is at
  snap,       \* snap[j]: the row an adjustment read before writing, or None
  draft,      \* draft[j]: the rows j wrote and has not committed
  entries,    \* entries[j]: the ledger entries j has to insert
  pending,    \* pending[j]: the events j will publish once committed
  ledger,     \* the committed entries of inventory_adjustments, in commit order
  crossed,    \* the committed alert transitions, in commit order
  published,  \* the events published, in order
  edits, faults

vars == <<plan, level, row, lock, pc, seen, line, snap, draft, entries, pending,
          ledger, crossed, published, edits, faults>>
logs  == <<ledger, crossed, published>>

Row == [qty: Nat, alert: BOOLEAN, version: Nat]

ASSUME NoneIsNoRow == None \notin Row

Ended == {"done", "conflict", "aborted", "crashed"}

(* Bug: a restoration walks its lines from the last.                       *)
NowBackward(j) ==
  plan[j].lines[IF plan[j].kind = "restore" THEN Len(plan[j].lines) + 1 - line[j] ELSE line[j]]

(* The line j is at: every loop takes them as the request lists them.      *)
Now(j) == plan[j].lines[line[j]]

Sign(j) == IF plan[j].kind \in {"restore", "increase"} THEN 1 ELSE -1
Direction(j) == IF Sign(j) = 1 THEN "increase" ELSE "decrease"

(* What j's own transaction reads of p.                                    *)
View(j, p) == IF lock[p] = j THEN draft[j][p] ELSE row[p]

(* classifyStockSeverity, as far as the transition needs it: null or not.  *)
IsLow(qty, min) == qty <= min

(* Bug: the debounce is forgotten.                                         *)
TransitionEveryTime(active, low, direction) ==
  IF low THEN (IF direction = "increase" THEN "none" ELSE "entered")
  ELSE IF active THEN "recovered" ELSE "none"

(* evaluateStockAlertTransition                                            *)
Transition(active, low, direction) ==
  IF ~active /\ low THEN (IF direction = "increase" THEN "none" ELSE "entered")
  ELSE IF active /\ ~low THEN "recovered" ELSE "none"

(* The transition applyStockAlertTransition makes; none without a level.   *)
TransitionOf(j, p, active, after) ==
  IF seen[j][p] = NoLevel THEN "none"
  ELSE Transition(active, IsLow(after, seen[j][p]), Direction(j))

(* Bug: the flag is raised and never lowered.                              *)
AlertSticky(active, transition) == active \/ transition = "entered"

AlertAfter(active, transition) ==
  IF transition = "none" THEN active ELSE transition = "entered"

Event(j, p, transition) == [job |-> j, product |-> p, what |-> transition]
EventsOf(j, p, transition) ==
  IF transition = "none" THEN << >> ELSE <<Event(j, p, transition)>>

Entry(j, p, before, after) == [job |-> j, product |-> p, before |-> before, after |-> after]

Goto(j, label) == pc' = [pc EXCEPT ![j] = label]

------------------------------------------------------------------------------
Init ==
  /\ plan \in [Jobs -> Plans]
  /\ level \in OpeningLevels
  /\ row = [p \in Products |-> IF Opening[p] = None THEN None
                               ELSE [qty |-> Opening[p], alert |-> FALSE, version |-> 0]]
  /\ lock = [p \in Products |-> None]
  /\ pc = [j \in Jobs |-> "idle"]
  /\ seen = [j \in Jobs |-> level]
  /\ line = [j \in Jobs |-> 1]
  /\ snap = [j \in Jobs |-> None]
  /\ draft = [j \in Jobs |-> [p \in Products |-> None]]
  /\ entries = [j \in Jobs |-> << >>]
  /\ pending = [j \in Jobs |-> << >>]
  /\ ledger = << >>
  /\ crossed = << >>
  /\ published = << >>
  /\ edits = 0
  /\ faults = 0

(* updateProduct: min_stock_level changes under everyone's feet.           *)
SetLevel(p, m) ==
  /\ edits < MaxEdits
  /\ level[p] # m
  /\ level' = [level EXCEPT ![p] = m]
  /\ edits' = edits + 1
  /\ UNCHANGED <<plan, row, lock, pc, seen, line, snap, draft, entries, pending, logs, faults>>

(* The products are read, min_stock_level with them, before BEGIN.         *)
ReadProducts(j) ==
  /\ pc[j] = "idle"
  /\ Goto(j, "working")
  /\ seen' = [seen EXCEPT ![j] = level]
  /\ UNCHANGED <<plan, level, row, lock, line, snap, draft, entries, pending, logs, edits, faults>>

(* Rollback: nothing j wrote is left, nothing is published.                *)
Rollback(j, label) ==
  /\ Goto(j, label)
  /\ lock' = [p \in Products |-> IF lock[p] = j THEN None ELSE lock[p]]
  /\ draft' = [draft EXCEPT ![j] = [p \in Products |-> None]]
  /\ entries' = [entries EXCEPT ![j] = << >>]
  /\ pending' = [pending EXCEPT ![j] = << >>]
  /\ snap' = [snap EXCEPT ![j] = None]
  /\ line' = [line EXCEPT ![j] = 1]

CanWrite(j, p) == lock[p] \in {None, j}

(* One line of j is written: the row, its alert flag, its ledger entry.    *)
Write(j, p, before, after, version, active) ==
  LET transition == TransitionOf(j, p, active, after) IN
  /\ lock' = [lock EXCEPT ![p] = j]
  /\ draft' = [draft EXCEPT ![j][p] = [qty |-> after, version |-> version,
                                       alert |-> AlertAfter(active, transition)]]
  /\ entries' = [entries EXCEPT ![j] = Append(@, Entry(j, p, before, after))]
  /\ pending' = [pending EXCEPT ![j] = @ \o EventsOf(j, p, transition)]

Step(j) ==
  IF line[j] = Len(plan[j].lines)
    THEN Goto(j, "written") /\ UNCHANGED line
    ELSE Goto(j, "working") /\ line' = [line EXCEPT ![j] = @ + 1]

(* Bug: the ledger entry is made of the row found before the write.        *)
BeforeOfFound(j, p, after) == snap[j].qty

(* quantityAfter plus or minus the line's quantity, of the row read back.  *)
BeforeOf(j, p, after) == after - Sign(j) * Now(j).amount

(* Bug: enough stock is checked against the row found, not in the UPDATE.  *)
EnoughFound(j, p) == plan[j].kind = "sell" => snap[j].qty >= Now(j).amount

(* WHERE quantity >= line.quantity; a restoration has no such condition.   *)
Enough(j, p) == plan[j].kind = "sell" => View(j, p).qty >= Now(j).amount

(* createSale, voidSale, refundSale: findFirst picks the row of a line.    *)
FindRow(j) ==
  LET p == Now(j).product IN
  /\ pc[j] = "working"
  /\ plan[j].kind \in {"sell", "restore"}
  /\ View(j, p) # None
  /\ snap' = [snap EXCEPT ![j] = View(j, p)]
  /\ Goto(j, "found")
  /\ UNCHANGED <<plan, level, row, lock, seen, line, draft, entries, pending, logs, edits, faults>>

(* The UPDATE then waits for the row's lock, decides on the newest row, and*)
(* what it left is read back before anything is derived from it.           *)
MoveLine(j) ==
  LET p == Now(j).product IN
  /\ pc[j] = "found"
  /\ CanWrite(j, p)
  /\ Enough(j, p)
  /\ LET old   == View(j, p)
         after == old.qty + Sign(j) * Now(j).amount
     IN  Write(j, p, BeforeOf(j, p, after), after, old.version + 1, old.alert)
  /\ Step(j)
  /\ snap' = [snap EXCEPT ![j] = None]
  /\ UNCHANGED <<plan, level, row, seen, logs, edits, faults>>

(* Bug: a line that is refused is passed over.                             *)
MoveSkipped(j) ==
  /\ pc[j] = "found"
  /\ CanWrite(j, Now(j).product)
  /\ ~Enough(j, Now(j).product)
  /\ Step(j)
  /\ UNCHANGED <<plan, level, row, lock, seen, snap, draft, entries, pending, logs, edits, faults>>

(* No row to target, or not enough left: the whole transaction is undone.  *)
MoveRefused(j) ==
  LET p == Now(j).product IN
  /\ \/ /\ pc[j] = "working"
        /\ plan[j].kind \in {"sell", "restore"}
        /\ View(j, p) = None
     \/ pc[j] = "found" /\ CanWrite(j, p) /\ ~Enough(j, p)
  /\ Rollback(j, "conflict")
  /\ UNCHANGED <<plan, level, row, seen, logs, edits, faults>>

(* adjustProductStock reads the row first, without a lock.                 *)
AdjustRead(j) ==
  LET p == Now(j).product IN
  /\ pc[j] = "working"
  /\ plan[j].kind \in {"increase", "decrease"}
  /\ snap' = [snap EXCEPT ![j] = row[p]]
  /\ Goto(j, IF row[p] = None THEN "absent" ELSE "read")
  /\ UNCHANGED <<plan, level, row, lock, seen, line, draft, entries, pending, logs, edits, faults>>

Adjusted(j) == snap[j].qty + Sign(j) * Now(j).amount

(* Bug: the version the adjustment read is not compared.                   *)
SameVersionUnchecked(j, p) == TRUE

SameVersion(j, p) == row[p].version = snap[j].version

(* WHERE version = existing.version                                        *)
AdjustWrite(j) ==
  LET p == Now(j).product IN
  /\ pc[j] = "read"
  /\ lock[p] = None
  /\ Adjusted(j) >= 0
  /\ SameVersion(j, p)
  /\ Write(j, p, snap[j].qty, Adjusted(j), row[p].version + 1, snap[j].alert)
  /\ Goto(j, "written")
  /\ UNCHANGED <<plan, level, row, seen, line, snap, logs, edits, faults>>

AdjustRefused(j) ==
  LET p == Now(j).product IN
  /\ pc[j] = "read"
  /\ \/ Adjusted(j) < 0
     \/ lock[p] = None /\ ~SameVersion(j, p)
  /\ Rollback(j, "conflict")
  /\ UNCHANGED <<plan, level, row, seen, logs, edits, faults>>

(* No row was there: an increase creates it, with no alert and no event.   *)
(* The unique index makes a second insert wait and then refuses it.        *)
CreateRow(j) ==
  LET p == Now(j).product IN
  /\ pc[j] = "absent"
  /\ plan[j].kind = "increase"
  /\ lock[p] = None
  /\ row[p] = None
  /\ lock' = [lock EXCEPT ![p] = j]
  /\ draft' = [draft EXCEPT ![j][p] = [qty |-> Now(j).amount, alert |-> FALSE, version |-> 0]]
  /\ entries' = [entries EXCEPT ![j] = Append(@, Entry(j, p, 0, Now(j).amount))]
  /\ Goto(j, "written")
  /\ UNCHANGED <<plan, level, row, seen, line, snap, pending, logs, edits, faults>>

CreateRefused(j) ==
  LET p == Now(j).product IN
  /\ pc[j] = "absent"
  /\ \/ plan[j].kind = "decrease"
     \/ lock[p] = None /\ row[p] # None
  /\ Rollback(j, "conflict")
  /\ UNCHANGED <<plan, level, row, seen, logs, edits, faults>>

(* The ledger entries are inserted and the transaction commits.            *)
Commit(j) ==
  /\ pc[j] = "written"
  /\ Goto(j, "committed")
  /\ row' = [p \in Products |-> IF lock[p] = j THEN draft[j][p] ELSE row[p]]
  /\ lock' = [p \in Products |-> IF lock[p] = j THEN None ELSE lock[p]]
  /\ draft' = [draft EXCEPT ![j] = [p \in Products |-> None]]
  /\ ledger' = ledger \o entries[j]
  /\ crossed' = crossed \o pending[j]
  /\ entries' = [entries EXCEPT ![j] = << >>]
  /\ UNCHANGED <<plan, level, seen, line, snap, pending, published, edits, faults>>

(* Bug: of several transitions only the first is told.                     *)
PublishFirst(j) ==
  /\ pc[j] = "committed"
  /\ published' = published \o (IF pending[j] = << >> THEN << >> ELSE <<Head(pending[j])>>)
  /\ pending' = [pending EXCEPT ![j] = << >>]
  /\ Goto(j, "done")
  /\ UNCHANGED <<plan, level, row, lock, seen, line, snap, draft, entries, ledger, crossed, edits, faults>>

(* domainEvents.publish, after the commit, in the order of the lines.      *)
Publish(j) ==
  /\ pc[j] = "committed"
  /\ published' = published \o pending[j]
  /\ pending' = [pending EXCEPT ![j] = << >>]
  /\ Goto(j, "done")
  /\ UNCHANGED <<plan, level, row, lock, seen, line, snap, draft, entries, ledger, crossed, edits, faults>>

(* j waits for a row another open transaction wrote.                       *)
Waits(j) ==
  /\ pc[j] \in {"found", "read", "absent"}
  /\ ~CanWrite(j, Now(j).product)

(* Each of S waits for another one of S.                                   *)
Circle(S) == \A i \in S : Waits(i) /\ lock[Now(i).product] \in S

(* Postgres aborts a transaction it finds in a circle of waiters.          *)
Deadlocked(j) == \E S \in SUBSET Jobs : j \in S /\ Circle(S)

DeadlockAbort(j) ==
  /\ Deadlocked(j)
  /\ Rollback(j, "aborted")
  /\ UNCHANGED <<plan, level, row, seen, logs, edits, faults>>

(* Any other query of the transaction fails.                               *)
Fail(j) ==
  /\ pc[j] \in {"working", "found", "read", "absent", "written"}
  /\ Rollback(j, "aborted")
  /\ UNCHANGED <<plan, level, row, seen, logs, edits, faults>>

(* The server dies: open transactions roll back, pending events are lost.  *)
Crash ==
  /\ faults < MaxFaults
  /\ \E j \in Jobs : pc[j] \notin Ended \cup {"idle"}
  /\ faults' = faults + 1
  /\ pc' = [j \in Jobs |-> IF pc[j] \in Ended \cup {"idle"} THEN pc[j] ELSE "crashed"]
  /\ lock' = [p \in Products |-> None]
  /\ draft' = [j \in Jobs |-> [p \in Products |-> None]]
  /\ entries' = [j \in Jobs |-> << >>]
  /\ pending' = [j \in Jobs |-> << >>]
  /\ UNCHANGED <<plan, level, row, seen, line, snap, logs, edits>>

Quiescent ==
  /\ \A j \in Jobs : pc[j] \in Ended
  /\ UNCHANGED vars

Work(j) ==
  \/ FindRow(j) \/ MoveLine(j) \/ MoveRefused(j)
  \/ AdjustRead(j) \/ AdjustWrite(j) \/ AdjustRefused(j)
  \/ CreateRow(j) \/ CreateRefused(j)
  \/ Commit(j) \/ Publish(j) \/ DeadlockAbort(j)

Next ==
  \/ \E j \in Jobs : ReadProducts(j) \/ Work(j) \/ Fail(j)
  \/ \E p \in Products, m \in Levels : SetLevel(p, m)
  \/ Crash
  \/ Quiescent

Spec == Init /\ [][Next]_vars

------------------------------------------------------------------------------
TypeOK ==
  /\ plan \in [Jobs -> Plans]
  /\ level \in [Products -> Levels]
  /\ row \in [Products -> Row \cup {None}]
  /\ lock \in [Products -> Jobs \cup {None}]
  /\ pc \in [Jobs -> {"idle", "working", "found", "read", "absent", "written", "committed"} \cup Ended]
  /\ seen \in [Jobs -> [Products -> Levels]]
  /\ line \in [Jobs -> Nat \ {0}]
  /\ snap \in [Jobs -> Row \cup {None}]
  /\ draft \in [Jobs -> [Products -> Row \cup {None}]]

Start == [p \in Products |-> IF Opening[p] = None THEN 0 ELSE Opening[p]]
Quantity == [p \in Products |-> IF row[p] = None THEN 0 ELSE row[p].qty]
Alert == [p \in Products |-> row[p] # None /\ row[p].alert]

(* The last of the first n entries of s that is about p, 0 if none is; the *)
(* quantity it left and the alert it left.                                 *)
Latest(s, p, n) == Max({0} \cup {i \in 1..n : s[i].product = p})
Left(s, p, n, start) ==
  LET i == Latest(s, p, n) IN IF i = 0 THEN start[p] ELSE s[i].after
Raised(s, p, n, start) ==
  LET i == Latest(s, p, n) IN IF i = 0 THEN start[p] ELSE s[i].what = "entered"

(* The entries of s lead, product by product, from the one to the other.   *)
Chained(s, start, end) ==
  /\ \A i \in DOMAIN s : s[i].before = Left(s, s[i].product, i - 1, start)
  /\ \A p \in Products : end[p] = Left(s, p, Len(s), start)

Alternating(s, start, end) ==
  /\ \A i \in DOMAIN s : (s[i].what = "entered") = ~Raised(s, s[i].product, i - 1, start)
  /\ \A p \in Products : end[p] = Raised(s, p, Len(s), start)

(* The ledger tells the whole story: entry after entry, what was there     *)
(* before is what the previous entry left, from the opening quantity to    *)
(* the one in stock. The read-back of sale.service.ts:241-250 is for this. *)
LedgerChained == Chained(ledger, Start, Quantity)

(* A job is in the ledger with all its lines, in their order and with      *)
(* their amounts, or not at all, whichever line was refused or deadlocked. *)
AllOrNothing ==
  \A j \in Jobs :
    LET h == SelectSeq(ledger, LAMBDA e : e.job = j) IN
    \/ /\ h = << >>
       /\ pc[j] \notin {"committed", "done"}
    \/ /\ pc[j] \in {"committed", "done", "crashed"}
       /\ Len(h) = Len(plan[j].lines)
       /\ \A i \in 1..Len(h) :
            /\ h[i].product = plan[j].lines[i].product
            /\ h[i].after - h[i].before = Sign(j) * plan[j].lines[i].amount

(* One StockLow per episode: for each product the alerts go low, recovered,*)
(* low, ... and the flag says which came last (stockAlerts.ts:26-30).      *)
EpisodesAlternate == Alternating(crossed, [p \in Products |-> FALSE], Alert)

(* While nobody edits min_stock_level, an active alert means low stock and *)
(* a sale or a decrease never leaves low stock without its alert.          *)
AlertsTruthful ==
  edits = 0 => \A p \in Products :
    LET i == Latest(ledger, p, Len(ledger)) IN
    row[p] # None =>
      /\ row[p].alert => level[p] # NoLevel /\ IsLow(row[p].qty, level[p])
      /\ (i # 0 /\ ledger[i].after < ledger[i].before
            /\ level[p] # NoLevel /\ IsLow(row[p].qty, level[p])) => row[p].alert

(* Subscribers hear of committed transitions only, and of each one once;   *)
(* of all of them when no crash came between commit and publication.       *)
PublishedOnce ==
  \A e \in [job: Jobs, product: Products, what: {"entered", "recovered"}] :
    LET Count(s) == Len(SelectSeq(s, LAMBDA x : x = e)) IN
    /\ Count(published) <= Count(crossed)
    /\ pc[e.job] = "done" => Count(published) = Count(crossed)

(* Requests that list their products in one order, whatever else they do,  *)
(* never wait for each other in a circle: rows are locked in the order of  *)
(* the lines, once each, and by nothing else, so that only a request that  *)
(* lists two of them the other way round costs another one its work (the   *)
(* loops of createSale, voidSale, refundSale; adjustProductStock).         *)
Rankings == {rank \in [Products -> 1..Cardinality(Products)] : IsInjective(rank)}

InOrder(j, rank) ==
  \A a, b \in DOMAIN plan[j].lines :
    a <= b => rank[plan[j].lines[a].product] <= rank[plan[j].lines[b].product]

CirclesNeedTwoOrders ==
  \A S \in SUBSET Jobs :
    S # {} /\ Circle(S) => ~ \E rank \in Rankings : \A j \in S : InOrder(j, rank)
==============================================================================
