----------------------------- MODULE StockProofs -----------------------------
(***************************************************************************)
(* Proofs about the two modules that keep stock.                           *)
(* BranchStock, for any jobs, products, plans and levels: the ledger is a  *)
(* chain because every transaction adds one: what a job has written of a   *)
(* row, and not committed, starts from the committed row, which its lock   *)
(* keeps as it is, and ends at its draft. The alerts go the same way.      *)
(* PurchaseOrders, for any requests, lines, quantities and amounts: the    *)
(* money is a sum that every payment moves, an issued document is the only *)
(* thing a correction can start from, and a delivery in flight brings      *)
(* something, so that a status of received was earned.                     *)
(***************************************************************************)
EXTENDS BranchStock, PurchaseOrders, SumTheorems

EntryRow == [job : Jobs, product : Products, before : Nat, after : Nat]
EventRow == [job : Jobs, product : Products, what : {"entered", "recovered"}]

(* The states of an open transaction.                                      *)
Open == {"working", "found", "read", "absent", "written"}

LogTypes ==
  /\ entries \in [Jobs -> Seq(EntryRow)]
  /\ pending \in [Jobs -> Seq(EventRow)]
  /\ ledger \in Seq(EntryRow)
  /\ crossed \in Seq(EventRow)

(* A line is at hand, and of the kind that its state is for.               *)
AtLine(j) ==
  /\ line[j] \in 1..Len(plan[j].lines)
  /\ pc[j] = "found" =>
       /\ plan[j].kind \in {"sell", "restore"}
       /\ View(j, Now(j).product) # None

(* A row that was written is drafted, under a version the committed row    *)
(* has not had, by a transaction that is open.                             *)
Drafted(j) ==
  \A p \in Products : lock[p] = j =>
    /\ pc[j] \in Open
    /\ draft[j][p] # None
    /\ row[p] # None => row[p].version < draft[j][p].version

(* A snapshot of the version the row still has is the row.                 *)
Snapped(j) ==
  pc[j] = "read" =>
    LET p == Now(j).product IN
    /\ snap[j] # None /\ row[p] # None
    /\ snap[j].version <= row[p].version
    /\ snap[j].version = row[p].version => snap[j] = row[p]

(* What j would leave if it committed now.                                 *)
DraftedQuantity(j) ==
  [p \in Products |-> IF lock[p] = j THEN draft[j][p].qty ELSE Quantity[p]]
DraftedAlert(j) ==
  [p \in Products |-> IF lock[p] = j THEN draft[j][p].alert ELSE Alert[p]]

(* What j has to enter leads from the committed rows to its drafts.        *)
Entered(j) ==
  /\ \A i \in DOMAIN entries[j] : lock[entries[j][i].product] = j
  /\ Chained(entries[j], Quantity, DraftedQuantity(j))

(* So do the alerts it has to tell, until the commit puts them on record.  *)
Raising(j) ==
  pc[j] # "committed" =>
    /\ \A i \in DOMAIN pending[j] : lock[pending[j][i].product] = j
    /\ Alternating(pending[j], Alert, DraftedAlert(j))

JobOK(j) == AtLine(j) /\ Drafted(j) /\ Snapped(j) /\ Entered(j) /\ Raising(j)

StockInvariant ==
  /\ TypeOK /\ LogTypes
  /\ \A j \in Jobs : JobOK(j)
  /\ LedgerChained
  /\ EpisodesAlternate

------------------------------------------------------------------------------
(* A set of numbers up to n has a greatest one.                            *)
LEMMA GreatestIs ==
  ASSUME NEW n \in Nat, NEW S \in SUBSET (0..n), S # {}
  PROVE  Max(S) \in S /\ \A i \in S : i <= Max(S)
<1>0. PICK T : T = {n - i : i \in S}
  OBVIOUS
<1>1. PICK m \in T : \A y \in T : ~(y < m)
  <2>0. \A i \in S : n - i \in Nat
    OBVIOUS
  <2>1. T \subseteq Nat /\ T # {}
    BY <1>0, <2>0
  <2>2. PICK R : R = {x \in Nat \X Nat : x[1] < x[2]}
    OBVIOUS
  <2>3. IsWellFoundedOn(R, Nat)
    BY <2>2, NatLessThanWellFounded DEF OpToRel
  <2>4. PICK m \in T : \A y \in T : ~(<<y, m>> \in R)
    BY <2>1, <2>3, WFMin
  <2> QED BY <2>1, <2>2, <2>4
<1>2. PICK g \in S : m = n - g
  BY <1>0
<1>3. ASSUME NEW i \in S PROVE i <= g
  <2>1. n - i \in Nat /\ n - g \in Nat /\ i \in Nat /\ g \in Nat
    OBVIOUS
  <2>2. ~(n - i < n - g)
    BY <1>0, <1>1, <1>2, <1>3
  <2> QED BY <2>1, <2>2
<1>4. g \in S /\ \A i \in S : g >= i
  BY <1>3
<1> QED BY <1>4 DEF Max

(* What Latest is, and that nothing else is.                               *)
LEMMA LatestIs ==
  ASSUME NEW s, NEW p, NEW n \in Nat
  PROVE  /\ Latest(s, p, n) \in 0..n
         /\ Latest(s, p, n) # 0 => s[Latest(s, p, n)].product = p
         /\ \A i \in 1..n : s[i].product = p => i <= Latest(s, p, n)
<1> DEFINE T == {0} \cup {i \in 1..n : s[i].product = p}
<1>1. T \in SUBSET (0..n) /\ T # {}
  OBVIOUS
<1>2. Max(T) \in T /\ \A i \in T : i <= Max(T)
  BY <1>1, GreatestIs
<1> QED BY <1>2 DEF Latest

(* What is at such a place, with nothing of p after it, is the latest.       *)
LEMMA LatestOnly ==
  ASSUME NEW s, NEW p, NEW n \in Nat, NEW k \in 0..n,
         k # 0 => s[k].product = p,
         \A i \in 1..n : s[i].product = p => i <= k
  PROVE  Latest(s, p, n) = k
<1>1. PICK l : l = Latest(s, p, n)
  OBVIOUS
<1>2. l \in 0..n /\ (l # 0 => s[l].product = p) /\ \A i \in 1..n : s[i].product = p => i <= l
  BY <1>1, LatestIs
<1> QED BY <1>1, <1>2

(* Of two sequences one after the other.                                   *)
LEMMA LatestOfFirst ==
  ASSUME NEW S, NEW s \in Seq(S), NEW t \in Seq(S), NEW p, NEW n \in 0..Len(s)
  PROVE  Latest(s \o t, p, n) = Latest(s, p, n)
<1>1. PICK l : l = Latest(s, p, n)
  OBVIOUS
<1>2. l \in 0..n /\ (l # 0 => s[l].product = p) /\ \A i \in 1..n : s[i].product = p => i <= l
  BY <1>1, LatestIs
<1>3. PICK u : u = s \o t
  OBVIOUS
<1>4. n \in Nat /\ \A i \in 1..n : u[i] = s[i]
  BY <1>3
<1>5. (l # 0 => u[l].product = p) /\ \A i \in 1..n : u[i].product = p => i <= l
  BY <1>2, <1>4
<1>6. Latest(u, p, n) = l
  BY <1>2, <1>4, <1>5, LatestOnly
<1> QED BY <1>1, <1>3, <1>6

(* The latest of both is that of the second sequence, if it has one, else    *)
(* the latest of the first.                                                  *)
LEMMA LatestOfSecond ==
  ASSUME NEW S, NEW s \in Seq(S), NEW t \in Seq(S), NEW p, NEW m \in 0..Len(t)
  PROVE  Latest(s \o t, p, Len(s) + m) =
           IF Latest(t, p, m) = 0 THEN Latest(s, p, Len(s)) ELSE Len(s) + Latest(t, p, m)
<1>1. PICK k : k = Latest(s, p, Len(s))
  OBVIOUS
<1>2. PICK l : l = Latest(t, p, m)
  OBVIOUS
<1>3. k \in 0..Len(s) /\ (k # 0 => s[k].product = p) /\ \A i \in 1..Len(s) : s[i].product = p => i <= k
  BY <1>1, LatestIs
<1>4. l \in 0..m /\ (l # 0 => t[l].product = p) /\ \A i \in 1..m : t[i].product = p => i <= l
  BY <1>2, LatestIs
<1>5. PICK u : u = s \o t
  OBVIOUS
<1>6. \A i \in 1..(Len(s) + m) : u[i] = IF i <= Len(s) THEN s[i] ELSE t[i - Len(s)]
  BY <1>5
<1>7. PICK g : g = IF l = 0 THEN k ELSE Len(s) + l
  OBVIOUS
<1>8. g \in 0..(Len(s) + m) /\ (g # 0 => u[g].product = p)
  BY <1>3, <1>4, <1>6, <1>7
<1>9. ASSUME NEW i \in 1..(Len(s) + m), u[i].product = p PROVE i <= g
  BY <1>3, <1>4, <1>6, <1>7, <1>9
<1>10. PICK n \in Nat : n = Len(s) + m
  OBVIOUS
<1>11. Latest(u, p, n) = g
  BY <1>8, <1>9, <1>10, LatestOnly
<1> QED BY <1>1, <1>2, <1>5, <1>7, <1>10, <1>11
------------------------------------------------------------------------------
(* What the first of two sequences leaves, the second starts from.         *)
LEMMA LeftInFirst ==
  ASSUME NEW S, NEW s \in Seq(S), NEW t \in Seq(S), NEW p, NEW a, NEW n \in 0..Len(s)
  PROVE  Left(s \o t, p, n, a) = Left(s, p, n, a)
<1>1. Latest(s \o t, p, n) = Latest(s, p, n)
  BY LatestOfFirst
<1>2. PICK l : l = Latest(s, p, n)
  OBVIOUS
<1>3. l \in 0..n /\ (l # 0 => (s \o t)[l] = s[l])
  <2>1. n \in Nat
    OBVIOUS
  <2>2. l \in 0..n
    BY <1>2, <2>1, LatestIs
  <2> QED BY <2>2
<1> QED BY <1>1, <1>2, <1>3 DEF Left

(* In the second sequence, what is left is counted from what the first one   *)
(* left.                                                                     *)
LEMMA LeftInSecond ==
  ASSUME NEW S, NEW s \in Seq(S), NEW t \in Seq(S), NEW p, NEW a, NEW b, NEW m \in 0..Len(t),
         b[p] = Left(s, p, Len(s), a)
  PROVE  Left(s \o t, p, Len(s) + m, a) = Left(t, p, m, b)
<1>1. PICK k : k = Latest(s, p, Len(s))
  OBVIOUS
<1>2. PICK l : l = Latest(t, p, m)
  OBVIOUS
<1>3. Latest(s \o t, p, Len(s) + m) = IF l = 0 THEN k ELSE Len(s) + l
  BY <1>1, <1>2, LatestOfSecond
<1>4. k \in 0..Len(s) /\ l \in 0..m
  <2>1. Len(s) \in Nat /\ m \in Nat
    OBVIOUS
  <2> QED BY <1>1, <1>2, <2>1, LatestIs
<1>5. k # 0 => (s \o t)[k] = s[k]
  BY <1>4
<1>6. l # 0 => Len(s) + l # 0 /\ (s \o t)[Len(s) + l] = t[l]
  BY <1>4
<1>7. l = 0 => Left(s \o t, p, Len(s) + m, a) = Left(s, p, Len(s), a)
  BY <1>1, <1>3, <1>5 DEF Left
<1>8. l = 0 => Left(t, p, m, b) = b[p]
  BY <1>2 DEF Left
<1>9. l # 0 => Left(s \o t, p, Len(s) + m, a) = Left(t, p, m, b)
  BY <1>2, <1>3, <1>6 DEF Left
<1> QED BY <1>7, <1>8, <1>9

(* The same of the alerts: those of the first sequence stand on their own.   *)
LEMMA RaisedInFirst ==
  ASSUME NEW S, NEW s \in Seq(S), NEW t \in Seq(S), NEW p, NEW a, NEW n \in 0..Len(s)
  PROVE  Raised(s \o t, p, n, a) = Raised(s, p, n, a)
<1>1. Latest(s \o t, p, n) = Latest(s, p, n)
  BY LatestOfFirst
<1>2. PICK l : l = Latest(s, p, n)
  OBVIOUS
<1>3. l \in 0..n /\ (l # 0 => (s \o t)[l] = s[l])
  <2>1. n \in Nat
    OBVIOUS
  <2>2. l \in 0..n
    BY <1>2, <2>1, LatestIs
  <2> QED BY <2>2
<1> QED BY <1>1, <1>2, <1>3 DEF Raised

(* In the second sequence an alert goes on from the one the first one left.  *)
LEMMA RaisedInSecond ==
  ASSUME NEW S, NEW s \in Seq(S), NEW t \in Seq(S), NEW p, NEW a, NEW b, NEW m \in 0..Len(t),
         b[p] = Raised(s, p, Len(s), a)
  PROVE  Raised(s \o t, p, Len(s) + m, a) = Raised(t, p, m, b)
<1>1. PICK k : k = Latest(s, p, Len(s))
  OBVIOUS
<1>2. PICK l : l = Latest(t, p, m)
  OBVIOUS
<1>3. Latest(s \o t, p, Len(s) + m) = IF l = 0 THEN k ELSE Len(s) + l
  BY <1>1, <1>2, LatestOfSecond
<1>4. k \in 0..Len(s) /\ l \in 0..m
  <2>1. Len(s) \in Nat /\ m \in Nat
    OBVIOUS
  <2> QED BY <1>1, <1>2, <2>1, LatestIs
<1>5. k # 0 => (s \o t)[k] = s[k]
  BY <1>4
<1>6. l # 0 => Len(s) + l # 0 /\ (s \o t)[Len(s) + l] = t[l]
  BY <1>4
<1>7. l = 0 => Raised(s \o t, p, Len(s) + m, a) = Raised(s, p, Len(s), a)
  BY <1>1, <1>3, <1>5 DEF Raised
<1>8. l = 0 => Raised(t, p, m, b) = b[p]
  BY <1>2 DEF Raised
<1>9. l # 0 => Raised(s \o t, p, Len(s) + m, a) = Raised(t, p, m, b)
  BY <1>2, <1>3, <1>6 DEF Raised
<1> QED BY <1>7, <1>8, <1>9

(* What leads from a to b and then from b to c leads from a to c.          *)
LEMMA ChainsJoin ==
  ASSUME NEW s \in Seq(EntryRow), NEW t \in Seq(EntryRow), NEW a, NEW b, NEW c,
         Chained(s, a, b), Chained(t, b, c)
  PROVE  Chained(s \o t, a, c)
<1>1. PICK u : u = s \o t
  OBVIOUS
<1>2. u \in Seq(EntryRow) /\ Len(u) = Len(s) + Len(t) /\ DOMAIN u = 1..(Len(s) + Len(t))
  BY <1>1
<1>3. ASSUME NEW i \in 1..Len(s)
      PROVE  u[i].before = Left(u, u[i].product, i - 1, a)
  <2>1. PICK n : n = i - 1
    OBVIOUS
  <2>2. PICK p : p = s[i].product
    OBVIOUS
  <2>3. n \in 0..Len(s) /\ i \in DOMAIN s /\ u[i] = s[i]
    BY <1>1, <2>1
  <2>4. Left(u, p, n, a) = Left(s, p, n, a)
    BY <1>1, <2>3, LeftInFirst
  <2>5. s[i].before = Left(s, s[i].product, i - 1, a)
    BY <2>3 DEF Chained
  <2> QED BY <2>1, <2>2, <2>3, <2>4, <2>5
<1>4. ASSUME NEW m \in 1..Len(t), NEW i, i = Len(s) + m
      PROVE  u[i].before = Left(u, u[i].product, i - 1, a)
  <2>1. PICK n : n = m - 1
    OBVIOUS
  <2>2. PICK p : p = t[m].product
    OBVIOUS
  <2>3. n \in 0..Len(t) /\ m \in DOMAIN t /\ u[i] = t[m] /\ i - 1 = Len(s) + n
    BY <1>1, <1>4, <2>1
  <2>4. p \in Products
    <3>1. t[m] \in EntryRow
      BY <2>3
    <3> QED BY <2>2, <3>1 DEF EntryRow
  <2>5. b[p] = Left(s, p, Len(s), a)
    BY <2>4 DEF Chained
  <2>6. Left(u, p, Len(s) + n, a) = Left(t, p, n, b)
    BY <1>1, <2>3, <2>5, LeftInSecond
  <2>7. t[m].before = Left(t, t[m].product, m - 1, b)
    BY <2>3 DEF Chained
  <2> QED BY <2>1, <2>2, <2>3, <2>6, <2>7
<1>5. ASSUME NEW i \in DOMAIN u PROVE u[i].before = Left(u, u[i].product, i - 1, a)
  <2>1. CASE i \in 1..Len(s)
    BY <1>3, <2>1
  <2>2. CASE i \notin 1..Len(s)
    <3>1. PICK m \in 1..Len(t) : i = Len(s) + m
      <4>1. i - Len(s) \in 1..Len(t) /\ i = Len(s) + (i - Len(s))
        BY <1>2, <2>2
      <4> QED BY <4>1
    <3> QED BY <1>4, <3>1
  <2> QED BY <2>1, <2>2
<1>6. ASSUME NEW p \in Products PROVE c[p] = Left(u, p, Len(u), a)
  <2>1. PICK n : n = Len(t)
    OBVIOUS
  <2>2. n \in 0..Len(t) /\ Len(u) = Len(s) + n
    BY <1>2, <2>1
  <2>3. b[p] = Left(s, p, Len(s), a) /\ c[p] = Left(t, p, n, b)
    BY <2>1 DEF Chained
  <2>4. Left(u, p, Len(s) + n, a) = Left(t, p, n, b)
    BY <1>1, <2>2, <2>3, LeftInSecond
  <2> QED BY <2>2, <2>3, <2>4
<1>7. Chained(u, a, c)
  BY <1>5, <1>6 DEF Chained
<1> QED BY <1>1, <1>7

(* A chain goes on to lead from start to end when both change only in what *)
(* it does not touch.                                                      *)
LEMMA ChainElsewhere ==
  ASSUME NEW s \in Seq(EntryRow), NEW a, NEW b, NEW c, NEW d, Chained(s, a, b),
         \A i \in DOMAIN s : c[s[i].product] = a[s[i].product],
         \A p \in Products : (c[p] = a[p] /\ d[p] = b[p])
                             \/ ((\A i \in DOMAIN s : s[i].product # p) /\ d[p] = c[p])
  PROVE  Chained(s, c, d)
<1>1. ASSUME NEW p, NEW n \in 0..Len(s), c[p] = a[p]
      PROVE  Left(s, p, n, c) = Left(s, p, n, a)
  BY <1>1 DEF Left
<1>2. ASSUME NEW i \in DOMAIN s PROVE s[i].before = Left(s, s[i].product, i - 1, c)
  <2>1. PICK p : p = s[i].product
    OBVIOUS
  <2>2. PICK n : n = i - 1
    OBVIOUS
  <2>3. n \in 0..Len(s) /\ c[p] = a[p]
    BY <2>1, <2>2
  <2>4. Left(s, p, n, c) = Left(s, p, n, a)
    BY <1>1, <2>3
  <2>5. s[i].before = Left(s, s[i].product, i - 1, a)
    BY DEF Chained
  <2> QED BY <2>1, <2>2, <2>4, <2>5
<1>3. ASSUME NEW p \in Products PROVE d[p] = Left(s, p, Len(s), c)
  <2>1. CASE c[p] = a[p] /\ d[p] = b[p]
    <3>1. Left(s, p, Len(s), c) = Left(s, p, Len(s), a)
      BY <1>1, <2>1
    <3>2. b[p] = Left(s, p, Len(s), a)
      BY DEF Chained
    <3> QED BY <2>1, <3>1, <3>2
  <2>2. CASE (\A i \in DOMAIN s : s[i].product # p) /\ d[p] = c[p]
    <3>1. PICK l : l = Latest(s, p, Len(s))
      OBVIOUS
    <3>2. l \in 0..Len(s) /\ (l # 0 => s[l].product = p)
      BY <3>1, LatestIs
    <3>3. l = 0
      BY <2>2, <3>2
    <3> QED BY <2>2, <3>1, <3>3 DEF Left
  <2> QED BY <2>1, <2>2
<1> QED BY <1>2, <1>3 DEF Chained

(* One entry leads from what it found to what it left.                       *)
LEMMA ChainOfOne ==
  ASSUME NEW e \in EntryRow, NEW a, NEW b, e.before = a[e.product],
         \A p \in Products : b[p] = IF p = e.product THEN e.after ELSE a[p]
  PROVE  Chained(<<e>>, a, b)
<1>1. PICK u : u = <<e>>
  OBVIOUS
<1>2. u \in Seq(EntryRow) /\ Len(u) = 1 /\ DOMAIN u = {1} /\ u[1] = e
  BY <1>1
<1>3. Latest(u, e.product, 0) = 0
  BY LatestOnly
<1>4. u[1].before = Left(u, u[1].product, 1 - 1, a)
  BY <1>2, <1>3 DEF Left
<1>5. ASSUME NEW p \in Products PROVE b[p] = Left(u, p, Len(u), a)
  <2>1. PICK l : l = Latest(u, p, 1)
    OBVIOUS
  <2>2. l \in 0..1 /\ (l # 0 => u[l].product = p) /\ \A i \in 1..1 : u[i].product = p => i <= l
    BY <2>1, LatestIs
  <2>3. CASE p = e.product
    <3>1. l = 1
      BY <1>2, <2>2, <2>3
    <3> QED BY <1>2, <2>1, <2>3, <3>1 DEF Left
  <2>4. CASE p # e.product
    <3>1. l = 0
      BY <1>2, <2>2, <2>4
    <3> QED BY <1>2, <2>1, <2>4, <3>1 DEF Left
  <2> QED BY <2>3, <2>4
<1>6. Chained(u, a, b)
  BY <1>2, <1>4, <1>5 DEF Chained
<1> QED BY <1>1, <1>6

(* No entry leads from a to a.                                               *)
LEMMA ChainOfNone ==
  ASSUME NEW a, NEW b, \A p \in Products : b[p] = a[p]
  PROVE  Chained(<<>>, a, b)
<1>1. ASSUME NEW p \in Products PROVE b[p] = Left(<<>>, p, Len(<<>>), a)
  <2>1. Len(<<>>) = 0
    OBVIOUS
  <2>2. Latest(<<>>, p, 0) = 0
    BY LatestOnly
  <2> QED BY <2>1, <2>2 DEF Left
<1> QED BY <1>1 DEF Chained

(* What leads from a to b and then from b to c leads from a to c.          *)
LEMMA AlternationsJoin ==
  ASSUME NEW s \in Seq(EventRow), NEW t \in Seq(EventRow), NEW a, NEW b, NEW c,
         Alternating(s, a, b), Alternating(t, b, c)
  PROVE  Alternating(s \o t, a, c)
<1>1. PICK u : u = s \o t
  OBVIOUS
<1>2. u \in Seq(EventRow) /\ Len(u) = Len(s) + Len(t) /\ DOMAIN u = 1..(Len(s) + Len(t))
  BY <1>1
<1>3. ASSUME NEW i \in 1..Len(s)
      PROVE  (u[i].what = "entered") = ~Raised(u, u[i].product, i - 1, a)
  <2>1. PICK n : n = i - 1
    OBVIOUS
  <2>2. PICK p : p = s[i].product
    OBVIOUS
  <2>3. n \in 0..Len(s) /\ i \in DOMAIN s /\ u[i] = s[i]
    BY <1>1, <2>1
  <2>4. Raised(u, p, n, a) = Raised(s, p, n, a)
    BY <1>1, <2>3, RaisedInFirst
  <2>5. (s[i].what = "entered") = ~Raised(s, s[i].product, i - 1, a)
    BY <2>3 DEF Alternating
  <2> QED BY <2>1, <2>2, <2>3, <2>4, <2>5
<1>4. ASSUME NEW m \in 1..Len(t), NEW i, i = Len(s) + m
      PROVE  (u[i].what = "entered") = ~Raised(u, u[i].product, i - 1, a)
  <2>1. PICK n : n = m - 1
    OBVIOUS
  <2>2. PICK p : p = t[m].product
    OBVIOUS
  <2>3. n \in 0..Len(t) /\ m \in DOMAIN t /\ u[i] = t[m] /\ i - 1 = Len(s) + n
    BY <1>1, <1>4, <2>1
  <2>4. p \in Products
    <3>1. t[m] \in EventRow
      BY <2>3
    <3> QED BY <2>2, <3>1 DEF EventRow
  <2>5. b[p] = Raised(s, p, Len(s), a)
    BY <2>4 DEF Alternating
  <2>6. Raised(u, p, Len(s) + n, a) = Raised(t, p, n, b)
    BY <1>1, <2>3, <2>5, RaisedInSecond
  <2>7. (t[m].what = "entered") = ~Raised(t, t[m].product, m - 1, b)
    BY <2>3 DEF Alternating
  <2> QED BY <2>1, <2>2, <2>3, <2>6, <2>7
<1>5. ASSUME NEW i \in DOMAIN u PROVE (u[i].what = "entered") = ~Raised(u, u[i].product, i - 1, a)
  <2>1. CASE i \in 1..Len(s)
    BY <1>3, <2>1
  <2>2. CASE i \notin 1..Len(s)
    <3>1. PICK m \in 1..Len(t) : i = Len(s) + m
      <4>1. i - Len(s) \in 1..Len(t) /\ i = Len(s) + (i - Len(s))
        BY <1>2, <2>2
      <4> QED BY <4>1
    <3> QED BY <1>4, <3>1
  <2> QED BY <2>1, <2>2
<1>6. ASSUME NEW p \in Products PROVE c[p] = Raised(u, p, Len(u), a)
  <2>1. PICK n : n = Len(t)
    OBVIOUS
  <2>2. n \in 0..Len(t) /\ Len(u) = Len(s) + n
    BY <1>2, <2>1
  <2>3. b[p] = Raised(s, p, Len(s), a) /\ c[p] = Raised(t, p, n, b)
    BY <2>1 DEF Alternating
  <2>4. Raised(u, p, Len(s) + n, a) = Raised(t, p, n, b)
    BY <1>1, <2>2, <2>3, RaisedInSecond
  <2> QED BY <2>2, <2>3, <2>4
<1>7. Alternating(u, a, c)
  BY <1>5, <1>6 DEF Alternating
<1> QED BY <1>1, <1>7

(* A run of alerts goes on to lead from start to end when both change only   *)
(* in what it does not touch.                                                *)
LEMMA AlternationElsewhere ==
  ASSUME NEW s \in Seq(EventRow), NEW a, NEW b, NEW c, NEW d, Alternating(s, a, b),
         \A i \in DOMAIN s : c[s[i].product] = a[s[i].product],
         \A p \in Products : (c[p] = a[p] /\ d[p] = b[p])
                             \/ ((\A i \in DOMAIN s : s[i].product # p) /\ d[p] = c[p])
  PROVE  Alternating(s, c, d)
<1>1. ASSUME NEW p, NEW n \in 0..Len(s), c[p] = a[p]
      PROVE  Raised(s, p, n, c) = Raised(s, p, n, a)
  BY <1>1 DEF Raised
<1>2. ASSUME NEW i \in DOMAIN s PROVE (s[i].what = "entered") = ~Raised(s, s[i].product, i - 1, c)
  <2>1. PICK p : p = s[i].product
    OBVIOUS
  <2>2. PICK n : n = i - 1
    OBVIOUS
  <2>3. n \in 0..Len(s) /\ c[p] = a[p]
    BY <2>1, <2>2
  <2>4. Raised(s, p, n, c) = Raised(s, p, n, a)
    BY <1>1, <2>3
  <2>5. (s[i].what = "entered") = ~Raised(s, s[i].product, i - 1, a)
    BY DEF Alternating
  <2> QED BY <2>1, <2>2, <2>4, <2>5
<1>3. ASSUME NEW p \in Products PROVE d[p] = Raised(s, p, Len(s), c)
  <2>1. CASE c[p] = a[p] /\ d[p] = b[p]
    <3>1. Raised(s, p, Len(s), c) = Raised(s, p, Len(s), a)
      BY <1>1, <2>1
    <3>2. b[p] = Raised(s, p, Len(s), a)
      BY DEF Alternating
    <3> QED BY <2>1, <3>1, <3>2
  <2>2. CASE (\A i \in DOMAIN s : s[i].product # p) /\ d[p] = c[p]
    <3>1. PICK l : l = Latest(s, p, Len(s))
      OBVIOUS
    <3>2. l \in 0..Len(s) /\ (l # 0 => s[l].product = p)
      BY <3>1, LatestIs
    <3>3. l = 0
      BY <2>2, <3>2
    <3> QED BY <2>2, <3>1, <3>3 DEF Raised
  <2> QED BY <2>1, <2>2
<1> QED BY <1>2, <1>3 DEF Alternating

(* One event leads from the alert it turned to the alert it left.            *)
LEMMA AlternationOfOne ==
  ASSUME NEW e \in EventRow, NEW a, NEW b, (e.what = "entered") = ~a[e.product],
         \A p \in Products : b[p] = IF p = e.product THEN (e.what = "entered") ELSE a[p]
  PROVE  Alternating(<<e>>, a, b)
<1>1. PICK u : u = <<e>>
  OBVIOUS
<1>2. u \in Seq(EventRow) /\ Len(u) = 1 /\ DOMAIN u = {1} /\ u[1] = e
  BY <1>1
<1>3. Latest(u, e.product, 0) = 0
  BY LatestOnly
<1>4. (u[1].what = "entered") = ~Raised(u, u[1].product, 1 - 1, a)
  BY <1>2, <1>3 DEF Raised
<1>5. ASSUME NEW p \in Products PROVE b[p] = Raised(u, p, Len(u), a)
  <2>1. PICK l : l = Latest(u, p, 1)
    OBVIOUS
  <2>2. l \in 0..1 /\ (l # 0 => u[l].product = p) /\ \A i \in 1..1 : u[i].product = p => i <= l
    BY <2>1, LatestIs
  <2>3. CASE p = e.product
    <3>1. l = 1
      BY <1>2, <2>2, <2>3
    <3> QED BY <1>2, <2>1, <2>3, <3>1 DEF Raised
  <2>4. CASE p # e.product
    <3>1. l = 0
      BY <1>2, <2>2, <2>4
    <3> QED BY <1>2, <2>1, <2>4, <3>1 DEF Raised
  <2> QED BY <2>3, <2>4
<1>6. Alternating(u, a, b)
  BY <1>2, <1>4, <1>5 DEF Alternating
<1> QED BY <1>1, <1>6

(* No event leads from a to a.                                               *)
LEMMA AlternationOfNone ==
  ASSUME NEW a, NEW b, \A p \in Products : b[p] = a[p]
  PROVE  Alternating(<<>>, a, b)
<1>1. ASSUME NEW p \in Products PROVE b[p] = Raised(<<>>, p, Len(<<>>), a)
  <2>1. Len(<<>>) = 0
    OBVIOUS
  <2>2. Latest(<<>>, p, 0) = 0
    BY LatestOnly
  <2> QED BY <2>1, <2>2 DEF Raised
<1> QED BY <1>1 DEF Alternating
------------------------------------------------------------------------------
(* A plan has a line at each of its places.                                *)
LEMMA LinesAreMoves ==
  ASSUME TypeOK, NEW j \in Jobs, AtLine(j)
  PROVE  /\ plan[j].kind \in Kinds
         /\ Now(j).product \in Products /\ Now(j).amount \in Nat \ {0}
<1>1. PICK x \in Plans : x = plan[j]
  BY DEF TypeOK
<1>2. x.kind \in Kinds /\ x.lines \in Seq(Moves)
  BY StockAssumption
<1>3. PICK l \in 1..Len(x.lines) : l = line[j]
  BY <1>1 DEF AtLine
<1>4. x.lines[l] \in Moves
  BY <1>2
<1> QED BY <1>1, <1>2, <1>3, <1>4 DEF Now, Moves

(* A job that nobody touches, while the rows stay, is as right as before.  *)
LEMMA UntouchedKeeps ==
  ASSUME TypeOK, LogTypes, NEW k \in Jobs, JobOK(k), row' = row, plan' = plan,
         pc'[k] = pc[k], line'[k] = line[k], snap'[k] = snap[k], draft'[k] = draft[k],
         entries'[k] = entries[k], pending'[k] = pending[k],
         \A p \in Products : (lock'[p] = k) = (lock[p] = k)
  PROVE  JobOK(k)'
<1>1. Now(k)' = Now(k) /\ \A p \in Products : View(k, p)' = View(k, p)
  BY DEF Now, View
<1>2. Quantity' = Quantity /\ Alert' = Alert
  BY DEF Quantity, Alert
<1>3. DraftedQuantity(k)' = DraftedQuantity(k) /\ DraftedAlert(k)' = DraftedAlert(k)
  BY <1>2 DEF DraftedQuantity, DraftedAlert
<1>4. Now(k).product \in Products
  BY LinesAreMoves DEF JobOK
<1>5. AtLine(k)'
  BY <1>1, <1>4 DEF JobOK, AtLine
<1>6. Drafted(k)'
  BY DEF JobOK, Drafted
<1>7. Snapped(k)'
  BY <1>1 DEF JobOK, Snapped
<1>8. Entered(k)'
  <2>1. entries[k] \in Seq(EntryRow)
    BY DEF LogTypes
  <2>2. \A i \in DOMAIN entries[k] : entries[k][i].product \in Products
    <3> SUFFICES ASSUME NEW i \in DOMAIN entries[k] PROVE entries[k][i].product \in Products
      OBVIOUS
    <3>1. entries[k][i] \in EntryRow
      BY <2>1
    <3> QED BY <3>1 DEF EntryRow
  <2> QED BY <1>2, <1>3, <2>2 DEF JobOK, Entered
<1>9. Raising(k)'
  <2>1. pending[k] \in Seq(EventRow)
    BY DEF LogTypes
  <2>2. \A i \in DOMAIN pending[k] : pending[k][i].product \in Products
    <3> SUFFICES ASSUME NEW i \in DOMAIN pending[k] PROVE pending[k][i].product \in Products
      OBVIOUS
    <3>1. pending[k][i] \in EventRow
      BY <2>1
    <3> QED BY <3>1 DEF EventRow
  <2> QED BY <1>2, <1>3, <2>2 DEF JobOK, Raising
<1> QED BY <1>5, <1>6, <1>7, <1>8, <1>9 DEF JobOK

(* The logs explain rows that stay.                                        *)
LEMMA LogsStand ==
  ASSUME LedgerChained, EpisodesAlternate, row' = row, ledger' = ledger, crossed' = crossed
  PROVE  LedgerChained' /\ EpisodesAlternate'
<1>1. Quantity' = Quantity /\ Alert' = Alert
  BY DEF Quantity, Alert
<1> QED BY <1>1 DEF LedgerChained, EpisodesAlternate

(* Every job is at its first line, every log is empty.                     *)
LEMMA InvariantInit == Init => StockInvariant
<1> SUFFICES ASSUME Init PROVE StockInvariant
  OBVIOUS
<1>1. TypeOK
  <2>1. row \in [Products -> Row \cup {None}]
    BY StockAssumption DEF Init, Row
  <2>2. level \in [Products -> Levels]
    BY StockAssumption DEF Init
  <2> QED BY <2>1, <2>2 DEF Init, TypeOK
<1>2. LogTypes
  BY DEF Init, LogTypes
<1>3. ASSUME NEW p \in Products PROVE Quantity[p] = Start[p] /\ Alert[p] = FALSE
  <2>1. CASE Opening[p] = None
    <3>1. row[p] = None
      BY <2>1 DEF Init
    <3> QED BY <2>1, <3>1 DEF Quantity, Start, Alert
  <2>2. CASE Opening[p] # None
    <3>1. PICK r : r = [qty |-> Opening[p], alert |-> FALSE, version |-> 0]
      OBVIOUS
    <3>2. row[p] = r /\ r \in Row /\ r.qty = Opening[p] /\ r.alert = FALSE
      BY <2>2, <3>1, StockAssumption DEF Init, Row
    <3> QED BY <2>2, <3>2, NoneIsNoRow DEF Quantity, Start, Alert
  <2> QED BY <2>1, <2>2
<1>4. LedgerChained /\ EpisodesAlternate
  <2>1. Chained(<<>>, Start, Quantity)
    BY <1>3, ChainOfNone
  <2>2. PICK a : a = [p \in Products |-> FALSE]
    OBVIOUS
  <2>3. Alternating(<<>>, a, Alert)
    BY <1>3, <2>2, AlternationOfNone
  <2> QED BY <2>1, <2>2, <2>3 DEF Init, LedgerChained, EpisodesAlternate
<1>5. ASSUME NEW j \in Jobs PROVE JobOK(j)
  <2>1. line[j] \in 1..Len(plan[j].lines)
    <3>1. PICK x \in Plans : x = plan[j]
      BY DEF Init
    <3>2. x.lines \in Seq(Moves) /\ x.lines # <<>>
      BY StockAssumption
    <3>3. Len(x.lines) \in Nat /\ Len(x.lines) # 0
      BY <3>2
    <3> QED BY <3>1, <3>3 DEF Init
  <2>2. \A p \in Products : lock[p] # j
    BY StockAssumption DEF Init
  <2>3. pc[j] = "idle" /\ entries[j] = <<>> /\ pending[j] = <<>>
    BY DEF Init
  <2>4. \A p \in Products : DraftedQuantity(j)[p] = Quantity[p] /\ DraftedAlert(j)[p] = Alert[p]
    BY <2>2 DEF DraftedQuantity, DraftedAlert
  <2>5. Chained(<<>>, Quantity, DraftedQuantity(j)) /\ Alternating(<<>>, Alert, DraftedAlert(j))
    BY <2>4, ChainOfNone, AlternationOfNone
  <2> QED BY <2>1, <2>2, <2>3, <2>5 DEF JobOK, AtLine, Drafted, Snapped, Entered, Raising
<1> QED BY <1>1, <1>2, <1>4, <1>5 DEF StockInvariant

(* A job that is left with no row locked and nothing to enter, nor to tell *)
(* before a commit, is right.                                              *)
LEMMA RestIsRight ==
  ASSUME NEW j \in Jobs, line'[j] \in 1..Len(plan'[j].lines), pc'[j] \notin {"found", "read"},
         \A p \in Products : lock'[p] # j,
         entries'[j] = <<>>, pending'[j] = <<>> \/ pc'[j] = "committed"
  PROVE  JobOK(j)'
<1>1. \A p \in Products : /\ DraftedQuantity(j)'[p] = Quantity'[p]
                          /\ DraftedAlert(j)'[p] = Alert'[p]
  BY DEF DraftedQuantity, DraftedAlert
<1>2. PICK a, b, c, d : /\ a = Quantity' /\ b = DraftedQuantity(j)'
                        /\ c = Alert' /\ d = DraftedAlert(j)'
  OBVIOUS
<1>3. Chained(<<>>, a, b) /\ Alternating(<<>>, c, d)
  BY <1>1, <1>2, ChainOfNone, AlternationOfNone
<1>4. AtLine(j)' /\ Drafted(j)' /\ Snapped(j)'
  BY DEF AtLine, Drafted, Snapped
<1>5. Entered(j)'
  BY <1>2, <1>3 DEF Entered
<1>6. Raising(j)'
  BY <1>2, <1>3 DEF Raising
<1> QED BY <1>4, <1>5, <1>6 DEF JobOK
------------------------------------------------------------------------------
(* What a rollback needs and leaves: the rows stay, j holds none of them   *)
(* and has nothing to enter.                                               *)
LEMMA RollbackKeeps ==
  ASSUME StockInvariant, NEW j \in Jobs, NEW label \in Ended, Rollback(j, label),
         UNCHANGED <<plan, level, row, seen, logs, edits, faults>>
  PROVE  StockInvariant'
<1> USE DEF StockInvariant
<1>1. /\ pc' = [pc EXCEPT ![j] = label]
      /\ lock' = [p \in Products |-> IF lock[p] = j THEN None ELSE lock[p]]
      /\ draft' = [draft EXCEPT ![j] = [p \in Products |-> None]]
      /\ entries' = [entries EXCEPT ![j] = <<>>]
      /\ pending' = [pending EXCEPT ![j] = <<>>]
      /\ snap' = [snap EXCEPT ![j] = None]
      /\ line' = [line EXCEPT ![j] = 1]
  BY DEF Rollback, Goto
<1>2. j # None
  BY StockAssumption
<1>3. TypeOK'
  BY <1>1 DEF TypeOK
<1>4. LogTypes'
  BY <1>1 DEF LogTypes, logs
<1>5. ASSUME NEW k \in Jobs \ {j} PROVE JobOK(k)'
  <2>1. \A p \in Products : (lock'[p] = k) = (lock[p] = k)
    BY <1>1, StockAssumption
  <2>2. /\ pc'[k] = pc[k] /\ line'[k] = line[k] /\ snap'[k] = snap[k] /\ draft'[k] = draft[k]
        /\ entries'[k] = entries[k] /\ pending'[k] = pending[k]
    BY <1>1 DEF TypeOK, LogTypes
  <2>3. TypeOK /\ LogTypes /\ JobOK(k) /\ row' = row /\ plan' = plan
    OBVIOUS
  <2> QED BY <2>1, <2>2, <2>3, UntouchedKeeps
<1>6. JobOK(j)'
  <2>1. line'[j] \in 1..Len(plan'[j].lines)
    BY <1>1 DEF TypeOK, JobOK, AtLine
  <2>2. pc'[j] \notin {"found", "read"}
    BY <1>1 DEF TypeOK, Ended
  <2>3. \A p \in Products : lock'[p] # j
    BY <1>1, <1>2
  <2>4. entries'[j] = <<>> /\ pending'[j] = <<>>
    BY <1>1 DEF LogTypes
  <2> QED BY <2>1, <2>2, <2>3, <2>4, RestIsRight
<1>7. LedgerChained' /\ EpisodesAlternate'
  BY LogsStand DEF logs
<1> QED BY <1>3, <1>4, <1>5, <1>6, <1>7

(* The steps that undo a transaction.                                      *)
LEMMA UndoingKeeps ==
  ASSUME StockInvariant, NEW j \in Jobs,
         MoveRefused(j) \/ AdjustRefused(j) \/ CreateRefused(j) \/ DeadlockAbort(j) \/ Fail(j)
  PROVE  StockInvariant'
<1>1. PICK label \in {"conflict", "aborted"} :
        Rollback(j, label) /\ UNCHANGED <<plan, level, row, seen, logs, edits, faults>>
  BY DEF MoveRefused, AdjustRefused, CreateRefused, DeadlockAbort, Fail
<1>2. label \in Ended
  BY DEF Ended
<1> QED BY <1>1, <1>2, RollbackKeeps

(* The steps that only read, and the edit of a level: nothing is written.  *)
LEMMA ReadingKeeps ==
  ASSUME StockInvariant, NEW j \in Jobs, ReadProducts(j) \/ FindRow(j) \/ AdjustRead(j)
  PROVE  StockInvariant'
<1> USE DEF StockInvariant
<1>1. UNCHANGED <<plan, level, row, lock, line, draft, entries, pending, logs, edits, faults>>
  BY DEF ReadProducts, FindRow, AdjustRead
<1>2. /\ pc[j] \in {"idle", "working"}
      /\ pc' = [pc EXCEPT ![j] = pc'[j]] /\ snap' = [snap EXCEPT ![j] = snap'[j]]
      /\ pc'[j] \in {"working", "found", "read", "absent"}
      /\ snap'[j] \in Row \cup {None}
      /\ seen' \in [Jobs -> [Products -> Levels]]
  <2>1. JobOK(j) /\ TypeOK
    OBVIOUS
  <2>2. Now(j).product \in Products
    BY <2>1, LinesAreMoves DEF JobOK
  <2>3. CASE ReadProducts(j)
    BY <2>3 DEF ReadProducts, Goto, TypeOK
  <2>4. CASE FindRow(j)
    <3>1. View(j, Now(j).product) \in Row \cup {None}
      BY <2>2 DEF View, TypeOK
    <3> QED BY <2>4, <3>1 DEF FindRow, Goto, TypeOK
  <2>5. CASE AdjustRead(j)
    BY <2>2, <2>5 DEF AdjustRead, Goto, TypeOK
  <2> QED BY <2>3, <2>4, <2>5
<1>3. TypeOK'
  BY <1>1, <1>2 DEF TypeOK
<1>4. LogTypes'
  BY <1>1 DEF LogTypes, logs
<1>5. ASSUME NEW k \in Jobs \ {j} PROVE JobOK(k)'
  <2>1. pc'[k] = pc[k] /\ snap'[k] = snap[k]
    BY <1>2 DEF TypeOK
  <2> QED BY <1>1, <2>1, UntouchedKeeps
<1>6. JobOK(j)'
  <2>1. Now(j)' = Now(j) /\ \A p \in Products : View(j, p)' = View(j, p)
    BY <1>1 DEF Now, View
  <2>2. Now(j).product \in Products
    BY LinesAreMoves DEF JobOK
  <2>3. AtLine(j)'
    <3>1. pc'[j] = "found" => /\ plan[j].kind \in {"sell", "restore"}
                              /\ View(j, Now(j).product) # None
      BY <1>2 DEF ReadProducts, FindRow, AdjustRead, Goto, TypeOK
    <3> QED BY <1>1, <2>1, <2>2, <3>1 DEF AtLine, JobOK
  <2>4. Drafted(j)'
    BY <1>1, <1>2 DEF Drafted, JobOK, Open
  <2>5. Snapped(j)'
    <3>1. pc'[j] = "read" => snap'[j] = row[Now(j).product] /\ row[Now(j).product] # None
      BY DEF ReadProducts, FindRow, AdjustRead, Goto, TypeOK
    <3>2. row[Now(j).product] # None => row[Now(j).product].version \in Nat
      BY <2>2 DEF TypeOK, Row
    <3> QED BY <1>1, <2>1, <3>1, <3>2 DEF Snapped
  <2>6. Quantity' = Quantity /\ Alert' = Alert
    BY <1>1 DEF Quantity, Alert
  <2>7. DraftedQuantity(j)' = DraftedQuantity(j) /\ DraftedAlert(j)' = DraftedAlert(j)
    BY <1>1, <2>6 DEF DraftedQuantity, DraftedAlert
  <2>8. Entered(j)'
    BY <1>1, <2>6, <2>7 DEF Entered, JobOK
  <2>9. Raising(j)'
    BY <1>1, <1>2, <2>6, <2>7 DEF Raising, JobOK
  <2> QED BY <2>3, <2>4, <2>5, <2>8, <2>9 DEF JobOK
<1>7. LedgerChained' /\ EpisodesAlternate'
  BY <1>1, LogsStand DEF logs
<1> QED BY <1>3, <1>4, <1>5, <1>6, <1>7
------------------------------------------------------------------------------
(* A line is written: the row of p is drafted as d and locked, e is one    *)
(* more entry of the ledger, ev what there is to tell of the alert.        *)
Writes(j, p, e, d, ev) ==
  /\ pc[j] \in Open /\ CanWrite(j, p)
  /\ e.product = p /\ e.before = DraftedQuantity(j)[p] /\ e.after = d.qty
  /\ row[p] # None => row[p].version < d.version
  /\ \/ ev = <<>> /\ d.alert = DraftedAlert(j)[p]
     \/ \E x \in EventRow : /\ ev = <<x>> /\ x.product = p
                            /\ (x.what = "entered") = ~DraftedAlert(j)[p]
                            /\ d.alert = (x.what = "entered")
  /\ lock' = [lock EXCEPT ![p] = j]
  /\ draft' = [draft EXCEPT ![j][p] = d]
  /\ entries' = [entries EXCEPT ![j] = Append(entries[j], e)]
  /\ pending' = [pending EXCEPT ![j] = pending[j] \o ev]
  /\ UNCHANGED <<plan, level, row, seen, logs, edits, faults>>

(* j goes on to its next line, or to its commit.                           *)
GoesOn(j) ==
  /\ pc' = [pc EXCEPT ![j] = pc'[j]] /\ pc'[j] \in {"working", "written"}
  /\ line' = [line EXCEPT ![j] = line'[j]] /\ line'[j] \in 1..Len(plan[j].lines)
  /\ snap' = [snap EXCEPT ![j] = snap'[j]] /\ snap'[j] \in Row \cup {None}

(* The entry of a line starts from what was drafted of its row, and so goes  *)
(* on where the entries before it end.                                       *)
LEMMA EntryJoins ==
  ASSUME StockInvariant, NEW j \in Jobs, NEW p \in Products,
         NEW e \in EntryRow, NEW d \in Row, NEW ev \in Seq(EventRow), Writes(j, p, e, d, ev)
  PROVE  Entered(j)'
<1>1. /\ lock' = [lock EXCEPT ![p] = j] /\ draft' = [draft EXCEPT ![j][p] = d]
      /\ entries' = [entries EXCEPT ![j] = Append(entries[j], e)] /\ row' = row
      /\ lock \in [Products -> Jobs \cup {None}] /\ draft \in [Jobs -> [Products -> Row \cup {None}]]
      /\ entries \in [Jobs -> Seq(EntryRow)]
  BY DEF Writes, StockInvariant, TypeOK, LogTypes
<1>2. PICK a, b, c : a = Quantity /\ b = DraftedQuantity(j) /\ c = DraftedQuantity(j)'
  OBVIOUS
<1>3. Quantity' = a
  BY <1>1, <1>2 DEF Quantity
<1>4. \A q \in Products : c[q] = IF q = e.product THEN e.after ELSE b[q]
  BY <1>1, <1>2, <1>3 DEF DraftedQuantity, Writes
<1>5. PICK s : s = entries[j]
  OBVIOUS
<1>6. s \in Seq(EntryRow) /\ Chained(s, a, b) /\ \A i \in DOMAIN s : lock[s[i].product] = j
  BY <1>1, <1>2, <1>5 DEF StockInvariant, JobOK, Entered
<1>7. e.before = b[e.product]
  BY <1>2 DEF Writes
<1>8. Chained(<<e>>, b, c)
  BY <1>4, <1>7, ChainOfOne
<1>9. <<e>> \in Seq(EntryRow) /\ Append(s, e) = s \o <<e>>
  BY <1>6
<1>10. Chained(Append(s, e), a, c)
  <2>1. PICK t : t = <<e>>
    OBVIOUS
  <2> QED BY <1>6, <1>8, <1>9, <2>1, ChainsJoin
<1>11. ASSUME NEW i \in DOMAIN Append(s, e) PROVE lock'[Append(s, e)[i].product] = j
  <2>1. CASE i \in DOMAIN s
    <3>1. Append(s, e)[i] = s[i] /\ s[i] \in EntryRow
      BY <1>6, <2>1
    <3>2. s[i].product \in Products /\ lock[s[i].product] = j
      BY <1>6, <2>1, <3>1 DEF EntryRow
    <3> QED BY <1>1, <3>1, <3>2
  <2>2. CASE i \notin DOMAIN s
    <3>1. Append(s, e)[i] = e
      BY <1>6, <2>2
    <3> QED BY <1>1, <3>1 DEF Writes
  <2> QED BY <2>1, <2>2
<1>12. entries'[j] = Append(s, e)
  BY <1>1, <1>5
<1> QED BY <1>2, <1>3, <1>10, <1>11, <1>12 DEF Entered

(* The event of a line, if there is one, turns the alert that was drafted,   *)
(* and so goes on where the events before it end.                            *)
LEMMA EventJoins ==
  ASSUME StockInvariant, NEW j \in Jobs, NEW p \in Products,
         NEW e \in EntryRow, NEW d \in Row, NEW ev \in Seq(EventRow), Writes(j, p, e, d, ev)
  PROVE  Raising(j)'
<1>1. /\ lock' = [lock EXCEPT ![p] = j] /\ draft' = [draft EXCEPT ![j][p] = d]
      /\ pending' = [pending EXCEPT ![j] = pending[j] \o ev] /\ row' = row
      /\ lock \in [Products -> Jobs \cup {None}] /\ draft \in [Jobs -> [Products -> Row \cup {None}]]
      /\ pending \in [Jobs -> Seq(EventRow)]
  BY DEF Writes, StockInvariant, TypeOK, LogTypes
<1>2. PICK a, b, c : a = Alert /\ b = DraftedAlert(j) /\ c = DraftedAlert(j)'
  OBVIOUS
<1>3. Alert' = a
  BY <1>1, <1>2 DEF Alert
<1>4. \A q \in Products : c[q] = IF q = p THEN d.alert ELSE b[q]
  BY <1>1, <1>2, <1>3 DEF DraftedAlert
<1>5. PICK s : s = pending[j]
  OBVIOUS
<1>6. s \in Seq(EventRow) /\ Alternating(s, a, b) /\ \A i \in DOMAIN s : lock[s[i].product] = j
  <2>1. pc[j] # "committed"
    BY DEF Writes, Open
  <2> QED BY <1>1, <1>2, <1>5, <2>1 DEF StockInvariant, JobOK, Raising
<1>7. /\ Alternating(ev, b, c)
      /\ \A i \in DOMAIN ev : ev[i].product = p
  <2>1. CASE ev = <<>> /\ d.alert = DraftedAlert(j)[p]
    <3>1. \A q \in Products : c[q] = b[q]
      BY <1>2, <1>4, <2>1
    <3> QED BY <2>1, <3>1, AlternationOfNone
  <2>2. ASSUME NEW x \in EventRow, ev = <<x>>, x.product = p,
               (x.what = "entered") = ~DraftedAlert(j)[p], d.alert = (x.what = "entered")
        PROVE  Alternating(ev, b, c) /\ \A i \in DOMAIN ev : ev[i].product = p
    <3>1. (x.what = "entered") = ~b[x.product]
      BY <1>2, <2>2
    <3>2. \A q \in Products : c[q] = IF q = x.product THEN (x.what = "entered") ELSE b[q]
      BY <1>4, <2>2
    <3>3. Alternating(<<x>>, b, c)
      BY <3>1, <3>2, AlternationOfOne
    <3>4. DOMAIN <<x>> = {1} /\ <<x>>[1] = x
      OBVIOUS
    <3> QED BY <2>2, <3>3, <3>4
  <2> QED BY <2>1, <2>2 DEF Writes
<1>8. PICK u : u = s \o ev
  OBVIOUS
<1>9. Alternating(u, a, c)
  BY <1>6, <1>7, <1>8, AlternationsJoin
<1>10. ASSUME NEW i \in DOMAIN u PROVE lock'[u[i].product] = j
  <2>1. CASE i \in DOMAIN s
    <3>1. u[i] = s[i] /\ s[i] \in EventRow
      BY <1>6, <1>8, <2>1
    <3>2. s[i].product \in Products /\ lock[s[i].product] = j
      BY <1>6, <2>1, <3>1 DEF EventRow
    <3> QED BY <1>1, <3>1, <3>2
  <2>2. CASE i \notin DOMAIN s
    <3>1. PICK n \in DOMAIN ev : u[i] = ev[n]
      <4>1. i - Len(s) \in DOMAIN ev /\ u[i] = ev[i - Len(s)]
        BY <1>6, <1>8, <2>2
      <4> QED BY <4>1
    <3> QED BY <1>1, <1>7, <3>1
  <2> QED BY <2>1, <2>2
<1>11. pending'[j] = u
  BY <1>1, <1>5, <1>8
<1> QED BY <1>2, <1>3, <1>9, <1>10, <1>11 DEF Raising

(* A job that writes a line, in whichever way, keeps all of the invariant.   *)
LEMMA WritingKeeps ==
  ASSUME StockInvariant, NEW j \in Jobs, NEW p \in Products,
         NEW e \in EntryRow, NEW d \in Row, NEW ev \in Seq(EventRow),
         Writes(j, p, e, d, ev), GoesOn(j)
  PROVE  StockInvariant'
<1>1. /\ lock' = [lock EXCEPT ![p] = j] /\ draft' = [draft EXCEPT ![j][p] = d]
      /\ entries' = [entries EXCEPT ![j] = Append(entries[j], e)]
      /\ pending' = [pending EXCEPT ![j] = pending[j] \o ev]
      /\ UNCHANGED <<plan, level, row, seen, logs, edits, faults>>
      /\ lock[p] \in {None, j}
      /\ pc' = [pc EXCEPT ![j] = pc'[j]] /\ pc'[j] \in {"working", "written"}
      /\ line' = [line EXCEPT ![j] = line'[j]] /\ line'[j] \in 1..Len(plan[j].lines)
      /\ snap' = [snap EXCEPT ![j] = snap'[j]] /\ snap'[j] \in Row \cup {None}
  BY DEF Writes, GoesOn, CanWrite
<1>2. TypeOK /\ LogTypes /\ LedgerChained /\ EpisodesAlternate /\ \A k \in Jobs : JobOK(k)
  BY DEF StockInvariant
<1>3. TypeOK'
  <2>1. lock' \in [Products -> Jobs \cup {None}]
    BY <1>1, <1>2 DEF TypeOK
  <2>2. pc' \in [Jobs -> {"idle", "working", "found", "read", "absent", "written", "committed"} \cup Ended]
    BY <1>1, <1>2 DEF TypeOK
  <2>3. line' \in [Jobs -> Nat \ {0}]
    <3>1. line'[j] \in Nat \ {0}
      BY <1>1
    <3> QED BY <1>1, <1>2, <3>1 DEF TypeOK
  <2>4. snap' \in [Jobs -> Row \cup {None}]
    BY <1>1, <1>2 DEF TypeOK
  <2>5. draft' \in [Jobs -> [Products -> Row \cup {None}]]
    BY <1>1, <1>2 DEF TypeOK
  <2> QED BY <1>1, <1>2, <2>1, <2>2, <2>3, <2>4, <2>5 DEF TypeOK
<1>4. LogTypes'
  <2>1. Append(entries[j], e) \in Seq(EntryRow) /\ pending[j] \o ev \in Seq(EventRow)
    BY <1>2 DEF LogTypes
  <2> QED BY <1>1, <1>2, <2>1 DEF LogTypes, logs
<1>5. ASSUME NEW k \in Jobs \ {j} PROVE JobOK(k)'
  <2>1. \A q \in Products : (lock'[q] = k) = (lock[q] = k)
    BY <1>1, <1>2, StockAssumption DEF TypeOK
  <2>2. /\ pc'[k] = pc[k] /\ line'[k] = line[k] /\ snap'[k] = snap[k] /\ draft'[k] = draft[k]
        /\ entries'[k] = entries[k] /\ pending'[k] = pending[k]
    BY <1>1, <1>2 DEF TypeOK, LogTypes
  <2>3. row' = row /\ plan' = plan
    BY <1>1
  <2> QED BY <1>2, <2>1, <2>2, <2>3, UntouchedKeeps
<1>6. AtLine(j)' /\ Snapped(j)'
  <2>1. /\ plan' = plan /\ pc'[j] \in {"working", "written"}
        /\ line'[j] \in 1..Len(plan[j].lines)
    BY <1>1
  <2>2. pc'[j] # "found" /\ pc'[j] # "read"
    BY <2>1
  <2>3. AtLine(j)'
    BY <2>1, <2>2 DEF AtLine
  <2>4. Snapped(j)'
    BY <2>2 DEF Snapped
  <2> QED BY <2>3, <2>4
<1>7. Drafted(j)'
  <2>1. ASSUME NEW q \in Products, lock'[q] = j
        PROVE  /\ pc'[j] \in Open /\ draft'[j][q] # None
               /\ row'[q] # None => row'[q].version < draft'[j][q].version
    <3>1. CASE q = p
      <4>1. draft'[j][q] = d /\ d # None /\ (row[p] # None => row[p].version < d.version)
        BY <1>1, <1>2, <3>1, NoneIsNoRow DEF Writes, TypeOK
      <4> QED BY <1>1, <3>1, <4>1 DEF Open
    <3>2. CASE q # p
      <4>1. lock[q] = j /\ draft'[j][q] = draft[j][q]
        BY <1>1, <1>2, <2>1, <3>2 DEF TypeOK
      <4> QED BY <1>1, <1>2, <4>1 DEF JobOK, Drafted, Open
    <3> QED BY <3>1, <3>2
  <2> QED BY <2>1 DEF Drafted
<1>8. JobOK(j)'
  BY <1>6, <1>7, EntryJoins, EventJoins DEF JobOK
<1>9. LedgerChained' /\ EpisodesAlternate'
  BY <1>1, <1>2, LogsStand DEF logs
<1> QED BY <1>3, <1>4, <1>5, <1>8, <1>9 DEF StockInvariant

(* A transition enters an episode only out of one, and ends one only in it.*)
LEMMA TransitionIs ==
  ASSUME NEW j \in Jobs, NEW p, NEW active \in BOOLEAN, NEW after
  PROVE  LET tr == TransitionOf(j, p, active, after) IN
         /\ tr \in {"none", "entered", "recovered"}
         /\ tr = "entered" => ~active
         /\ tr = "recovered" => active
         /\ AlertAfter(active, tr) \in BOOLEAN
         /\ tr # "none" => AlertAfter(active, tr) = (tr = "entered")
         /\ tr = "none" => AlertAfter(active, tr) = active
BY DEF TransitionOf, Transition, AlertAfter

(* What Write does of a row with that quantity and alert is to write a     *)
(* line as above.                                                          *)
LEMMA WriteWrites ==
  ASSUME StockInvariant, NEW j \in Jobs, NEW p \in Products, NEW before \in Nat, NEW after \in Nat,
         NEW version \in Nat, NEW active \in BOOLEAN,
         pc[j] \in Open, CanWrite(j, p),
         before = DraftedQuantity(j)[p], active = DraftedAlert(j)[p],
         row[p] # None => row[p].version < version,
         Write(j, p, before, after, version, active),
         UNCHANGED <<plan, level, row, seen, logs, edits, faults>>, GoesOn(j)
  PROVE  StockInvariant'
<1>1. PICK tr : tr = TransitionOf(j, p, active, after)
  OBVIOUS
<1>2. /\ tr \in {"none", "entered", "recovered"}
      /\ tr = "entered" => ~active
      /\ tr = "recovered" => active
      /\ AlertAfter(active, tr) \in BOOLEAN
      /\ tr # "none" => AlertAfter(active, tr) = (tr = "entered")
      /\ tr = "none" => AlertAfter(active, tr) = active
  BY <1>1, TransitionIs
<1>3. PICK e : e = [job |-> j, product |-> p, before |-> before, after |-> after]
  OBVIOUS
<1>4. PICK d : d = [qty |-> after, version |-> version, alert |-> AlertAfter(active, tr)]
  OBVIOUS
<1>5. PICK ev : ev = EventsOf(j, p, tr)
  OBVIOUS
<1>6. e \in EntryRow /\ e.product = p /\ e.before = before /\ e.after = after
  BY <1>3 DEF EntryRow
<1>7. d \in Row /\ d.qty = after /\ d.version = version /\ d.alert = AlertAfter(active, tr)
  BY <1>2, <1>4 DEF Row
<1>8. /\ ev \in Seq(EventRow)
      /\ \/ ev = <<>> /\ d.alert = active
         \/ \E x \in EventRow : /\ ev = <<x>> /\ x.product = p
                                /\ (x.what = "entered") = ~active
                                /\ d.alert = (x.what = "entered")
  <2>1. CASE tr = "none"
    BY <1>2, <1>5, <1>7, <2>1 DEF EventsOf
  <2>2. CASE tr # "none"
    <3>1. PICK x : x = [job |-> j, product |-> p, what |-> tr]
      OBVIOUS
    <3>2. x \in EventRow /\ x.product = p /\ x.what = tr
      BY <1>2, <2>2, <3>1 DEF EventRow
    <3>3. ev = <<x>>
      BY <1>5, <2>2, <3>1 DEF EventsOf, Event
    <3>4. (x.what = "entered") = ~active /\ d.alert = (x.what = "entered")
      BY <1>2, <1>7, <2>2, <3>2
    <3> QED BY <3>2, <3>3, <3>4
  <2> QED BY <2>1, <2>2
<1>9. /\ lock' = [lock EXCEPT ![p] = j]
      /\ draft' = [draft EXCEPT ![j][p] = d]
      /\ entries' = [entries EXCEPT ![j] = Append(entries[j], e)]
      /\ pending' = [pending EXCEPT ![j] = pending[j] \o ev]
  BY <1>1, <1>3, <1>4, <1>5 DEF Write, Entry
<1>10. Writes(j, p, e, d, ev)
  BY <1>6, <1>7, <1>8, <1>9 DEF Writes
<1> QED BY <1>6, <1>7, <1>8, <1>10, WritingKeeps

(* What j sees of a row that is there.                                     *)
LEMMA ViewIs ==
  ASSUME StockInvariant, NEW j \in Jobs, NEW p \in Products, View(j, p) # None
  PROVE  /\ View(j, p) \in Row
         /\ View(j, p).qty = DraftedQuantity(j)[p]
         /\ View(j, p).alert = DraftedAlert(j)[p]
         /\ row[p] # None => row[p].version < View(j, p).version + 1
<1>1. row[p] \in Row \cup {None} /\ draft[j][p] \in Row \cup {None} /\ Drafted(j)
  BY DEF StockInvariant, TypeOK, JobOK
<1>2. CASE lock[p] = j
  <2>1. View(j, p) = draft[j][p] /\ draft[j][p] \in Row
    BY <1>1, <1>2 DEF View
  <2>2. row[p] # None => row[p].version < draft[j][p].version
    BY <1>1, <1>2 DEF Drafted
  <2>3. row[p] # None => row[p].version \in Nat
    BY <1>1 DEF Row
  <2>4. draft[j][p].version \in Nat
    BY <2>1 DEF Row
  <2> QED BY <1>2, <2>1, <2>2, <2>3, <2>4 DEF DraftedQuantity, DraftedAlert
<1>3. CASE lock[p] # j
  <2>1. View(j, p) = row[p] /\ row[p] \in Row /\ row[p] # None
    BY <1>1, <1>3 DEF View
  <2>2. row[p].version \in Nat /\ row[p].alert \in BOOLEAN
    BY <2>1 DEF Row
  <2> QED BY <1>3, <2>1, <2>2 DEF DraftedQuantity, DraftedAlert, Quantity, Alert
<1> QED BY <1>2, <1>3

(* A line of a sale or of a restoration.                                   *)
LEMMA MoveLineKeeps ==
  ASSUME StockInvariant, NEW j \in Jobs, MoveLine(j)
  PROVE  StockInvariant'
<1>1. TypeOK /\ JobOK(j)
  BY DEF StockInvariant
<1>2. PICK p : p = Now(j).product
  OBVIOUS
<1>3. PICK n : n = Now(j).amount
  OBVIOUS
<1>4. p \in Products /\ n \in Nat \ {0}
  BY <1>1, <1>2, <1>3, LinesAreMoves DEF JobOK
<1>5. pc[j] = "found" /\ plan[j].kind \in {"sell", "restore"} /\ View(j, p) # None
  BY <1>1, <1>2 DEF MoveLine, JobOK, AtLine
<1>6. PICK old : old = View(j, p)
  OBVIOUS
<1>7. /\ old \in Row /\ old.qty = DraftedQuantity(j)[p] /\ old.alert = DraftedAlert(j)[p]
      /\ row[p] # None => row[p].version < old.version + 1
  BY <1>4, <1>5, <1>6, ViewIs
<1>8. old.qty \in Nat /\ old.alert \in BOOLEAN /\ old.version + 1 \in Nat
  BY <1>7 DEF Row
<1>9. PICK after : after = old.qty + Sign(j) * n
  OBVIOUS
<1>10. after \in Nat /\ after - Sign(j) * n = old.qty
  <2>1. CASE plan[j].kind = "sell"
    <3>1. Sign(j) = -1 /\ old.qty >= n
      BY <1>2, <1>3, <1>6, <2>1 DEF Sign, MoveLine, Enough
    <3> QED BY <1>4, <1>8, <1>9, <3>1
  <2>2. CASE plan[j].kind = "restore"
    <3>1. Sign(j) = 1
      BY <2>2 DEF Sign
    <3> QED BY <1>4, <1>8, <1>9, <3>1
  <2> QED BY <1>5, <2>1, <2>2
<1>11. Write(j, p, old.qty, after, old.version + 1, old.alert)
  <2>1. BeforeOf(j, p, after) = old.qty
    BY <1>3, <1>10 DEF BeforeOf
  <2> QED BY <1>2, <1>3, <1>6, <1>9, <2>1 DEF MoveLine
<1>12. GoesOn(j)
  <2>1. snap' = [snap EXCEPT ![j] = None] /\ Step(j)
    BY DEF MoveLine
  <2>2. line[j] \in 1..Len(plan[j].lines)
    BY <1>1 DEF JobOK, AtLine
  <2>3. pc \in [Jobs -> {"idle", "working", "found", "read", "absent", "written", "committed"} \cup Ended]
        /\ line \in [Jobs -> Nat \ {0}] /\ snap \in [Jobs -> Row \cup {None}]
    BY <1>1 DEF TypeOK
  <2>4. CASE line[j] = Len(plan[j].lines)
    BY <2>1, <2>2, <2>3, <2>4 DEF GoesOn, Step, Goto
  <2>5. CASE line[j] # Len(plan[j].lines)
    <3>1. pc' = [pc EXCEPT ![j] = "working"] /\ line' = [line EXCEPT ![j] = line[j] + 1]
      BY <2>1, <2>5 DEF Step, Goto
    <3>2. line[j] + 1 \in 1..Len(plan[j].lines)
      <4>1. Len(plan[j].lines) \in Int
        <5>1. PICK x \in Plans : x = plan[j]
          BY <1>1 DEF TypeOK
        <5>2. x.lines \in Seq(Moves)
          BY StockAssumption
        <5> QED BY <5>1, <5>2
      <4> QED BY <2>2, <2>5, <4>1
    <3> QED BY <2>1, <2>3, <3>1, <3>2 DEF GoesOn
  <2> QED BY <2>4, <2>5
<1>13. /\ pc[j] \in Open /\ CanWrite(j, p)
       /\ UNCHANGED <<plan, level, row, seen, logs, edits, faults>>
  BY <1>2, <1>5 DEF MoveLine, Open
<1>14. PICK version, active : version = old.version + 1 /\ active = old.alert
  OBVIOUS
<1>15. PICK before : before = old.qty
  OBVIOUS
<1>16. /\ version \in Nat /\ active \in BOOLEAN /\ before \in Nat
       /\ before = DraftedQuantity(j)[p] /\ active = DraftedAlert(j)[p]
       /\ row[p] # None => row[p].version < version
       /\ Write(j, p, before, after, version, active)
  BY <1>7, <1>8, <1>11, <1>14, <1>15
<1> QED BY <1>4, <1>10, <1>12, <1>13, <1>16, WriteWrites

(* An adjustment of a row whose version is the one that was read.          *)
LEMMA AdjustWriteKeeps ==
  ASSUME StockInvariant, NEW j \in Jobs, AdjustWrite(j)
  PROVE  StockInvariant'
<1>1. TypeOK /\ JobOK(j)
  BY DEF StockInvariant
<1>2. PICK p : p = Now(j).product
  OBVIOUS
<1>3. p \in Products /\ Now(j).amount \in Nat \ {0}
  BY <1>1, <1>2, LinesAreMoves DEF JobOK
<1>4. pc[j] = "read" /\ lock[p] = None /\ row[p] # None /\ snap[j] = row[p]
  BY <1>1, <1>2 DEF AdjustWrite, SameVersion, JobOK, Snapped
<1>5. PICK old \in Row : old = row[p]
  BY <1>1, <1>3, <1>4 DEF TypeOK
<1>6. old.qty \in Nat /\ old.alert \in BOOLEAN /\ old.version + 1 \in Nat
      /\ old.version < old.version + 1
  BY <1>5 DEF Row
<1>7. old.qty = DraftedQuantity(j)[p] /\ old.alert = DraftedAlert(j)[p]
  BY <1>3, <1>4, <1>5, <1>6, StockAssumption DEF DraftedQuantity, DraftedAlert, Quantity, Alert
<1>8. PICK after : after = Adjusted(j)
  OBVIOUS
<1>9. after \in Nat
  <2>1. Sign(j) \in Int /\ after = old.qty + Sign(j) * Now(j).amount
    BY <1>4, <1>5, <1>8 DEF Sign, Adjusted
  <2>2. after >= 0
    BY <1>8 DEF AdjustWrite
  <2> QED BY <1>3, <1>6, <2>1, <2>2
<1>10. PICK version, active, before : version = old.version + 1 /\ active = old.alert /\ before = old.qty
  OBVIOUS
<1>11. Write(j, p, before, after, version, active)
  BY <1>2, <1>4, <1>5, <1>8, <1>10 DEF AdjustWrite
<1>12. GoesOn(j)
  <2>1. pc' = [pc EXCEPT ![j] = "written"] /\ line' = line /\ snap' = snap
    BY DEF AdjustWrite, Goto
  <2>2. line[j] \in 1..Len(plan[j].lines)
    BY <1>1 DEF JobOK, AtLine
  <2>3. pc \in [Jobs -> {"idle", "working", "found", "read", "absent", "written", "committed"} \cup Ended]
        /\ line \in [Jobs -> Nat \ {0}] /\ snap \in [Jobs -> Row \cup {None}]
    BY <1>1 DEF TypeOK
  <2> QED BY <2>1, <2>2, <2>3 DEF GoesOn
<1>13. /\ pc[j] \in Open /\ CanWrite(j, p)
       /\ UNCHANGED <<plan, level, row, seen, logs, edits, faults>>
  BY <1>4 DEF AdjustWrite, Open, CanWrite
<1>14. /\ version \in Nat /\ active \in BOOLEAN /\ before \in Nat
       /\ before = DraftedQuantity(j)[p] /\ active = DraftedAlert(j)[p]
       /\ row[p] # None => row[p].version < version
  BY <1>5, <1>6, <1>7, <1>10
<1> QED BY <1>3, <1>9, <1>11, <1>12, <1>13, <1>14, WriteWrites

(* An increase of what has no row: the unique index lets one insert it.    *)
LEMMA CreateRowKeeps ==
  ASSUME StockInvariant, NEW j \in Jobs, CreateRow(j)
  PROVE  StockInvariant'
<1>1. TypeOK /\ LogTypes /\ JobOK(j)
  BY DEF StockInvariant
<1>2. PICK p : p = Now(j).product
  OBVIOUS
<1>3. PICK n : n = Now(j).amount
  OBVIOUS
<1>4. p \in Products /\ n \in Nat \ {0}
  BY <1>1, <1>2, <1>3, LinesAreMoves DEF JobOK
<1>5. pc[j] = "absent" /\ lock[p] = None /\ row[p] = None
  BY <1>2 DEF CreateRow
<1>6. DraftedQuantity(j)[p] = 0 /\ DraftedAlert(j)[p] = FALSE
  BY <1>4, <1>5, StockAssumption DEF DraftedQuantity, DraftedAlert, Quantity, Alert
<1>7. PICK e : e = [job |-> j, product |-> p, before |-> 0, after |-> n]
  OBVIOUS
<1>8. e \in EntryRow /\ e.product = p /\ e.before = 0 /\ e.after = n
  BY <1>4, <1>7 DEF EntryRow
<1>9. PICK d : d = [qty |-> n, alert |-> FALSE, version |-> 0]
  OBVIOUS
<1>10. d \in Row /\ d.qty = n /\ d.alert = FALSE
  BY <1>4, <1>9 DEF Row
<1>11. PICK ev : ev = <<>> /\ ev \in Seq(EventRow)
  <2>1. <<>> \in Seq(EventRow)
    OBVIOUS
  <2> QED BY <2>1
<1>12. /\ lock' = [lock EXCEPT ![p] = j]
       /\ draft' = [draft EXCEPT ![j][p] = d]
       /\ entries' = [entries EXCEPT ![j] = Append(entries[j], e)]
       /\ UNCHANGED <<plan, level, row, seen, logs, edits, faults>>
  BY <1>2, <1>3, <1>7, <1>9 DEF CreateRow, Entry
<1>13. pending' = [pending EXCEPT ![j] = pending[j] \o ev]
  <2>1. pending \in [Jobs -> Seq(EventRow)] /\ pending' = pending
    BY <1>1 DEF LogTypes, CreateRow
  <2>2. pending[j] \o ev = pending[j]
    BY <1>11, <2>1
  <2> QED BY <2>1, <2>2
<1>14. Writes(j, p, e, d, ev)
  BY <1>5, <1>6, <1>8, <1>10, <1>11, <1>12, <1>13 DEF Writes, CanWrite, Open
<1>15. GoesOn(j)
  <2>1. pc' = [pc EXCEPT ![j] = "written"] /\ line' = line /\ snap' = snap
    BY DEF CreateRow, Goto
  <2>2. line[j] \in 1..Len(plan[j].lines)
    BY <1>1 DEF JobOK, AtLine
  <2>3. pc \in [Jobs -> {"idle", "working", "found", "read", "absent", "written", "committed"} \cup Ended]
        /\ line \in [Jobs -> Nat \ {0}] /\ snap \in [Jobs -> Row \cup {None}]
    BY <1>1 DEF TypeOK
  <2> QED BY <2>1, <2>2, <2>3 DEF GoesOn
<1> QED BY <1>4, <1>8, <1>10, <1>11, <1>14, <1>15, WritingKeeps

------------------------------------------------------------------------------
(* What the commit of j puts in the rows is what j had drafted.            *)
LEMMA CommitPuts ==
  ASSUME StockInvariant, NEW j \in Jobs, Commit(j)
  PROVE  /\ Quantity' = DraftedQuantity(j) /\ Alert' = DraftedAlert(j)
         /\ \A p \in Products : row[p] # None => row'[p] # None
         /\ \A p \in Products : lock[p] # j => row'[p] = row[p]
         /\ \A p \in Products : row[p] # None /\ lock[p] = j => row[p].version < row'[p].version
<1>1. row' = [p \in Products |-> IF lock[p] = j THEN draft[j][p] ELSE row[p]]
  BY DEF Commit
<1>2. \A p \in Products : lock[p] = j =>
        draft[j][p] # None /\ (row[p] # None => row[p].version < draft[j][p].version)
  BY DEF StockInvariant, JobOK, Drafted
<1>3. Quantity' = DraftedQuantity(j)
  <2>1. Quantity' = [p \in Products |-> IF row'[p] = None THEN 0 ELSE row'[p].qty]
    BY DEF Quantity
  <2>2. ASSUME NEW p \in Products
        PROVE (IF row'[p] = None THEN 0 ELSE row'[p].qty)
                = (IF lock[p] = j THEN draft[j][p].qty ELSE Quantity[p])
    BY <1>1, <1>2 DEF Quantity
  <2> QED BY <2>1, <2>2 DEF DraftedQuantity
<1>4. Alert' = DraftedAlert(j)
  <2>1. Alert' = [p \in Products |-> row'[p] # None /\ row'[p].alert]
    BY DEF Alert
  <2>2. ASSUME NEW p \in Products
        PROVE (row'[p] # None /\ row'[p].alert)
                = (IF lock[p] = j THEN draft[j][p].alert ELSE Alert[p])
    <3>1. draft[j][p] # None => draft[j][p].alert \in BOOLEAN
      BY DEF StockInvariant, TypeOK, Row
    <3>2. CASE lock[p] = j
      BY <1>1, <1>2, <3>1, <3>2
    <3>3. CASE lock[p] # j
      BY <1>1, <3>3 DEF Alert
    <3> QED BY <3>2, <3>3
  <2> QED BY <2>1, <2>2 DEF DraftedAlert
<1> QED BY <1>1, <1>2, <1>3, <1>4

(* The others are not disturbed: their locks are on other rows.            *)
LEMMA CommitLeavesOthers ==
  ASSUME StockInvariant, NEW j \in Jobs, Commit(j), NEW k \in Jobs \ {j}
  PROVE  JobOK(k)'
<1>1. /\ Quantity' = DraftedQuantity(j) /\ Alert' = DraftedAlert(j)
      /\ \A p \in Products : row[p] # None => row'[p] # None
      /\ \A p \in Products : lock[p] # j => row'[p] = row[p]
      /\ \A p \in Products : row[p] # None /\ lock[p] = j => row[p].version < row'[p].version
  BY CommitPuts
<1>2. /\ pc'[k] = pc[k] /\ line' = line /\ plan' = plan /\ snap' = snap /\ pending' = pending
      /\ draft'[k] = draft[k] /\ entries'[k] = entries[k]
      /\ \A p \in Products : (lock'[p] = k) = (lock[p] = k)
      /\ \A p \in Products : lock[p] = j => lock'[p] # k
  BY StockAssumption DEF Commit, Goto, StockInvariant, TypeOK, LogTypes
<1>3. JobOK(k) /\ TypeOK
  BY DEF StockInvariant
<1>4. Now(k)' = Now(k) /\ Now(k).product \in Products
  BY <1>2, <1>3, LinesAreMoves DEF Now, JobOK
<1>5. AtLine(k)'
  <2>1. ASSUME NEW p \in Products, View(k, p) # None PROVE View(k, p)' # None
    BY <1>1, <1>2, <2>1 DEF View
  <2> QED BY <1>2, <1>3, <1>4, <2>1 DEF AtLine, JobOK
<1>6. Drafted(k)'
  BY <1>1, <1>2, <1>3 DEF Drafted, JobOK
<1>7. Snapped(k)'
  <2>1. PICK p : p = Now(k).product
    OBVIOUS
  <2>2. CASE lock[p] # j
    BY <1>1, <1>2, <1>3, <1>4, <2>1, <2>2 DEF Snapped, JobOK
  <2>3. CASE lock[p] = j /\ pc[k] = "read"
    <3>1. snap[k] # None /\ row[p] # None /\ snap[k].version <= row[p].version
      BY <1>3, <2>1, <2>3 DEF Snapped, JobOK
    <3>2. row'[p] # None /\ row[p].version < row'[p].version
      BY <1>1, <1>4, <2>1, <2>3, <3>1
    <3>3. snap[k].version \in Nat /\ row[p].version \in Nat
      BY <1>3, <1>4, <2>1, <3>1 DEF TypeOK, Row
    <3>4. row'[p].version \in Nat
      <4>1. row'[p] = draft[j][p]
        BY <1>4, <2>1, <2>3 DEF Commit
      <4> QED BY <1>3, <1>4, <2>1, <3>2, <4>1 DEF TypeOK, Row
    <3> QED BY <1>2, <1>4, <2>1, <3>1, <3>2, <3>3, <3>4 DEF Snapped
  <2>4. CASE pc[k] # "read"
    BY <1>2, <2>4 DEF Snapped
  <2> QED BY <2>2, <2>3, <2>4
<1>8. \A p \in Products :
        \/ lock[p] # j /\ Quantity'[p] = Quantity[p] /\ Alert'[p] = Alert[p]
             /\ DraftedQuantity(k)'[p] = DraftedQuantity(k)[p]
             /\ DraftedAlert(k)'[p] = DraftedAlert(k)[p]
        \/ lock[p] = j /\ DraftedQuantity(k)'[p] = Quantity'[p] /\ DraftedAlert(k)'[p] = Alert'[p]
  BY <1>1, <1>2 DEF DraftedQuantity, DraftedAlert
<1>9. Entered(k)'
  <2>1. PICK s : s = entries[k]
    OBVIOUS
  <2>2. PICK a, b, c, d : /\ a = Quantity /\ b = DraftedQuantity(k)
                          /\ c = Quantity' /\ d = DraftedQuantity(k)'
    OBVIOUS
  <2>3. s \in Seq(EntryRow) /\ Chained(s, a, b) /\ \A i \in DOMAIN s : lock[s[i].product] = k
    BY <1>3, <2>1, <2>2 DEF JobOK, Entered, StockInvariant, LogTypes
  <2>4. ASSUME NEW i \in DOMAIN s PROVE s[i].product \in Products
    <3>1. s[i] \in EntryRow
      BY <2>3
    <3> QED BY <3>1 DEF EntryRow
  <2>5. \A i \in DOMAIN s : c[s[i].product] = a[s[i].product]
    BY <1>8, <2>2, <2>3, <2>4
  <2>6. \A p \in Products : (c[p] = a[p] /\ d[p] = b[p])
                             \/ ((\A i \in DOMAIN s : s[i].product # p) /\ d[p] = c[p])
    BY <1>8, <2>2, <2>3
  <2>7. Chained(s, c, d)
    BY <2>3, <2>5, <2>6, ChainElsewhere
  <2> QED BY <1>2, <2>1, <2>2, <2>3, <2>4, <2>7 DEF Entered
<1>10. Raising(k)'
  <2>1. PICK s : s = pending[k]
    OBVIOUS
  <2>2. PICK a, b, c, d : /\ a = Alert /\ b = DraftedAlert(k)
                          /\ c = Alert' /\ d = DraftedAlert(k)'
    OBVIOUS
  <2> SUFFICES ASSUME pc[k] # "committed" PROVE Raising(k)'
    BY <1>2 DEF Raising
  <2>3. s \in Seq(EventRow) /\ Alternating(s, a, b) /\ \A i \in DOMAIN s : lock[s[i].product] = k
    BY <1>3, <2>1, <2>2 DEF JobOK, Raising, StockInvariant, LogTypes
  <2>4. ASSUME NEW i \in DOMAIN s PROVE s[i].product \in Products
    <3>1. s[i] \in EventRow
      BY <2>3
    <3> QED BY <3>1 DEF EventRow
  <2>5. \A i \in DOMAIN s : c[s[i].product] = a[s[i].product]
    BY <1>8, <2>2, <2>3, <2>4
  <2>6. \A p \in Products : (c[p] = a[p] /\ d[p] = b[p])
                             \/ ((\A i \in DOMAIN s : s[i].product # p) /\ d[p] = c[p])
    BY <1>8, <2>2, <2>3
  <2>7. Alternating(s, c, d)
    BY <2>3, <2>5, <2>6, AlternationElsewhere
  <2> QED BY <1>2, <2>1, <2>2, <2>3, <2>4, <2>7 DEF Raising
<1> QED BY <1>5, <1>6, <1>7, <1>9, <1>10 DEF JobOK

(* A commit: its entries go on from where the ledger ends, its alerts from *)
(* the last ones on record, and both lead to the rows it leaves.           *)
LEMMA CommitKeeps ==
  ASSUME StockInvariant, NEW j \in Jobs, Commit(j)
  PROVE  StockInvariant'
<1>1. TypeOK /\ LogTypes /\ JobOK(j) /\ LedgerChained /\ EpisodesAlternate
  BY DEF StockInvariant
<1>2. /\ pc[j] = "written" /\ pc' = [pc EXCEPT ![j] = "committed"]
      /\ row' = [p \in Products |-> IF lock[p] = j THEN draft[j][p] ELSE row[p]]
      /\ lock' = [p \in Products |-> IF lock[p] = j THEN None ELSE lock[p]]
      /\ draft' = [draft EXCEPT ![j] = [p \in Products |-> None]]
      /\ entries' = [entries EXCEPT ![j] = <<>>]
      /\ ledger' = ledger \o entries[j] /\ crossed' = crossed \o pending[j]
      /\ plan' = plan /\ level' = level /\ seen' = seen /\ line' = line /\ snap' = snap
      /\ pending' = pending
  BY DEF Commit, Goto
<1>3. Quantity' = DraftedQuantity(j) /\ Alert' = DraftedAlert(j)
  BY CommitPuts
<1>4. TypeOK'
  <2>1. row' \in [Products -> Row \cup {None}]
    BY <1>1, <1>2 DEF TypeOK
  <2>2. lock' \in [Products -> Jobs \cup {None}]
    BY <1>1, <1>2 DEF TypeOK
  <2>3. draft' \in [Jobs -> [Products -> Row \cup {None}]]
    BY <1>1, <1>2 DEF TypeOK
  <2>4. pc' \in [Jobs -> {"idle", "working", "found", "read", "absent", "written", "committed"} \cup Ended]
    BY <1>1, <1>2 DEF TypeOK
  <2> QED BY <1>1, <1>2, <2>1, <2>2, <2>3, <2>4 DEF TypeOK
<1>5. LogTypes'
  BY <1>1, <1>2 DEF LogTypes
<1>6. JobOK(j)'
  <2>1. line'[j] \in 1..Len(plan'[j].lines)
    BY <1>1, <1>2 DEF JobOK, AtLine
  <2>2. pc'[j] = "committed"
    BY <1>1, <1>2 DEF TypeOK
  <2>3. \A p \in Products : lock'[p] # j
    BY <1>2, StockAssumption
  <2>4. entries'[j] = <<>>
    BY <1>1, <1>2 DEF LogTypes
  <2> QED BY <2>1, <2>2, <2>3, <2>4, RestIsRight
<1>7. LedgerChained'
  <2>1. PICK a, b, c : a = Start /\ b = Quantity /\ c = Quantity'
    OBVIOUS
  <2>2. PICK s, t : s = ledger /\ t = entries[j]
    OBVIOUS
  <2>3. s \in Seq(EntryRow) /\ t \in Seq(EntryRow)
    BY <1>1, <2>2 DEF LogTypes
  <2>4. Chained(s, a, b)
    BY <1>1, <2>1, <2>2 DEF LedgerChained
  <2>5. Chained(t, b, c)
    BY <1>1, <1>3, <2>1, <2>2 DEF JobOK, Entered
  <2>6. Chained(s \o t, a, c)
    BY <2>3, <2>4, <2>5, ChainsJoin
  <2>7. Start' = a
    BY <2>1 DEF Start
  <2> QED BY <1>2, <2>1, <2>2, <2>6, <2>7 DEF LedgerChained
<1>8. EpisodesAlternate'
  <2>1. PICK a, b, c : a = [p \in Products |-> FALSE] /\ b = Alert /\ c = Alert'
    OBVIOUS
  <2>2. PICK s, t : s = crossed /\ t = pending[j]
    OBVIOUS
  <2>3. s \in Seq(EventRow) /\ t \in Seq(EventRow)
    BY <1>1, <2>2 DEF LogTypes
  <2>4. Alternating(s, a, b)
    BY <1>1, <2>1, <2>2 DEF EpisodesAlternate
  <2>5. Alternating(t, b, c)
    BY <1>1, <1>2, <1>3, <2>1, <2>2 DEF JobOK, Raising
  <2>6. Alternating(s \o t, a, c)
    BY <2>3, <2>4, <2>5, AlternationsJoin
  <2> QED BY <1>2, <2>1, <2>2, <2>6 DEF EpisodesAlternate
<1>9. \A k \in Jobs \ {j} : JobOK(k)'
  BY CommitLeavesOthers
<1> QED BY <1>4, <1>5, <1>6, <1>7, <1>8, <1>9 DEF StockInvariant

(* The publication of what is on record already.                           *)
LEMMA PublishKeeps ==
  ASSUME StockInvariant, NEW j \in Jobs, Publish(j)
  PROVE  StockInvariant'
<1>1. TypeOK /\ LogTypes /\ LedgerChained /\ EpisodesAlternate /\ \A k \in Jobs : JobOK(k)
  BY DEF StockInvariant
<1>2. /\ pc[j] = "committed" /\ pc' = [pc EXCEPT ![j] = "done"]
      /\ pending' = [pending EXCEPT ![j] = <<>>]
      /\ UNCHANGED <<plan, level, row, lock, seen, line, snap, draft, entries, ledger, crossed>>
  BY DEF Publish, Goto
<1>3. row' = row /\ plan' = plan /\ ledger' = ledger /\ crossed' = crossed
  BY <1>2
<1>4. TypeOK'
  BY <1>1, <1>2 DEF TypeOK, Ended
<1>5. LogTypes'
  BY <1>1, <1>2 DEF LogTypes
<1>6. ASSUME NEW k \in Jobs \ {j} PROVE JobOK(k)'
  <2>1. pc'[k] = pc[k] /\ pending'[k] = pending[k]
    BY <1>1, <1>2 DEF TypeOK, LogTypes
  <2> QED BY <1>1, <1>2, <1>3, <2>1, UntouchedKeeps
<1>7. JobOK(j)'
  <2>1. \A p \in Products : lock'[p] # j
    BY <1>1, <1>2 DEF JobOK, Drafted, Open
  <2>2. entries'[j] = <<>>
    <3>1. entries[j] \in Seq(EntryRow)
      BY <1>1 DEF LogTypes
    <3>2. DOMAIN entries[j] = {}
      <4> SUFFICES ASSUME NEW i \in DOMAIN entries[j] PROVE FALSE
        OBVIOUS
      <4>1. entries[j][i] \in EntryRow /\ lock[entries[j][i].product] = j
        BY <1>1, <3>1 DEF JobOK, Entered
      <4>2. entries[j][i].product \in Products
        BY <4>1 DEF EntryRow
      <4> QED BY <1>2, <2>1, <4>1, <4>2
    <3>3. Len(entries[j]) = 0
      <4>1. Len(entries[j]) \in Nat /\ DOMAIN entries[j] = 1..Len(entries[j])
        BY <3>1
      <4>2. 1 \notin 1..Len(entries[j])
        BY <3>2, <4>1
      <4> QED BY <4>1, <4>2
    <3> QED BY <1>2, <3>1, <3>3
  <2>3. pending'[j] = <<>> /\ pc'[j] = "done"
    BY <1>1, <1>2 DEF TypeOK, LogTypes
  <2>4. line'[j] \in 1..Len(plan'[j].lines)
    BY <1>1, <1>2 DEF JobOK, AtLine
  <2> QED BY <2>1, <2>2, <2>3, <2>4, RestIsRight
<1>8. LedgerChained' /\ EpisodesAlternate'
  BY <1>1, <1>3, LogsStand
<1> QED BY <1>4, <1>5, <1>6, <1>7, <1>8 DEF StockInvariant

(* The server dies: what was drafted is gone, what is on record stays.     *)
LEMMA CrashKeeps ==
  ASSUME StockInvariant, Crash
  PROVE  StockInvariant'
<1>1. TypeOK /\ LogTypes /\ LedgerChained /\ EpisodesAlternate /\ \A k \in Jobs : JobOK(k)
  BY DEF StockInvariant
<1>2. /\ pc' = [j \in Jobs |-> IF pc[j] \in Ended \cup {"idle"} THEN pc[j] ELSE "crashed"]
      /\ lock' = [p \in Products |-> None]
      /\ draft' = [j \in Jobs |-> [p \in Products |-> None]]
      /\ entries' = [j \in Jobs |-> <<>>]
      /\ pending' = [j \in Jobs |-> <<>>]
      /\ plan' = plan /\ level' = level /\ row' = row /\ seen' = seen
      /\ line' = line /\ snap' = snap /\ ledger' = ledger /\ crossed' = crossed
  BY DEF Crash, logs
<1>3. TypeOK'
  <2>1. pc' \in [Jobs -> {"idle", "working", "found", "read", "absent", "written", "committed"} \cup Ended]
    BY <1>1, <1>2 DEF TypeOK, Ended
  <2> QED BY <1>1, <1>2, <2>1 DEF TypeOK
<1>4. LogTypes'
  BY <1>1, <1>2 DEF LogTypes
<1>5. ASSUME NEW k \in Jobs PROVE JobOK(k)'
  <2>1. line'[k] \in 1..Len(plan'[k].lines)
    BY <1>1, <1>2 DEF JobOK, AtLine
  <2>2. pc'[k] \notin {"found", "read"}
    BY <1>2 DEF Ended
  <2>3. \A p \in Products : lock'[p] # k
    BY <1>2, StockAssumption
  <2>4. entries'[k] = <<>> /\ pending'[k] = <<>>
    BY <1>2
  <2> QED BY <2>1, <2>2, <2>3, <2>4, RestIsRight
<1>6. LedgerChained' /\ EpisodesAlternate'
  BY <1>1, <1>2, LogsStand
<1> QED BY <1>3, <1>4, <1>5, <1>6 DEF StockInvariant

(* A new alert level, and the steps that change nothing: nobody's row or   *)
(* draft is touched.                                                       *)
LEMMA AsideKeeps ==
  ASSUME StockInvariant,
         (\E p \in Products, m \in Levels : SetLevel(p, m)) \/ UNCHANGED vars
  PROVE  StockInvariant'
<1>1. TypeOK /\ LogTypes /\ LedgerChained /\ EpisodesAlternate /\ \A k \in Jobs : JobOK(k)
  BY DEF StockInvariant
<1>2. /\ level' \in [Products -> Levels]
      /\ plan' = plan /\ row' = row /\ lock' = lock /\ pc' = pc /\ seen' = seen
      /\ line' = line /\ snap' = snap /\ draft' = draft /\ entries' = entries
      /\ pending' = pending /\ ledger' = ledger /\ crossed' = crossed
  BY <1>1 DEF SetLevel, TypeOK, vars, logs
<1>3. TypeOK' /\ LogTypes'
  BY <1>1, <1>2 DEF TypeOK, LogTypes
<1>4. \A k \in Jobs : JobOK(k)'
  BY <1>1, <1>2, UntouchedKeeps
<1>5. LedgerChained' /\ EpisodesAlternate'
  BY <1>1, <1>2, LogsStand
<1> QED BY <1>3, <1>4, <1>5 DEF StockInvariant

(* Every step, of whatever job.                                            *)
LEMMA InvariantStep == StockInvariant /\ [Next]_vars => StockInvariant'
<1> SUFFICES ASSUME StockInvariant, [Next]_vars PROVE StockInvariant'
  OBVIOUS
<1>1. CASE \E j \in Jobs : ReadProducts(j) \/ FindRow(j) \/ AdjustRead(j)
  BY <1>1, ReadingKeeps
<1>2. CASE \E j \in Jobs : MoveLine(j)
  BY <1>2, MoveLineKeeps
<1>3. CASE \E j \in Jobs : AdjustWrite(j)
  BY <1>3, AdjustWriteKeeps
<1>4. CASE \E j \in Jobs : CreateRow(j)
  BY <1>4, CreateRowKeeps
<1>5. CASE \E j \in Jobs : \/ MoveRefused(j) \/ AdjustRefused(j) \/ CreateRefused(j)
                           \/ DeadlockAbort(j) \/ Fail(j)
  BY <1>5, UndoingKeeps
<1>6. CASE \E j \in Jobs : Commit(j)
  BY <1>6, CommitKeeps
<1>7. CASE \E j \in Jobs : Publish(j)
  BY <1>7, PublishKeeps
<1>8. CASE Crash
  BY <1>8, CrashKeeps
<1>9. CASE (\E p \in Products, m \in Levels : SetLevel(p, m)) \/ UNCHANGED vars
  BY <1>9, AsideKeeps
<1> QED BY <1>1, <1>2, <1>3, <1>4, <1>5, <1>6, <1>7, <1>8, <1>9 DEF Next, Work, Quiescent
------------------------------------------------------------------------------
(* Rows, drafts, snapshots and logs agree in every reachable state.        *)
THEOREM InvariantHolds == Spec => []StockInvariant
<1>1. Init => StockInvariant
  BY InvariantInit
<1>2. StockInvariant /\ [Next]_vars => StockInvariant'
  BY InvariantStep
<1> QED BY <1>1, <1>2, PTL DEF Spec

(* Every variable keeps its type; in particular no quantity drafted or     *)
(* committed is ever negative, whoever sells, restores and adjusts at once *)
(* (WHERE quantity >= line.quantity, sale.service.ts).                     *)
THEOREM TypeInvariant == Spec => []TypeOK
<1>1. StockInvariant => TypeOK
  BY DEF StockInvariant
<1> QED BY <1>1, InvariantHolds, PTL

(* The ledger tells the whole story of every row, from the opening to the  *)
(* quantity in stock, with no gap between two entries: the read-back of    *)
(* sale.service.ts:241-250 and the version compared in adjustProductStock. *)
THEOREM LedgerIsChained == Spec => []LedgerChained
<1>1. StockInvariant => LedgerChained
  BY DEF StockInvariant
<1> QED BY <1>1, InvariantHolds, PTL

(* Of each product the committed alerts go low, recovered, low, ..., and   *)
(* the flag of its row says which came last (stockAlerts.ts:26-30).        *)
THEOREM EpisodesAlternateAlways == Spec => []EpisodesAlternate
<1>1. StockInvariant => EpisodesAlternate
  BY DEF StockInvariant
<1> QED BY <1>1, InvariantHolds, PTL
------------------------------------------------------------------------------
(* A row is locked for a line its job has written: one before the line it  *)
(* is at, and with all of them written no line is left to wait for.        *)
Locked(j) ==
  \A p \in Products : lock[p] = j =>
    \E i \in DOMAIN plan[j].lines :
      plan[j].lines[i].product = p /\ (i < line[j] \/ pc[j] = "written")

LocksAreLines == \A j \in Jobs : Locked(j)

(* The job that writes its line locks the row of that line, no other.      *)
LEMMA WritingLocks ==
  ASSUME StockInvariant, LocksAreLines, NEW j \in Jobs,
         MoveLine(j) \/ AdjustWrite(j) \/ CreateRow(j)
  PROVE  LocksAreLines'
<1>1. TypeOK /\ AtLine(j)
  BY DEF StockInvariant, JobOK
<1>2. PICK p : p = Now(j).product
  OBVIOUS
<1>3. lock' = [lock EXCEPT ![p] = j] /\ plan' = plan
  BY <1>2 DEF MoveLine, AdjustWrite, CreateRow, Write
<1>4. /\ \A k \in Jobs : k # j => pc'[k] = pc[k] /\ line'[k] = line[k]
      /\ \/ pc'[j] = "written" /\ line'[j] = line[j]
         \/ line'[j] = line[j] + 1
      /\ pc[j] # "written"
  BY <1>1 DEF MoveLine, AdjustWrite, CreateRow, Step, Goto, TypeOK
<1>5. line[j] \in DOMAIN plan[j].lines /\ plan[j].lines[line[j]].product = p
  <2>1. PICK x \in Plans : x = plan[j]
    BY <1>1 DEF TypeOK
  <2>2. x.lines \in Seq(Moves)
    BY StockAssumption
  <2> QED BY <1>1, <1>2, <2>1, <2>2 DEF AtLine, Now
<1>6. lock \in [Products -> Jobs \cup {None}] /\ line[j] \in Nat
  BY <1>1 DEF TypeOK
<1>7. ASSUME NEW k \in Jobs, k # j PROVE Locked(k)'
  BY <1>3, <1>4, <1>6, <1>7 DEF LocksAreLines, Locked
<1>8. Locked(j)'
  <2> SUFFICES ASSUME NEW q \in Products, lock'[q] = j
               PROVE  \E i \in DOMAIN plan[j].lines :
                        plan[j].lines[i].product = q /\ (i < line'[j] \/ pc'[j] = "written")
    BY <1>3 DEF Locked
  <2>1. CASE q = p
    BY <1>4, <1>5, <1>6, <2>1
  <2>2. CASE q # p
    <3>1. PICK i \in DOMAIN plan[j].lines : plan[j].lines[i].product = q /\ i < line[j]
      BY <1>3, <1>4, <1>6, <2>2 DEF LocksAreLines, Locked
    <3>2. i \in Nat
      <4>1. PICK x \in Plans : x = plan[j]
        BY <1>1 DEF TypeOK
      <4>2. x.lines \in Seq(Moves)
        BY StockAssumption
      <4> QED BY <4>1, <4>2
    <3>3. i < line'[j] \/ pc'[j] = "written"
      BY <1>4, <1>6, <3>1, <3>2
    <3> QED BY <3>1, <3>3
  <2> QED BY <2>1, <2>2
<1> QED BY <1>7, <1>8 DEF LocksAreLines

(* A job that gives up or commits lets all its rows go.                    *)
LEMMA EndingLocks ==
  ASSUME StockInvariant, LocksAreLines, NEW j \in Jobs,
         \/ Commit(j) \/ MoveRefused(j) \/ AdjustRefused(j) \/ CreateRefused(j)
         \/ DeadlockAbort(j) \/ Fail(j)
  PROVE  LocksAreLines'
<1>1. TypeOK /\ None \notin Jobs
  BY StockAssumption DEF StockInvariant
<1>2. /\ lock' = [p \in Products |-> IF lock[p] = j THEN None ELSE lock[p]]
      /\ plan' = plan
      /\ \A k \in Jobs : k # j => pc'[k] = pc[k] /\ line'[k] = line[k]
  BY <1>1 DEF Commit, MoveRefused, AdjustRefused, CreateRefused, DeadlockAbort, Fail, Rollback, Goto, TypeOK
<1> QED BY <1>1, <1>2 DEF LocksAreLines, Locked

(* Every step leaves a row locked for a written line only.                 *)
LEMMA LocksStep == StockInvariant /\ LocksAreLines /\ [Next]_vars => LocksAreLines'
<1> SUFFICES ASSUME StockInvariant, LocksAreLines, [Next]_vars PROVE LocksAreLines'
  OBVIOUS
<1>0. TypeOK
  BY DEF StockInvariant
<1>1. ASSUME lock' = lock, plan' = plan, line' = line,
             \A k \in Jobs : pc[k] = "written" => pc'[k] = "written"
      PROVE  LocksAreLines'
  BY <1>1 DEF LocksAreLines, Locked
<1>2. CASE \E j \in Jobs : ReadProducts(j) \/ FindRow(j) \/ AdjustRead(j) \/ Publish(j)
  <2>1. PICK j \in Jobs : ReadProducts(j) \/ FindRow(j) \/ AdjustRead(j) \/ Publish(j)
    BY <1>2
  <2> QED BY <1>0, <1>1, <2>1 DEF ReadProducts, FindRow, AdjustRead, Publish, Goto, TypeOK
<1>3. CASE \E j \in Jobs : MoveLine(j) \/ AdjustWrite(j) \/ CreateRow(j)
  BY <1>3, WritingLocks
<1>4. CASE \E j \in Jobs : \/ Commit(j) \/ MoveRefused(j) \/ AdjustRefused(j) \/ CreateRefused(j)
                           \/ DeadlockAbort(j) \/ Fail(j)
  BY <1>4, EndingLocks
<1>5. CASE Crash
  <2>1. \A p \in Products : lock'[p] = None
    BY <1>5 DEF Crash
  <2> QED BY <2>1, StockAssumption DEF LocksAreLines, Locked
<1>6. CASE (\E p \in Products, m \in Levels : SetLevel(p, m)) \/ UNCHANGED vars
  BY <1>1, <1>6 DEF SetLevel, vars
<1> QED BY <1>2, <1>3, <1>4, <1>5, <1>6 DEF Next, Work, Quiescent

(* In a circle of jobs that list their products along one ranking, the one *)
(* that waits for the highest row is held up by one that has written that  *)
(* row and waits for a higher one still.                                   *)
LEMMA CircleNeedsTwoOrders == StockInvariant /\ LocksAreLines => CirclesNeedTwoOrders
<1> SUFFICES ASSUME StockInvariant, LocksAreLines, NEW S \in SUBSET Jobs, S # {}, Circle(S),
                    NEW rank \in Rankings, \A j \in S : InOrder(j, rank)
             PROVE  FALSE
  BY DEF CirclesNeedTwoOrders
<1>1. PICK n \in Nat : n = Cardinality(Products)
  BY StockAssumption, FS_CardinalityType
<1>2. rank \in [Products -> 1..n] /\ \A p, q \in Products : rank[p] = rank[q] => p = q
  BY <1>1 DEF Rankings, IsInjective
<1>3. ASSUME NEW j \in S
      PROVE  /\ Now(j).product \in Products /\ line[j] \in DOMAIN plan[j].lines
             /\ lock[Now(j).product] \in S /\ lock[Now(j).product] # j
             /\ pc[j] # "written"
             /\ DOMAIN plan[j].lines \subseteq Nat
  <2>1. TypeOK /\ AtLine(j)
    BY DEF StockInvariant, JobOK
  <2>2. PICK x \in Plans : x = plan[j]
    BY <2>1 DEF TypeOK
  <2>3. x.lines \in Seq(Moves)
    BY StockAssumption
  <2>4. line[j] \in DOMAIN plan[j].lines /\ DOMAIN plan[j].lines \subseteq Nat
    BY <2>1, <2>2, <2>3 DEF AtLine
  <2>5. Now(j).product \in Products
    BY <2>1, LinesAreMoves
  <2>6. /\ lock[Now(j).product] \in S /\ lock[Now(j).product] # j
        /\ pc[j] # "written"
    BY DEF Circle, Waits, CanWrite
  <2> QED BY <2>4, <2>5, <2>6
<1>4. PICK R : R = {rank[Now(j).product] : j \in S}
  OBVIOUS
<1>5. R \in SUBSET (0..n) /\ R # {}
  <2>1. \A j \in S : rank[Now(j).product] \in 0..n
    BY <1>2, <1>3
  <2> QED BY <1>4, <2>1
<1>6. Max(R) \in R /\ \A r \in R : r <= Max(R)
  BY <1>5, GreatestIs
<1>7. PICK j \in S : \A k \in S : rank[Now(k).product] <= rank[Now(j).product]
  BY <1>4, <1>6
<1>8. PICK p \in Products : p = Now(j).product
  BY <1>3
<1>9. PICK k \in S : k = lock[p]
  BY <1>3, <1>8
<1>10. PICK i \in DOMAIN plan[k].lines : plan[k].lines[i].product = p /\ i < line[k]
  BY <1>3, <1>9 DEF LocksAreLines, Locked
<1>11. rank[p] <= rank[Now(k).product]
  <2>1. line[k] \in DOMAIN plan[k].lines /\ DOMAIN plan[k].lines \subseteq Nat
    BY <1>3
  <2>2. i <= line[k]
    BY <1>10, <2>1
  <2> QED BY <1>10, <2>1, <2>2 DEF InOrder, Now
<1>12. p = Now(k).product
  BY <1>2, <1>3, <1>7, <1>8, <1>11
<1> QED BY <1>3, <1>9, <1>12

(* Requests that list their products in one order never wait for each      *)
(* other in a circle: the loops of createSale, voidSale and refundSale     *)
(* take the rows in the order of the lines, and nothing else takes two.    *)
THEOREM CirclesNeedTwoOrdersAlways == Spec => []CirclesNeedTwoOrders
<1>1. Init => LocksAreLines
  BY StockAssumption DEF Init, LocksAreLines, Locked
<1>2. StockInvariant /\ LocksAreLines /\ [Next]_vars => LocksAreLines'
  BY LocksStep
<1>3. StockInvariant /\ LocksAreLines => CirclesNeedTwoOrders
  BY CircleNeedsTwoOrders
<1> QED BY <1>1, <1>2, <1>3, InvariantHolds, PTL DEF Spec

------------------------------------------------------------------------------
(* The rows and requests, as sets.                                         *)
PoRow == [status : PoStatuses, version : Nat, ordered : Orders, expected : Nat, paid : Nat,
          remaining : Nat, payment : {"unpaid", "partially_paid", "paid"}]

PaymentBody == [amount : Amounts, invoice : Amounts, override : BOOLEAN]

PurchaseRequest ==
  [pc : {"idle", "read", "looked", "matched", "overridden"}, op : AllOperations \cup {None}, shown : Nat,
   arg : Orders \cup Deliveries \cup PaymentBody \cup Lines \cup (Nat \X Amounts) \cup {None},
   total : Nat, found : SUBSET Nat]

(* What a request in flight carries is what its operation works with; the  *)
(* invoice it corrects exists.                                             *)
Carries(r, d) ==
  /\ r.op \in Operations
  /\ r.op = "edit" => r.arg \in Orders
  /\ r.op = "receive" => r.arg \in Deliveries
  /\ r.op = "pay" => r.arg \in PaymentBody
  /\ r.op \in {"stock_in", "stock_out"} => r.arg \in Lines
  /\ r.op = "supersede" => r.arg \in (DOMAIN d["commercial"]) \X Amounts

(* A document that was corrected is superseded, and by one correction; of  *)
(* the documents of a kind one is always issued.                           *)
Corrected(s) ==
  /\ \A i \in DOMAIN s : s[i].corrects # 0 =>
       /\ s[i].corrects \in DOMAIN s
       /\ s[s[i].corrects].status = "superseded"
  /\ \A i, j \in DOMAIN s : s[i].corrects = s[j].corrects => i = j \/ s[i].corrects = 0
  /\ s # <<>> => \E i \in DOMAIN s : s[i].status = "issued"

(* What a payment that holds the order has read is still so.               *)
Verified(c) ==
  /\ req[c].op = "pay" /\ req[c].arg.amount <= po.remaining
  /\ req[c].total \in InvoiceTotals(req[c].arg)
  /\ req[c].pc = "matched" <=> Matched(req[c].total)

HolderVerified ==
  \A c \in Callers : HoldsOrder(c) => Verified(c) /\ OrderFree(c)

PurchaseInvariant ==
  /\ po \in PoRow
  /\ received \in [Lines -> Nat] /\ shelf \in [Lines -> Nat] /\ moved \in [Lines -> Int]
  /\ StockExplained
  /\ docs \in [InvoiceKinds -> Seq(Document)] /\ payments \in Seq(Payment)
  /\ req \in [Callers -> PurchaseRequest]
  /\ \A c \in Callers : req[c].pc # "idle" => Carries(req[c], docs)
  /\ \A k \in InvoiceKinds : Corrected(docs[k])
  /\ Settled
  /\ HolderVerified

(* What an order is worth is not negative.                                 *)
LEMMA WorthNat == \A q \in [Lines -> Nat] : Worth(q) \in Nat
<1> SUFFICES ASSUME NEW q \in [Lines -> Nat] PROVE Worth(q) \in Nat
  OBVIOUS
<1>1. Sum(q, Lines) \in Nat
  BY PurchaseAssumption, SumNat
<1> HIDE DEF Worth
<1>2. Worth(q) = UnitCost * Sum(q, Lines)
  BY DEF Worth, Units
<1> QED BY <1>1, <1>2, PurchaseAssumption

(* A finite set of numbers has a greatest, which Newest names.             *)
LEMMA NewestInside ==
  ASSUME NEW S \in SUBSET Nat, IsFiniteSet(S), S # {}
  PROVE  Newest(S) \in S
<1> DEFINE Good == {T \in SUBSET S : T # {} => \E i \in T : \A j \in T : j <= i}
<1>1. {} \in Good
  OBVIOUS
<1>2. ASSUME NEW T \in SUBSET S, T # {}, \A U \in SUBSET T : U # T => U \in Good
      PROVE  T \in Good
  <2>1. PICK x \in T : TRUE
    BY <1>2
  <2>2. T \ {x} \in Good
    BY <1>2, <2>1
  <2>3. CASE T \ {x} = {}
    BY <2>1, <2>3
  <2>4. CASE T \ {x} # {}
    <3>1. PICK i \in T \ {x} : \A j \in T \ {x} : j <= i
      BY <2>2, <2>4
    <3>2. i \in Nat /\ x \in Nat
      BY <2>1
    <3>3. CASE x <= i
      BY <3>1, <3>3
    <3>4. CASE i <= x
      <4>1. \A j \in T : j <= x
        BY <3>1, <3>2, <3>4
      <4> QED BY <2>1, <4>1
    <3> QED BY <3>2, <3>3, <3>4
  <2> QED BY <2>3, <2>4
<1>3. S \in Good
  <2> HIDE DEF Good
  <2> QED BY <1>1, <1>2, SubsetInduction
<1> QED BY <1>3 DEF Newest

(* The issued documents of a kind are finitely many.                       *)
LEMMA IssuedFinite ==
  ASSUME NEW k, docs[k] \in Seq(Document)
  PROVE  IsFiniteSet(Issued(k)) /\ Issued(k) \in SUBSET Nat
<1>1. DOMAIN docs[k] = 1..Len(docs[k]) /\ Len(docs[k]) \in Nat
  BY LenProperties
<1>2. IsFiniteSet(1..Len(docs[k]))
  BY <1>1, FS_Interval
<1> QED BY <1>1, <1>2, FS_Subset DEF Issued

(* The total an issue is about to use is an amount.                        *)
LEMMA QuotedTotalNat ==
  ASSUME PurchaseInvariant, NEW op
  PROVE  QuotedTotal(op) \in Nat
<1>1. docs["proforma"] \in Seq(Document) /\ po.expected \in Nat
  BY DEF PurchaseInvariant, InvoiceKinds, PoRow
<1>2. ASSUME Issued("proforma") # {}
      PROVE  docs["proforma"][Newest(Issued("proforma"))].total \in Nat
  <2>1. Newest(Issued("proforma")) \in Issued("proforma")
    BY <1>1, <1>2, IssuedFinite, NewestInside
  <2>2. Newest(Issued("proforma")) \in DOMAIN docs["proforma"]
    BY <2>1 DEF Issued
  <2>3. docs["proforma"][Newest(Issued("proforma"))] \in Document
    BY <1>1, <2>2, ElementOfSeq, LenProperties
  <2> QED BY <2>3 DEF Document
<1> QED BY <1>1, <1>2 DEF QuotedTotal

(* The invariant of an order just created.                                 *)
LEMMA PurchaseInvariantInit == PurchaseInit => PurchaseInvariant
<1> SUFFICES ASSUME PurchaseInit PROVE PurchaseInvariant
  OBVIOUS
<1>1. PICK q \in Orders : po = Created(q, "draft", 0) \/ po = Created(q, "sent", 1)
  BY DEF PurchaseInit
<1>2. Worth(q) \in Nat
  BY WorthNat, PurchaseAssumption
<1>3. po \in PoRow /\ po.paid = 0 /\ po.remaining = Worth(q) /\ po.payment = "unpaid"
  BY <1>1, <1>2 DEF Created, PoRow, PoStatuses
<1>4. Paid = 0
  <2>1. DOMAIN payments = {}
    BY DEF PurchaseInit
  <2> QED BY <2>1, SumEmpty DEF Paid
<1>5. Settled
  BY <1>2, <1>3, <1>4 DEF Settled, PurchaseInit
<1>6. req \in [Callers -> PurchaseRequest] /\ \A c \in Callers : req[c].pc = "idle"
  BY DEF PurchaseInit, Idle, PurchaseRequest
<1>7. \A k \in InvoiceKinds : Corrected(docs[k])
  BY DEF PurchaseInit, Corrected
<1>8. StockExplained
  BY DEF PurchaseInit, StockExplained
<1>9. HolderVerified
  BY <1>6 DEF HolderVerified, HoldsOrder
<1> QED BY <1>3, <1>5, <1>6, <1>7, <1>8, <1>9 DEF PurchaseInit, PurchaseInvariant

(* A request that ends, while no invoice goes, leaves the others as typed. *)
LEMMA FinishedKeeps ==
  ASSUME PurchaseInvariant, NEW c \in Callers, req' = [req EXCEPT ![c] = Idle],
         DOMAIN docs["commercial"] \subseteq DOMAIN docs'["commercial"]
  PROVE  /\ req' \in [Callers -> PurchaseRequest]
         /\ \A d \in Callers : req'[d].pc # "idle" => Carries(req'[d], docs')
<1>1. Idle \in PurchaseRequest /\ Idle.pc = "idle"
  BY DEF Idle, PurchaseRequest
<1>2. req \in [Callers -> PurchaseRequest] /\ \A d \in Callers : req[d].pc # "idle" => Carries(req[d], docs)
  BY DEF PurchaseInvariant
<1>3. req' \in [Callers -> PurchaseRequest]
  BY <1>1, <1>2
<1>4. ASSUME NEW d \in Callers, req'[d].pc # "idle" PROVE Carries(req'[d], docs')
  <2>1. d # c /\ req'[d] = req[d]
    BY <1>1, <1>2, <1>4
  <2>2. Carries(req[d], docs)
    BY <1>2, <1>4, <2>1
  <2>3. Carries(req[d], docs')
    BY <2>2 DEF Carries
  <2> QED BY <2>1, <2>3
<1> QED BY <1>3, <1>4

(* A request that ends while no other one holds the order leaves it free.  *)
LEMMA HolderGone ==
  ASSUME PurchaseInvariant, NEW c \in Callers, req' = [req EXCEPT ![c] = Idle], OrderFree(c)
  PROVE  HolderVerified'
BY DEF PurchaseInvariant, HolderVerified, HoldsOrder, OrderFree, Idle

(* What a holder has read is untouched by a request that only reads, or    *)
(* ends, or moves other tables.                                            *)
LEMMA HolderStays ==
  ASSUME PurchaseInvariant, NEW c \in Callers, NEW r, req' = [req EXCEPT ![c] = r],
         r.pc \notin {"matched", "overridden"},
         po' = po, received' = received, docs' = docs
  PROVE  HolderVerified'
<1> SUFFICES ASSUME NEW d \in Callers, HoldsOrder(d)' PROVE Verified(d)' /\ OrderFree(d)'
  BY DEF HolderVerified
<1>1. d # c /\ req'[d] = req[d] /\ \A e \in Callers : HoldsOrder(e)' => HoldsOrder(e)
  BY DEF PurchaseInvariant, HoldsOrder
<1>2. Verified(d) /\ OrderFree(d)
  BY <1>1 DEF PurchaseInvariant, HolderVerified
<1>3. \A n : Matched(n)' = Matched(n)
  BY DEF Matched, Distance, Tolerance, Lesser
<1>4. InvoiceTotals(req[d].arg)' = InvoiceTotals(req[d].arg)
  BY <1>1 DEF InvoiceTotals, Issued
<1>5. Verified(d)'
  BY <1>1, <1>2, <1>3, <1>4 DEF Verified
<1> QED BY <1>1, <1>2, <1>5 DEF OrderFree

(* The request of a step carries what its operation works with.            *)
LEMMA AtCarries ==
  ASSUME PurchaseInvariant, NEW c \in Callers, NEW op, At(c, op)
  PROVE  Carries(req[c], docs) /\ req[c].op = op
BY DEF At, PurchaseInvariant

(* A request that is composed carries what its operation works with.       *)
LEMMA PurchaseComposeStep ==
  ASSUME PurchaseInvariant, NEW c \in Callers, Compose(c)
  PROVE  PurchaseInvariant'
<1>0. PICK op \in Operations : \E arg \in Bodies(op) :
        req' = [req EXCEPT ![c] =
                  [pc |-> "read", op |-> op, shown |-> po.version, arg |-> arg,
                   total |-> IF op \in InvoiceKinds THEN QuotedTotal(op) ELSE 0, found |-> {}]]
  BY DEF Compose
<1>1. PICK arg \in Bodies(op) :
        req' = [req EXCEPT ![c] =
                  [pc |-> "read", op |-> op, shown |-> po.version, arg |-> arg,
                   total |-> IF op \in InvoiceKinds THEN QuotedTotal(op) ELSE 0, found |-> {}]]
  BY <1>0
<1>2. UNCHANGED tables
  BY DEF Compose
<1>3. PICK t : t = IF op \in InvoiceKinds THEN QuotedTotal(op) ELSE 0
  OBVIOUS
<1>4. t \in Nat
  BY <1>3, QuotedTotalNat
<1>5. PICK r : r = [pc |-> "read", op |-> op, shown |-> po.version, arg |-> arg, total |-> t, found |-> {}]
  OBVIOUS
<1>6. req' = [req EXCEPT ![c] = r]
  BY <1>1, <1>3, <1>5
<1>7. po.version \in Nat /\ op \in AllOperations
  BY PurchaseAssumption DEF PurchaseInvariant, PoRow
<1>8. DOMAIN docs["commercial"] \subseteq Nat
  <2>1. docs["commercial"] \in Seq(Document)
    BY DEF PurchaseInvariant, InvoiceKinds
  <2> QED BY <2>1
<1>9. /\ arg \in Orders \cup Deliveries \cup PaymentBody \cup Lines \cup (Nat \X Amounts) \cup {None}
      /\ op = "edit" => arg \in Orders
      /\ op = "receive" => arg \in Deliveries
      /\ op = "pay" => arg \in PaymentBody
      /\ op \in {"stock_in", "stock_out"} => arg \in Lines
      /\ op = "supersede" => arg \in (DOMAIN docs["commercial"]) \X Amounts
  <2>1. CASE op = "edit"
    BY <2>1 DEF Bodies
  <2>2. CASE op = "receive"
    BY <2>2 DEF Bodies
  <2>3. CASE op = "pay"
    BY <2>3 DEF Bodies, PaymentBody
  <2>4. CASE op \in {"stock_in", "stock_out"}
    BY <2>4 DEF Bodies
  <2>5. CASE op = "supersede"
    <3>1. arg \in (DOMAIN docs["commercial"]) \X Amounts
      BY <2>5 DEF Bodies
    <3>2. arg \in Nat \X Amounts
      BY <1>8, <3>1
    <3> QED BY <2>5, <3>1, <3>2
  <2>6. CASE op \notin {"edit", "receive", "pay", "stock_in", "stock_out", "supersede"}
    BY <2>6 DEF Bodies
  <2> QED BY <2>1, <2>2, <2>3, <2>4, <2>5, <2>6
<1>10. r \in PurchaseRequest
  BY <1>4, <1>5, <1>7, <1>9 DEF PurchaseRequest
<1>11. Carries(r, docs)
  BY <1>5, <1>9 DEF Carries
<1>12. req' \in [Callers -> PurchaseRequest] /\ \A d \in Callers : req'[d] = IF d = c THEN r ELSE req[d]
  BY <1>6, <1>10 DEF PurchaseInvariant
<1>13. \A d \in Callers : req'[d].pc # "idle" => Carries(req'[d], docs)
  BY <1>11, <1>12 DEF PurchaseInvariant
<1>14. (\A d \in Callers : req'[d].pc # "idle" => Carries(req'[d], docs'))
  BY <1>2, <1>13 DEF tables
<1>15. HolderVerified'
  BY <1>2, <1>5, <1>6, HolderStays DEF tables
<1> QED BY <1>2, <1>12, <1>14, <1>15 DEF PurchaseInvariant, tables, Settled, Paid, StockExplained

(* The steps that only replace the order row.                              *)
LEMMA OrderRowStep ==
  ASSUME PurchaseInvariant, NEW c \in Callers, Finished(c), OrderFree(c),
         UNCHANGED <<received, shelf, moved, docs, payments>>, po' \in PoRow,
         po'.paid = po.paid, po'.remaining = po.remaining, po'.payment = po.payment
  PROVE  PurchaseInvariant'
<1>1. /\ req' \in [Callers -> PurchaseRequest]
      /\ \A d \in Callers : req'[d].pc # "idle" => Carries(req'[d], docs')
  BY FinishedKeeps DEF Finished
<1>2. Settled'
  BY DEF PurchaseInvariant, Settled, Paid
<1>3. HolderVerified'
  BY HolderGone DEF Finished
<1> QED BY <1>1, <1>2, <1>3 DEF PurchaseInvariant, StockExplained

(* The version goes up with every write of the row.                        *)
LEMMA RowMoved ==
  ASSUME NEW x \in PoRow, NEW s \in PoStatuses, NEW y, y = [x EXCEPT !.status = s, !.version = @ + 1]
  PROVE  y \in PoRow /\ y.paid = x.paid /\ y.remaining = x.remaining /\ y.payment = x.payment
<1>1. y = [status |-> s, version |-> x.version + 1, ordered |-> x.ordered, expected |-> x.expected,
           paid |-> x.paid, remaining |-> x.remaining, payment |-> x.payment]
  BY DEF PoRow
<1>2. x.version + 1 \in Nat
  BY DEF PoRow
<1> QED BY <1>1, <1>2 DEF PoRow

(* updatePurchaseOrder: what was paid and remains is as before.            *)
LEMMA EditStep ==
  ASSUME PurchaseInvariant, NEW c \in Callers, Edit(c)
  PROVE  PurchaseInvariant'
<1>1. req[c].arg \in Orders
  BY AtCarries DEF Edit, Carries
<1>2. Worth(req[c].arg) \in Nat
  BY <1>1, WorthNat, PurchaseAssumption
<1>3. PICK q, w : q = req[c].arg /\ w = Worth(req[c].arg)
  OBVIOUS
<1>4. po' = [po EXCEPT !.ordered = q, !.expected = w, !.version = @ + 1]
  BY <1>3 DEF Edit
<1>5. po \in PoRow
  BY DEF PurchaseInvariant
<1>6. po' \in PoRow /\ po'.paid = po.paid /\ po'.remaining = po.remaining /\ po'.payment = po.payment
  <2>1. PICK x : x = po
    OBVIOUS
  <2>2. x \in PoRow /\ q \in Orders /\ w \in Nat /\ po' = [x EXCEPT !.ordered = q, !.expected = w, !.version = @ + 1]
    BY <1>1, <1>2, <1>3, <1>4, <1>5, <2>1
  <2>3. po' = [status |-> x.status, version |-> x.version + 1, ordered |-> q, expected |-> w,
               paid |-> x.paid, remaining |-> x.remaining, payment |-> x.payment]
    BY <2>2 DEF PoRow
  <2>4. x.version + 1 \in Nat
    BY <2>2 DEF PoRow
  <2>5. po' \in PoRow
    BY <2>2, <2>3, <2>4 DEF PoRow
  <2> QED BY <2>1, <2>3, <2>5
<1> QED BY <1>6, OrderRowStep DEF Edit

(* send, confirm and cancel.                                               *)
LEMMA StatusStep ==
  ASSUME PurchaseInvariant, NEW c \in Callers, NEW from, NEW to \in PoStatuses,
         StatusMoves(c, from, to)
  PROVE  PurchaseInvariant'
<1>1. po \in PoRow /\ po' = [po EXCEPT !.status = to, !.version = @ + 1]
  BY DEF StatusMoves, PurchaseInvariant
<1>2. po' \in PoRow /\ po'.paid = po.paid /\ po'.remaining = po.remaining /\ po'.payment = po.payment
  BY <1>1, RowMoved
<1> QED BY <1>2, OrderRowStep DEF StatusMoves

(* createGoodsReceivedNote: what came is received and on the shelf.        *)
LEMMA ReceiveStep ==
  ASSUME PurchaseInvariant, NEW c \in Callers, Receive(c)
  PROVE  PurchaseInvariant'
<1>1. req[c].arg \in [Lines -> Nat]
  BY AtCarries, PurchaseAssumption DEF Receive, Carries
<1>2. PICK d : d = req[c].arg
  OBVIOUS
<1>3. /\ received' = [l \in Lines |-> received[l] + d[l]] /\ shelf' = [l \in Lines |-> shelf[l] + d[l]]
      /\ moved' = moved /\ docs' = docs /\ payments' = payments /\ req' = [req EXCEPT ![c] = Idle]
  BY <1>2 DEF Receive, Finished
<1>4. /\ received \in [Lines -> Nat] /\ shelf \in [Lines -> Nat] /\ moved \in [Lines -> Int]
      /\ StockExplained /\ po \in PoRow
  BY DEF PurchaseInvariant
<1>5. received' \in [Lines -> Nat] /\ shelf' \in [Lines -> Nat]
  BY <1>1, <1>2, <1>3, <1>4
<1>6. StockExplained'
  <2> SUFFICES ASSUME NEW l \in Lines PROVE shelf'[l] = received'[l] + moved[l] /\ shelf'[l] >= 0
    BY <1>3 DEF StockExplained
  <2>1. d[l] \in Nat /\ received[l] \in Nat /\ shelf[l] \in Nat /\ moved[l] \in Int
    BY <1>1, <1>2, <1>4
  <2>2. shelf[l] = received[l] + moved[l]
    BY <1>4 DEF StockExplained
  <2> QED BY <1>3, <2>1, <2>2
<1>7. PICK s \in PoStatuses : po' = [po EXCEPT !.status = s, !.version = @ + 1]
  <2>1. ReceiptStatus(received', req[c].arg) \in PoStatuses
    BY DEF ReceiptStatus, PoStatuses
  <2>2. po' = [po EXCEPT !.status = ReceiptStatus(received', req[c].arg), !.version = @ + 1]
    BY DEF Receive
  <2> QED BY <2>1, <2>2
<1>8. po' \in PoRow /\ po'.paid = po.paid /\ po'.remaining = po.remaining /\ po'.payment = po.payment
  BY <1>4, <1>7, RowMoved
<1>9. Settled'
  BY <1>3, <1>8 DEF PurchaseInvariant, Settled, Paid
<1>10. /\ req' \in [Callers -> PurchaseRequest]
       /\ \A e \in Callers : req'[e].pc # "idle" => Carries(req'[e], docs')
  BY <1>3, FinishedKeeps
<1>11. HolderVerified'
  BY <1>3, HolderGone DEF Receive
<1> QED BY <1>3, <1>5, <1>6, <1>8, <1>9, <1>10, <1>11 DEF PurchaseInvariant

(* stockIn and stockOut, which takes only what is there.                   *)
LEMMA MovementStep ==
  ASSUME PurchaseInvariant, NEW c \in Callers, StockIn(c) \/ StockOut(c)
  PROVE  PurchaseInvariant'
<1>1. PICK l, n : /\ l = req[c].arg /\ l \in Lines /\ n \in Int /\ shelf[l] + n >= 0 /\ Move(c, l, n)
  <2>0. shelf \in [Lines -> Nat]
    BY DEF PurchaseInvariant
  <2>1. CASE StockIn(c)
    <3>1. req[c].arg \in Lines /\ Move(c, req[c].arg, 1)
      BY <2>1, AtCarries DEF StockIn, Carries
    <3> QED BY <2>0, <3>1
  <2>2. CASE StockOut(c)
    <3>1. req[c].arg \in Lines /\ Move(c, req[c].arg, -1) /\ shelf[req[c].arg] >= 1
      BY <2>2, AtCarries DEF StockOut, Carries, InStock
    <3>2. shelf[req[c].arg] + (-1) >= 0
      BY <2>0, <3>1
    <3> QED BY <3>1, <3>2
  <2> QED BY <2>1, <2>2
<1>2. /\ shelf' = [shelf EXCEPT ![l] = @ + n] /\ moved' = [moved EXCEPT ![l] = @ + n]
      /\ po' = po /\ received' = received /\ docs' = docs /\ payments' = payments
      /\ req' = [req EXCEPT ![c] = Idle]
  BY <1>1 DEF Move, Finished
<1>3. /\ received \in [Lines -> Nat] /\ shelf \in [Lines -> Nat] /\ moved \in [Lines -> Int] /\ StockExplained
  BY DEF PurchaseInvariant
<1>4. shelf' \in [Lines -> Nat] /\ moved' \in [Lines -> Int]
  BY <1>1, <1>2, <1>3
<1>5. StockExplained'
  <2> SUFFICES ASSUME NEW k \in Lines PROVE shelf'[k] = received[k] + moved'[k] /\ shelf'[k] >= 0
    BY <1>2 DEF StockExplained
  <2>1. shelf[k] = received[k] + moved[k] /\ shelf[k] >= 0
    BY <1>3 DEF StockExplained
  <2>2. shelf'[k] = (IF k = l THEN shelf[k] + n ELSE shelf[k]) /\ moved'[k] = IF k = l THEN moved[k] + n ELSE moved[k]
    BY <1>2, <1>3
  <2>3. received[k] \in Nat /\ shelf[k] \in Nat /\ moved[k] \in Int
    BY <1>3
  <2> QED BY <1>1, <2>1, <2>2, <2>3
<1>6. /\ req' \in [Callers -> PurchaseRequest]
      /\ \A e \in Callers : req'[e].pc # "idle" => Carries(req'[e], docs')
  BY <1>2, FinishedKeeps
<1>7. Settled'
  BY <1>2 DEF PurchaseInvariant, Settled, Paid
<1>8. HolderVerified'
  BY <1>2, HolderStays DEF Idle
<1> QED BY <1>2, <1>4, <1>5, <1>6, <1>7, <1>8 DEF PurchaseInvariant

(* The match of a payment: what it has read is so, and the order is its    *)
(* own.                                                                    *)
LEMMA MatchStep ==
  ASSUME PurchaseInvariant, NEW c \in Callers, Match(c)
  PROVE  PurchaseInvariant'
<1>1. /\ req[c].pc = "read" /\ req[c].op = "pay" /\ OrderFree(c)
      /\ req[c].arg.amount <= po.remaining /\ UNCHANGED tables
  BY DEF Match, At
<1>2. PICK invoice \in InvoiceTotals(req[c].arg) :
        req' = [req EXCEPT ![c].pc = IF Matched(invoice) THEN "matched" ELSE "overridden",
                           ![c].total = invoice]
  BY DEF Match
<1>3. PICK x, m : x = req[c] /\ m = IF Matched(invoice) THEN "matched" ELSE "overridden"
  OBVIOUS
<1>4. x \in PurchaseRequest /\ Carries(x, docs) /\ req \in [Callers -> PurchaseRequest]
  BY <1>1, <1>3 DEF PurchaseInvariant
<1>5. invoice \in Nat
  <2>0. req[c].arg \in PaymentBody /\ docs["commercial"] \in Seq(Document)
    BY <1>1, <1>3, <1>4 DEF Carries, PurchaseInvariant, InvoiceKinds
  <2>1. CASE Issued("commercial") = {}
    BY <2>0, <2>1, PurchaseAssumption DEF InvoiceTotals, PaymentBody
  <2>2. CASE Issued("commercial") # {}
    <3>1. PICK i \in Issued("commercial") : invoice = docs["commercial"][i].total
      BY <2>2 DEF InvoiceTotals
    <3>2. i \in DOMAIN docs["commercial"]
      BY <3>1 DEF Issued
    <3>3. docs["commercial"][i] \in Document
      BY <2>0, <3>2, ElementOfSeq, LenProperties
    <3> QED BY <3>1, <3>3 DEF Document
  <2> QED BY <2>1, <2>2
<1>6. PICK r : r = [x EXCEPT !.pc = m, !.total = invoice]
  OBVIOUS
<1>7. m \in {"matched", "overridden"} /\ (m = "matched" <=> Matched(invoice))
  BY <1>3
<1>8. r = [pc |-> m, op |-> x.op, shown |-> x.shown, arg |-> x.arg, total |-> invoice, found |-> x.found]
  BY <1>4, <1>6 DEF PurchaseRequest
<1>9. r \in PurchaseRequest
  BY <1>4, <1>5, <1>7, <1>8 DEF PurchaseRequest
<1>10. req' = [req EXCEPT ![c] = r]
  BY <1>2, <1>3, <1>4, <1>6
<1>11. req' \in [Callers -> PurchaseRequest] /\ \A d \in Callers : req'[d] = IF d = c THEN r ELSE req[d]
  BY <1>4, <1>9, <1>10
<1>12. Carries(r, docs)
  BY <1>4, <1>8 DEF Carries
<1>13. \A d \in Callers : req'[d].pc # "idle" => Carries(req'[d], docs')
  BY <1>1, <1>11, <1>12 DEF PurchaseInvariant, tables
<1>14. HolderVerified'
  <2>1. \A d \in Callers \ {c} : ~HoldsOrder(d)'
    BY <1>1, <1>11 DEF OrderFree, HoldsOrder
  <2>2. OrderFree(c)'
    BY <2>1 DEF OrderFree
  <2>3. Verified(c)'
    <3>1. r.op = "pay" /\ r.arg = req[c].arg /\ r.total = invoice /\ r.pc = m
      BY <1>1, <1>3, <1>8
    <3>2. Matched(invoice)' = Matched(invoice)
      BY <1>1 DEF tables, Matched, Distance, Tolerance, Lesser
    <3>3. InvoiceTotals(r.arg)' = InvoiceTotals(r.arg)
      BY <1>1 DEF tables, InvoiceTotals, Issued
    <3> QED BY <1>1, <1>2, <1>7, <1>11, <3>1, <3>2, <3>3 DEF Verified, tables
  <2> QED BY <2>1, <2>2, <2>3 DEF HolderVerified
<1> QED BY <1>1, <1>11, <1>13, <1>14 DEF PurchaseInvariant, tables, Settled, Paid, StockExplained

(* A payment moves its amount from what remains to what is paid.           *)
LEMMA PaymentStep ==
  ASSUME PurchaseInvariant, NEW c \in Callers, Pay(c)
  PROVE  PurchaseInvariant'
<1>0. Verified(c) /\ OrderFree(c) /\ req[c] \in PurchaseRequest /\ req[c].pc # "idle"
  BY DEF Pay, HoldsOrder, PurchaseInvariant, HolderVerified
<1>1. req[c].arg \in PaymentBody
  BY <1>0 DEF PurchaseInvariant, Carries, Verified
<1>2. PICK n, invoice, m, o :
        /\ n = req[c].arg.amount /\ invoice = req[c].total
        /\ m = (IF req[c].pc = "matched" THEN "matched" ELSE "match_failed")
        /\ o = (req[c].pc # "matched")
  OBVIOUS
<1>3. n \in Nat \ {0} /\ n \in Amounts /\ n <= po.remaining
  <2>1. n \in Amounts
    BY <1>1, <1>2 DEF PaymentBody
  <2> QED BY <1>0, <1>2, <2>1, PurchaseAssumption DEF Verified
<1>4. /\ po' = [po EXCEPT !.paid = @ + n, !.remaining = po.remaining - n,
                   !.payment = PaymentStatus(po.paid + n, po.remaining - n), !.version = @ + 1]
      /\ payments' = Append(payments,
            [amount |-> n, invoice |-> invoice, overridden |-> o, match |-> m, expense |-> n])
  BY <1>2 DEF Pay
<1>5. /\ req' = [req EXCEPT ![c] = Idle] /\ received' = received /\ shelf' = shelf /\ moved' = moved
      /\ docs' = docs
  BY DEF Pay, Finished
<1>6. /\ po \in PoRow /\ Settled /\ payments \in Seq(Payment) /\ docs["commercial"] \in Seq(Document)
  BY DEF PurchaseInvariant, InvoiceKinds
<1>7. po.paid \in Nat /\ po.remaining \in Nat /\ po.version \in Nat
  BY <1>6 DEF PoRow
<1>8. PICK rest : rest = po.remaining - n
  OBVIOUS
<1>9. PICK s : s = PaymentStatus(po.paid + n, rest)
  OBVIOUS
<1>10. rest \in Nat /\ s = IF rest = 0 THEN "paid" ELSE "partially_paid"
  <2>1. rest \in Nat
    BY <1>3, <1>7, <1>8
  <2>2. po.paid + n > 0
    BY <1>3, <1>7
  <2> QED BY <1>9, <2>1, <2>2 DEF PaymentStatus
<1>11. po' = [status |-> po.status, version |-> po.version + 1, ordered |-> po.ordered,
              expected |-> po.expected, paid |-> po.paid + n, remaining |-> rest, payment |-> s]
  <2>1. po' = [po EXCEPT !.paid = @ + n, !.remaining = rest, !.payment = s, !.version = @ + 1]
    BY <1>4, <1>8, <1>9
  <2>2. PICK x : x = po
    OBVIOUS
  <2>3. x \in PoRow /\ po' = [x EXCEPT !.paid = @ + n, !.remaining = rest, !.payment = s, !.version = @ + 1]
    BY <1>6, <2>1, <2>2
  <2>4. po' = [status |-> x.status, version |-> x.version + 1, ordered |-> x.ordered,
               expected |-> x.expected, paid |-> x.paid + n, remaining |-> rest, payment |-> s]
    BY <2>3 DEF PoRow
  <2> QED BY <2>2, <2>4
<1>12. po' \in PoRow
  <2>1. po.version + 1 \in Nat /\ po.paid + n \in Nat
    BY <1>3, <1>7
  <2> QED BY <1>6, <1>10, <1>11, <2>1 DEF PoRow
<1>13. PICK p : p = [amount |-> n, invoice |-> invoice, overridden |-> o, match |-> m, expense |-> n]
  OBVIOUS
<1>14. payments' = Append(payments, p)
  BY <1>4, <1>13
<1>16. p \in Payment /\ p.amount = n
  <2>1. invoice \in Nat /\ m \in {"matched", "match_failed"} /\ o \in BOOLEAN
    BY <1>0, <1>2 DEF PurchaseRequest
  <2> QED BY <1>3, <1>13, <2>1 DEF Payment
<1>17. /\ payments' \in Seq(Payment) /\ payments' # <<>> /\ Len(payments') = Len(payments) + 1
       /\ \A i \in 1..Len(payments) : payments'[i] = payments[i]
       /\ payments'[Len(payments) + 1] = p
  BY <1>6, <1>14, <1>16, AppendProperties
<1>18. Paid' = Paid + n
  <2> DEFINE f == [i \in DOMAIN payments |-> payments[i].amount]
             g == [i \in DOMAIN payments' |-> payments'[i].amount]
  <2>1. DOMAIN payments = 1..Len(payments) /\ Len(payments) \in Nat
        /\ DOMAIN payments' = 1..(Len(payments) + 1)
    BY <1>6, <1>17, LenProperties
  <2>2. \A i \in 1..Len(payments) : f[i] \in Int
    <3> SUFFICES ASSUME NEW i \in 1..Len(payments) PROVE payments[i].amount \in Int
      BY <2>1
    <3>1. payments[i] \in Payment
      BY <1>6, ElementOfSeq
    <3>2. payments[i].amount \in Amounts
      BY <3>1 DEF Payment
    <3>3. Amounts \subseteq Int
      BY PurchaseAssumption
    <3> HIDE DEF f, g
    <3> QED BY <3>2, <3>3, Zenon
  <2>3. \A i \in 1..Len(payments) : g[i] = f[i]
    BY <1>17, <2>1
  <2>4. g[Len(payments) + 1] = n
    BY <1>16, <1>17, <2>1
  <2>5. Paid = Sum(f, 1..Len(payments)) /\ Paid' = Sum(g, 1..(Len(payments) + 1))
    BY <2>1 DEF Paid
  <2> HIDE DEF f, g
  <2>6. n \in Int
    BY <1>3
  <2>7. Sum(g, 1..(Len(payments) + 1)) = Sum(f, 1..Len(payments)) + g[Len(payments) + 1]
    BY <2>1, <2>2, <2>3, <2>4, <2>6, SumAppended
  <2> QED BY <2>4, <2>5, <2>7
<1>19. Settled'
  <2>1. po'.paid = Paid'
    BY <1>6, <1>11, <1>18 DEF Settled
  <2>2. po'.paid + po'.remaining = po.paid + po.remaining
    BY <1>3, <1>7, <1>8, <1>11
  <2>3. po'.payment = IF po'.remaining = 0 THEN "paid" ELSE "partially_paid"
    BY <1>10, <1>11
  <2>4. po.paid + po.remaining \in {Worth(q) : q \in Orders}
    BY <1>6 DEF Settled
  <2> QED BY <1>17, <2>1, <2>2, <2>3, <2>4 DEF Settled
<1>20. /\ req' \in [Callers -> PurchaseRequest]
       /\ \A e \in Callers : req'[e].pc # "idle" => Carries(req'[e], docs')
  BY <1>5, FinishedKeeps
<1>21. StockExplained'
  BY <1>5 DEF PurchaseInvariant, StockExplained
<1>22. HolderVerified'
  BY <1>0, <1>5, HolderGone
<1> QED BY <1>5, <1>12, <1>17, <1>19, <1>20, <1>21, <1>22 DEF PurchaseInvariant

(* The look before an issue: the request carries the documents found.      *)
LEMMA LookStep ==
  ASSUME PurchaseInvariant, NEW c \in Callers, Look(c)
  PROVE  PurchaseInvariant'
<1>1. /\ req[c].pc = "read" /\ req[c].op \in InvoiceKinds
      /\ req' = [req EXCEPT ![c].pc = "looked", ![c].found = Issued(req[c].op)] /\ UNCHANGED tables
  BY DEF Look
<1>2. req \in [Callers -> PurchaseRequest] /\ docs \in [InvoiceKinds -> Seq(Document)]
  BY DEF PurchaseInvariant
<1>3. PICK S : S = Issued(req[c].op)
  OBVIOUS
<1>4. S \in SUBSET Nat
  BY <1>1, <1>2, <1>3, IssuedFinite
<1>5. PICK r : r = [req[c] EXCEPT !.pc = "looked", !.found = S]
  OBVIOUS
<1>6. r \in PurchaseRequest /\ r.op = req[c].op /\ r.arg = req[c].arg
  <2>1. PICK x : x = req[c]
    OBVIOUS
  <2>2. x \in PurchaseRequest /\ r = [x EXCEPT !.pc = "looked", !.found = S]
    BY <1>2, <1>5, <2>1
  <2>3. r = [pc |-> "looked", op |-> x.op, shown |-> x.shown, arg |-> x.arg, total |-> x.total, found |-> S]
    BY <2>2 DEF PurchaseRequest
  <2> QED BY <1>4, <2>1, <2>2, <2>3 DEF PurchaseRequest
<1>7. req' = [req EXCEPT ![c] = r]
  <2>1. req' = [req EXCEPT ![c].pc = "looked", ![c].found = S]
    BY <1>1, <1>3
  <2> QED BY <1>2, <1>5, <2>1
<1>8. req' \in [Callers -> PurchaseRequest] /\ \A d \in Callers : req'[d] = IF d = c THEN r ELSE req[d]
  BY <1>2, <1>6, <1>7
<1>9. Carries(req[c], docs)
  BY <1>1 DEF PurchaseInvariant
<1>10. Carries(r, docs)
  BY <1>6, <1>9 DEF Carries
<1>11. \A d \in Callers : req'[d].pc # "idle" => Carries(req'[d], docs)
  BY <1>8, <1>10 DEF PurchaseInvariant
<1>12. \A d \in Callers : req'[d].pc # "idle" => Carries(req'[d], docs')
  BY <1>1, <1>11 DEF tables
<1>13. HolderVerified'
  BY <1>1, <1>5, <1>7, HolderStays DEF tables, PurchaseInvariant, PurchaseRequest
<1> QED BY <1>1, <1>8, <1>12, <1>13 DEF PurchaseInvariant, tables, Settled, Paid, StockExplained

(* A new document takes the place of those it supersedes: of those that    *)
(* were found issued, or of the one it corrects, which is issued.          *)
LEMMA DocumentsGrow ==
  ASSUME NEW s \in Seq(Document), Corrected(s), NEW S, NEW d \in Document, d.status = "issued",
         d.corrects = 0 \/ /\ d.corrects \in S \cap DOMAIN s
                           /\ s[d.corrects].status = "issued"
  PROVE  /\ Append(Supersede(s, S), d) \in Seq(Document)
         /\ Corrected(Append(Supersede(s, S), d))
         /\ DOMAIN s \subseteq DOMAIN Append(Supersede(s, S), d)
<1> DEFINE u == Supersede(s, S)  t == Append(u, d)  n == Len(s)
<1>1. DOMAIN s = 1..n /\ n \in Nat /\ \A i \in 1..n : s[i] \in Document
  BY LenProperties, ElementOfSeq
<1>2. ASSUME NEW i \in 1..n
      PROVE  /\ u[i] \in Document /\ u[i].corrects = s[i].corrects
             /\ s[i].status = "superseded" => u[i].status = "superseded"
             /\ i \in S => u[i].status = "superseded"
  <2>1. PICK x : x = s[i]
    OBVIOUS
  <2>2. x \in Document
    BY <1>1, <2>1
  <2>3. u[i] = IF i \in S THEN [x EXCEPT !.status = "superseded"] ELSE x
    BY <1>1, <2>1 DEF Supersede
  <2>4. [x EXCEPT !.status = "superseded"] =
          [total |-> x.total, status |-> "superseded", corrects |-> x.corrects]
    BY <2>2 DEF Document
  <2>5. [total |-> x.total, status |-> "superseded", corrects |-> x.corrects] \in Document
    BY <2>2 DEF Document
  <2> QED BY <2>1, <2>2, <2>3, <2>4, <2>5
<1>3. u \in Seq(Document) /\ Len(u) = n
  <2>1. u = [i \in 1..n |-> u[i]]
    BY <1>1 DEF Supersede
  <2>2. u \in [1..n -> Document]
    BY <1>2, <2>1
  <2>3. u \in Seq(Document)
    BY <1>1, <2>2, SeqDef
  <2>4. DOMAIN u = 1..Len(u) /\ Len(u) \in Nat
    BY <2>3, LenProperties
  <2>5. DOMAIN u = 1..n
    BY <2>1
  <2> HIDE DEF u, n
  <2>6. PICK m \in Nat : m = Len(u) /\ 1..m = 1..n
    BY <2>4, <2>5
  <2>7. n \in Nat
    BY <1>1
  <2>8. ~(m < n)
    <3>1. n \in 1..n \/ n = 0
      BY <2>7
    <3> QED BY <2>6, <2>7, <3>1
  <2>9. ~(n < m)
    <3>1. m \in 1..m \/ m = 0
      OBVIOUS
    <3> QED BY <2>6, <2>7, <3>1
  <2> QED BY <2>3, <2>6, <2>7, <2>8, <2>9
<1>4. /\ t \in Seq(Document) /\ Len(t) = n + 1 /\ t[n + 1] = d /\ t # <<>>
      /\ \A i \in 1..n : t[i] = u[i]
  <2> HIDE DEF u
  <2> QED BY <1>3, AppendProperties
<1>5. DOMAIN t = 1..(n + 1)
  BY <1>4, LenProperties
<1>6. ASSUME NEW i \in DOMAIN t
      PROVE  (i = n + 1 /\ t[i] = d) \/ (i \in 1..n /\ t[i] = u[i])
  BY <1>1, <1>4, <1>5
<1> HIDE DEF t, u, n
<1>7. ASSUME NEW i \in 1..n
      PROVE  /\ t[i].corrects = s[i].corrects
             /\ s[i].status = "superseded" => t[i].status = "superseded"
             /\ i \in S => t[i].status = "superseded"
  BY <1>2, <1>4
<1>8. ASSUME NEW i \in DOMAIN t, t[i].corrects # 0
      PROVE  t[i].corrects \in 1..n /\ t[t[i].corrects].status = "superseded"
  <2>1. CASE i = n + 1
    <3>1. d.corrects \in S \cap (1..n)
      BY <1>1, <1>4, <1>8, <2>1
    <3> QED BY <1>4, <1>7, <2>1, <3>1
  <2>2. CASE i \in 1..n
    <3>1. s[i].corrects \in 1..n /\ s[s[i].corrects].status = "superseded"
      BY <1>1, <1>7, <1>8, <2>2 DEF Corrected
    <3> QED BY <1>7, <2>2, <3>1
  <2> QED BY <1>6, <2>1, <2>2
<1>9. ASSUME NEW i \in 1..n, s[i].corrects = d.corrects PROVE d.corrects = 0
  <2>1. s[i].corrects # 0 => s[s[i].corrects].status = "superseded"
    BY <1>1 DEF Corrected
  <2> QED BY <1>9, <2>1
<1>10. ASSUME NEW i \in DOMAIN t, NEW j \in DOMAIN t, t[i].corrects = t[j].corrects
       PROVE  i = j \/ t[i].corrects = 0
  <2>1. CASE i \in 1..n /\ j \in 1..n
    BY <1>1, <1>7, <1>10, <2>1 DEF Corrected
  <2>2. CASE i \in 1..n /\ j = n + 1
    BY <1>4, <1>7, <1>9, <1>10, <2>2
  <2>3. CASE i = n + 1 /\ j \in 1..n
    BY <1>4, <1>7, <1>9, <1>10, <2>3
  <2> QED BY <1>6, <2>1, <2>2, <2>3
<1>11. n + 1 \in DOMAIN t /\ t[n + 1].status = "issued"
  BY <1>1, <1>4, <1>5
<1>12. 1..n \subseteq DOMAIN t
  BY <1>1, <1>5
<1>13. Corrected(t)
  BY <1>8, <1>10, <1>11, <1>12 DEF Corrected
<1> QED BY <1>1, <1>4, <1>12, <1>13 DEF t, u

(* An issue corrects nothing and leaves an issued document.                *)
LEMMA IssueStep ==
  ASSUME PurchaseInvariant, NEW c \in Callers, NEW k \in InvoiceKinds, Issue(c, k)
  PROVE  PurchaseInvariant'
<1> DEFINE d == [total |-> req[c].total, status |-> "issued", corrects |-> 0]
           t == Append(Supersede(docs[k], req[c].found), d)
<1>1. /\ docs' = [docs EXCEPT ![k] = t] /\ req' = [req EXCEPT ![c] = Idle]
      /\ UNCHANGED <<po, received, shelf, moved, dispatched, payments>>
  BY DEF Issue, Finished
<1>2. req[c] \in PurchaseRequest /\ docs \in [InvoiceKinds -> Seq(Document)] /\ Corrected(docs[k])
  BY DEF PurchaseInvariant
<1>3. d \in Document /\ d.status = "issued" /\ d.corrects = 0
  BY <1>2 DEF PurchaseRequest, Document
<1> HIDE DEF d
<1>4. t \in Seq(Document) /\ Corrected(t) /\ DOMAIN docs[k] \subseteq DOMAIN t
  BY <1>2, <1>3, DocumentsGrow
<1> HIDE DEF t
<1>5. docs' \in [InvoiceKinds -> Seq(Document)] /\ \A m \in InvoiceKinds : docs'[m] = IF m = k THEN t ELSE docs[m]
  BY <1>1, <1>2, <1>4
<1>6. "commercial" \in InvoiceKinds
  BY DEF InvoiceKinds
<1>7. DOMAIN docs["commercial"] \subseteq DOMAIN docs'["commercial"]
  BY <1>4, <1>5, <1>6
<1>8. /\ req' \in [Callers -> PurchaseRequest]
      /\ \A e \in Callers : req'[e].pc # "idle" => Carries(req'[e], docs')
  BY <1>1, <1>7, FinishedKeeps
<1>9. \A m \in InvoiceKinds : Corrected(docs'[m])
  BY <1>4, <1>5 DEF PurchaseInvariant
<1>10. HolderVerified'
  BY <1>1, HolderGone DEF Issue
<1> QED BY <1>1, <1>5, <1>8, <1>9, <1>10 DEF PurchaseInvariant, Settled, Paid, StockExplained

(* supersedeCommercialInvoice: what it corrects is issued until it does.   *)
LEMMA CorrectStep ==
  ASSUME PurchaseInvariant, NEW c \in Callers, Correct(c)
  PROVE  PurchaseInvariant'
<1> DEFINE i == req[c].arg[1]
           d == [total |-> req[c].arg[2], status |-> "issued", corrects |-> i]
           t == Append(Supersede(docs["commercial"], {i}), d)
<1>1. /\ docs' = [docs EXCEPT !["commercial"] = t] /\ req' = [req EXCEPT ![c] = Idle]
      /\ po' = [po EXCEPT !.version = @ + 1]
      /\ UNCHANGED <<received, shelf, moved, dispatched, payments>> /\ i \in Issued("commercial")
  BY DEF Correct, Finished, StillIssued
<1>2. /\ docs \in [InvoiceKinds -> Seq(Document)] /\ Corrected(docs["commercial"]) /\ po \in PoRow
      /\ "commercial" \in InvoiceKinds
  BY DEF PurchaseInvariant, InvoiceKinds
<1>3. req[c].arg \in (DOMAIN docs["commercial"]) \X Amounts
  BY AtCarries DEF Correct, Carries
<1>4. i \in DOMAIN docs["commercial"] /\ docs["commercial"][i].status = "issued" /\ i \in Nat
  <2>1. i \in DOMAIN docs["commercial"] /\ docs["commercial"][i].status = "issued"
    BY <1>1 DEF Issued
  <2>2. DOMAIN docs["commercial"] = 1..Len(docs["commercial"])
    BY <1>2, LenProperties
  <2> QED BY <2>1, <2>2
<1>5. d \in Document /\ d.status = "issued" /\ d.corrects = i
  <2>1. req[c].arg[2] \in Nat
    BY <1>3, PurchaseAssumption
  <2> HIDE DEF i
  <2> QED BY <1>4, <2>1 DEF Document
<1> HIDE DEF d, i
<1>6. docs["commercial"] \in Seq(Document)
  BY <1>2
<1>7. t \in Seq(Document) /\ Corrected(t) /\ DOMAIN docs["commercial"] \subseteq DOMAIN t
  BY <1>2, <1>4, <1>5, <1>6, DocumentsGrow
<1> HIDE DEF t
<1>8. /\ docs' \in [InvoiceKinds -> Seq(Document)]
      /\ \A m \in InvoiceKinds : docs'[m] = IF m = "commercial" THEN t ELSE docs[m]
  BY <1>1, <1>2, <1>7
<1>9. DOMAIN docs["commercial"] \subseteq DOMAIN docs'["commercial"]
  BY <1>2, <1>7, <1>8
<1>10. /\ req' \in [Callers -> PurchaseRequest]
       /\ \A e \in Callers : req'[e].pc # "idle" => Carries(req'[e], docs')
  BY <1>1, <1>9, FinishedKeeps
<1>11. \A m \in InvoiceKinds : Corrected(docs'[m])
  BY <1>7, <1>8 DEF PurchaseInvariant
<1>12. po' \in PoRow /\ po'.paid = po.paid /\ po'.remaining = po.remaining /\ po'.payment = po.payment
  <2>1. po.status \in PoStatuses /\ po' = [po EXCEPT !.status = po.status, !.version = @ + 1]
    <3>1. PICK x : x = po
      OBVIOUS
    <3>2. x \in PoRow /\ po' = [x EXCEPT !.version = @ + 1]
      BY <1>1, <1>2, <3>1
    <3>3. po' = [x EXCEPT !.status = x.status, !.version = @ + 1] /\ x.status \in PoStatuses
      BY <3>2 DEF PoRow
    <3> QED BY <3>1, <3>3
  <2> QED BY <1>2, <2>1, RowMoved
<1>13. HolderVerified'
  BY <1>1, HolderGone DEF Correct
<1> QED BY <1>1, <1>8, <1>10, <1>11, <1>12, <1>13 DEF PurchaseInvariant, Settled, Paid, StockExplained

(* Every step of an order keeps the invariant.                             *)
LEMMA PurchaseInvariantStep ==
  PurchaseInvariant /\ [PurchaseNext]_purchaseVars => PurchaseInvariant'
<1> SUFFICES ASSUME PurchaseInvariant, [PurchaseNext]_purchaseVars PROVE PurchaseInvariant'
  OBVIOUS
<1>1. ASSUME UNCHANGED <<po, received, shelf, moved, docs, payments, req>> PROVE PurchaseInvariant'
  <2>1. HolderVerified'
    BY <1>1 DEF PurchaseInvariant, HolderVerified, HoldsOrder, Verified, OrderFree, InvoiceTotals,
                Issued, Matched, Distance, Tolerance, Lesser
  <2> QED BY <1>1, <2>1 DEF PurchaseInvariant, Settled, Paid, StockExplained
<1>2. ASSUME NEW c \in Callers, Serve(c) PROVE PurchaseInvariant'
  <2>1. CASE Compose(c)
    BY <2>1, PurchaseComposeStep
  <2>2. CASE Abandon(c)
    <3>1. req' = [req EXCEPT ![c] = Idle] /\ UNCHANGED tables
      BY <2>2 DEF Abandon
    <3>2. /\ req' \in [Callers -> PurchaseRequest]
          /\ \A e \in Callers : req'[e].pc # "idle" => Carries(req'[e], docs')
      BY <3>1, FinishedKeeps DEF tables
    <3>3. HolderVerified'
      BY <3>1, HolderStays DEF tables, Idle
    <3> QED BY <3>1, <3>2, <3>3 DEF PurchaseInvariant, tables, Settled, Paid, StockExplained
  <2>3. CASE Edit(c)
    BY <2>3, EditStep
  <2>4. CASE Send(c) \/ Confirm(c) \/ Cancel(c)
    BY <2>4, StatusStep DEF Send, Confirm, Cancel, PoStatuses
  <2>5. CASE Receive(c)
    BY <2>5, ReceiveStep
  <2>6. CASE StockIn(c) \/ StockOut(c)
    BY <2>6, MovementStep
  <2>7. CASE Match(c) \/ Pay(c)
    BY <2>7, MatchStep, PaymentStep
  <2>8. CASE Look(c)
    BY <2>8, LookStep
  <2>9. CASE IssueProforma(c) \/ IssueCommercial(c)
    BY <2>9, IssueStep DEF IssueProforma, IssueCommercial, InvoiceKinds
  <2>10. CASE Correct(c)
    BY <2>10, CorrectStep
  <2> QED BY <1>2, <2>1, <2>2, <2>3, <2>4, <2>5, <2>6, <2>7, <2>8, <2>9, <2>10 DEF Serve
<1>3. CASE Dispatch
  BY <1>1, <1>3 DEF Dispatch
<1>4. CASE UNCHANGED purchaseVars
  BY <1>1, <1>4 DEF purchaseVars
<1> QED BY <1>2, <1>3, <1>4 DEF PurchaseNext, PurchaseQuiescent

(* The inductive invariant of a purchase order: the rows and the requests  *)
(* keep their types, stock is explained, what was paid is the sum of the   *)
(* payments, and corrections form a chain.                                 *)
THEOREM PurchaseInvariantHolds == PurchaseSpec => []PurchaseInvariant
<1>1. PurchaseInit => PurchaseInvariant
  BY PurchaseInvariantInit
<1> QED
  BY <1>1, PurchaseInvariantStep, PTL DEF PurchaseSpec

(* What was paid of an order is the sum of its payments, together with     *)
(* what remains it is the balance it was opened with, and the payment      *)
(* status says so (recordPurchaseOrderPayment).                            *)
THEOREM SettledAlways == PurchaseSpec => []Settled
<1>1. PurchaseInvariant => Settled
  BY DEF PurchaseInvariant
<1> QED
  BY <1>1, PurchaseInvariantHolds, PTL

(* No delivery and no movement is lost on the way to the shelf, and no     *)
(* shelf holds less than nothing (recordWarehouseMovement).                *)
THEOREM ShelvesAreExplained == PurchaseSpec => []StockExplained
<1>1. PurchaseInvariant => StockExplained
  BY DEF PurchaseInvariant
<1> QED
  BY <1>1, PurchaseInvariantHolds, PTL

(* One correction of an invoice stands, and an order that had an invoice   *)
(* is never without one (supersedeCommercialInvoice).                      *)
THEOREM CorrectionsFormAChain == PurchaseSpec => []CorrectedOnce
<1>1. PurchaseInvariant => CorrectedOnce
  BY DEF PurchaseInvariant, Corrected, CorrectedOnce, InvoiceKinds, Issued
<1> QED
  BY <1>1, PurchaseInvariantHolds, PTL

(* Only a payment adds a payment.                                          *)
LEMMA PaymentsOnlyPaid ==
  ASSUME [PurchaseNext]_purchaseVars, payments' # payments
  PROVE  \E c \in Callers : Pay(c)
<1>1. ASSUME NEW c \in Callers, Serve(c) PROVE Pay(c)
  BY <1>1 DEF Serve, Compose, Abandon, Edit, Send, Confirm, Cancel, StatusMoves, Receive, StockIn, StockOut,
     Move, Match, Look, IssueProforma, IssueCommercial, Issue, Correct, tables
<1>2. ~Dispatch /\ ~PurchaseQuiescent /\ ~UNCHANGED purchaseVars
  BY DEF Dispatch, PurchaseQuiescent, purchaseVars
<1> QED BY <1>1, <1>2 DEF PurchaseNext

(* A payment commits against the invoice then in force, and says "matched" *)
(* exactly when that invoice and the goods then in agree with the order:   *)
(* nothing comes between the match and the commit, because the payment     *)
(* holds the row of the order (HNT-PO-001).                                *)
THEOREM MatchStandsWhenPaid == PurchaseSpec => MatchStandsAtCommit
<1> DEFINE Right == payments' # payments =>
       LET p == payments'[Len(payments')] IN
       /\ \/ Issued("commercial") = {}
          \/ \E i \in Issued("commercial") : docs["commercial"][i].total = p.invoice
       /\ p.match = "matched" <=> /\ Distance(Worth(received), po.expected) <= Tolerance
                                  /\ Distance(p.invoice, po.expected) <= Tolerance
       /\ p.overridden <=> p.match = "match_failed"
<1>1. PurchaseInvariant /\ [PurchaseNext]_purchaseVars => [Right]_purchaseVars
  <2> SUFFICES ASSUME PurchaseInvariant, [PurchaseNext]_purchaseVars, payments' # payments PROVE Right
    OBVIOUS
  <2>1. PICK c \in Callers : Pay(c)
    BY PaymentsOnlyPaid
  <2>2. PICK n, invoice, m, o :
          /\ n = req[c].arg.amount /\ invoice = req[c].total
          /\ m = (IF req[c].pc = "matched" THEN "matched" ELSE "match_failed")
          /\ o = (req[c].pc # "matched")
    OBVIOUS
  <2>3. PICK p : p = [amount |-> n, invoice |-> invoice, overridden |-> o, match |-> m, expense |-> n]
    OBVIOUS
  <2>4. payments' = Append(payments, p) /\ payments \in Seq(Payment)
    BY <2>1, <2>2, <2>3 DEF PurchaseInvariant, Pay
  <2>5. payments'[Len(payments')] = p
    BY <2>4
  <2>6. Verified(c)
    BY <2>1 DEF Pay, PurchaseInvariant, HolderVerified
  <2>7. p.invoice = req[c].total /\ (p.match = "matched" <=> req[c].pc = "matched")
        /\ (p.overridden <=> p.match = "match_failed")
    BY <2>2, <2>3
  <2>8. p.match = "matched" <=> Matched(p.invoice)
    BY <2>6, <2>7 DEF Verified
  <2>9. \/ Issued("commercial") = {}
        \/ \E i \in Issued("commercial") : docs["commercial"][i].total = p.invoice
    BY <2>6, <2>7 DEF Verified, InvoiceTotals
  <2>10. p.match = "matched" <=> /\ Distance(Worth(received), po.expected) <= Tolerance
                                 /\ Distance(p.invoice, po.expected) <= Tolerance
    BY <2>8 DEF Matched
  <2> QED BY <2>5, <2>7, <2>9, <2>10
<1> QED
  BY <1>1, PurchaseInvariantHolds, PTL DEF PurchaseSpec, MatchStandsAtCommit
------------------------------------------------------------------------------
(* What a delivery in flight brings: something.                            *)
Brings(r) == r.pc # "idle" /\ r.op = "receive" => Units(r.arg) # 0

EarnedInvariant ==
  /\ StatusEarned
  /\ \A c \in Callers : Brings(req[c])

(* No units are none of any line.                                          *)
LEMMA UnitsNone ==
  ASSUME NEW q \in [Lines -> Nat]
  PROVE  Units(q) = 0 <=> \A l \in Lines : q[l] = 0
<1>1. ASSUME \A l \in Lines : q[l] = 0 PROVE Units(q) = 0
  BY <1>1, PurchaseAssumption, SumZero DEF Units
<1>2. ASSUME NEW l \in Lines, q[l] # 0 PROVE Units(q) # 0
  <2>1. Sum(q, Lines) = q[l] + Sum(q, Lines \ {l})
    BY PurchaseAssumption, SumRemove
  <2>2. Sum(q, Lines \ {l}) \in Nat
    <3>1. IsFiniteSet(Lines \ {l})
      BY PurchaseAssumption, FS_Subset
    <3> QED BY <3>1, SumNat
  <2> QED BY <1>2, <2>1, <2>2 DEF Units
<1> QED BY <1>1, <1>2

(* An order nothing came for is not covered: it asks for something.        *)
LEMMA NothingCovers ==
  ASSUME NEW o \in Orders, NEW q \in [Lines -> Nat], Units(q) = 0
  PROVE  ~\A l \in Lines : q[l] >= o[l]
<1>1. PICK l \in Lines : TRUE
  BY PurchaseAssumption
<1>2. q[l] = 0
  BY UnitsNone
<1>3. o \in [Lines -> Nat \ {0}]
  BY PurchaseAssumption
<1>4. o[l] \in Nat \ {0}
  BY <1>1, <1>3
<1> QED BY <1>1, <1>2, <1>4

(* The row as a change of status leaves it.                                *)
LEMMA RowStatus ==
  ASSUME NEW x \in PoRow, NEW s, NEW y, y = [x EXCEPT !.status = s, !.version = @ + 1]
  PROVE  y.status = s /\ y.ordered = x.ordered
BY DEF PoRow

(* A request that goes leaves what the others bring.                       *)
LEMMA BringsWhileGone ==
  ASSUME PurchaseInvariant, EarnedInvariant, NEW c \in Callers, req' = [req EXCEPT ![c] = Idle]
  PROVE  \A d \in Callers : Brings(req'[d])
BY DEF PurchaseInvariant, EarnedInvariant, Brings, Idle

(* send, confirm and cancel start from a status nothing came in.           *)
LEMMA EarnedStatus ==
  ASSUME PurchaseInvariant, EarnedInvariant, NEW c \in Callers, Send(c) \/ Confirm(c) \/ Cancel(c)
  PROVE  EarnedInvariant'
<1>1. PICK s \in {"sent", "confirmed", "cancelled"} :
        /\ po' = [po EXCEPT !.status = s, !.version = @ + 1]
        /\ po.status \in {"draft", "sent"}
        /\ received' = received /\ req' = [req EXCEPT ![c] = Idle]
  BY DEF Send, Confirm, Cancel, StatusMoves, Finished
<1>2. po \in PoRow /\ received \in [Lines -> Nat]
  BY DEF PurchaseInvariant
<1>3. po'.status = s /\ po'.ordered = po.ordered
  BY <1>1, <1>2, RowStatus
<1>4. Units(received) = 0
  BY <1>1 DEF EarnedInvariant, StatusEarned
<1>5. ~\A l \in Lines : received[l] >= po.ordered[l]
  <2>1. po.ordered \in Orders
    BY <1>2 DEF PoRow
  <2> QED BY <1>2, <1>4, <2>1, NothingCovers
<1>6. StatusEarned'
  BY <1>1, <1>3, <1>4, <1>5 DEF StatusEarned
<1> QED BY <1>1, <1>6, BringsWhileGone DEF EarnedInvariant

(* A draft that is edited still waits for all it asks for.                 *)
LEMMA EarnedEdit ==
  ASSUME PurchaseInvariant, EarnedInvariant, NEW c \in Callers, Edit(c)
  PROVE  EarnedInvariant'
<1>1. PICK q, w : q = req[c].arg /\ w = Worth(req[c].arg)
  OBVIOUS
<1>2. /\ po' = [po EXCEPT !.ordered = q, !.expected = w, !.version = @ + 1]
      /\ po.status = "draft" /\ received' = received /\ req' = [req EXCEPT ![c] = Idle]
  BY <1>1 DEF Edit, Finished
<1>3. q \in Orders
  BY <1>1, AtCarries DEF Edit, Carries
<1>4. po \in PoRow /\ received \in [Lines -> Nat]
  BY DEF PurchaseInvariant
<1>5. po'.status = "draft" /\ po'.ordered = q
  BY <1>2, <1>4 DEF PoRow
<1>6. Units(received) = 0
  BY <1>2 DEF EarnedInvariant, StatusEarned
<1>7. ~\A l \in Lines : received[l] >= q[l]
  BY <1>3, <1>4, <1>6, NothingCovers
<1>8. StatusEarned'
  BY <1>2, <1>5, <1>6, <1>7 DEF StatusEarned
<1> QED BY <1>2, <1>8, BringsWhileGone DEF EarnedInvariant

(* A delivery brings something, and its status is that of the sums.        *)
LEMMA EarnedReceive ==
  ASSUME PurchaseInvariant, EarnedInvariant, NEW c \in Callers, Receive(c)
  PROVE  EarnedInvariant'
<1>1. PICK d : d = req[c].arg
  OBVIOUS
<1>2. d \in [Lines -> Nat] /\ Units(d) # 0
  <2>1. d \in [Lines -> Nat]
    BY <1>1, AtCarries, PurchaseAssumption DEF Receive, Carries
  <2>2. Units(d) # 0
    BY <1>1 DEF EarnedInvariant, Brings, Receive, At
  <2> QED BY <2>1, <2>2
<1>3. PICK s : s = ReceiptStatus(received', d)
  OBVIOUS
<1>4. /\ received' = [l \in Lines |-> received[l] + d[l]]
      /\ po' = [po EXCEPT !.status = s, !.version = @ + 1]
      /\ req' = [req EXCEPT ![c] = Idle]
  BY <1>1, <1>3 DEF Receive, Finished
<1>5. po \in PoRow /\ received \in [Lines -> Nat] /\ received' \in [Lines -> Nat]
  BY <1>2, <1>4 DEF PurchaseInvariant
<1>6. po'.status = s /\ po'.ordered = po.ordered
  <2>1. PICK x, y : x = po /\ y = po'
    OBVIOUS
  <2>2. x \in PoRow /\ y = [x EXCEPT !.status = s, !.version = @ + 1]
    BY <1>4, <1>5, <2>1
  <2>3. y.status = s /\ y.ordered = x.ordered
    BY <2>2 DEF PoRow
  <2> QED BY <2>1, <2>3
<1>7. Units(received') # 0
  <2>1. PICK l \in Lines : d[l] # 0
    BY <1>2, UnitsNone
  <2>2. received'[l] # 0
    BY <1>2, <1>4, <1>5, <2>1
  <2>3. PICK r : r = received'
    OBVIOUS
  <2>4. Units(r) # 0
    BY <1>5, <2>1, <2>2, <2>3, UnitsNone
  <2> QED BY <2>3, <2>4
<1>8. StatusEarned'
  BY <1>3, <1>6, <1>7 DEF StatusEarned, ReceiptStatus
<1> QED BY <1>4, <1>8, BringsWhileGone DEF EarnedInvariant

(* The steps that touch neither the goods nor what is asked for.           *)
LEMMA EarnedElsewhere ==
  ASSUME EarnedInvariant, po'.status = po.status, po'.ordered = po.ordered, received' = received,
         \A d \in Callers : Brings(req'[d])
  PROVE  EarnedInvariant'
BY DEF EarnedInvariant, StatusEarned

(* A payment and a correction move other columns of the order.             *)
LEMMA EarnedBeside ==
  ASSUME PurchaseInvariant, EarnedInvariant, NEW c \in Callers, Pay(c) \/ Correct(c)
  PROVE  EarnedInvariant'
<1>1. received' = received /\ req' = [req EXCEPT ![c] = Idle]
  BY DEF Pay, Correct, Finished
<1>2. po'.status = po.status /\ po'.ordered = po.ordered
  <2>1. PICK x : x = po
    OBVIOUS
  <2>2. x \in PoRow
    BY <2>1 DEF PurchaseInvariant
  <2>3. CASE Pay(c)
    <3>1. PICK n : n = req[c].arg.amount
      OBVIOUS
    <3>2. po' = [x EXCEPT !.paid = @ + n, !.remaining = x.remaining - n,
                   !.payment = PaymentStatus(x.paid + n, x.remaining - n), !.version = @ + 1]
      BY <2>1, <2>3, <3>1 DEF Pay
    <3>3. PICK rest, s : rest = x.remaining - n /\ s = PaymentStatus(x.paid + n, x.remaining - n)
      OBVIOUS
    <3>4. po' = [x EXCEPT !.paid = @ + n, !.remaining = rest, !.payment = s, !.version = @ + 1]
      BY <3>2, <3>3
    <3> QED BY <2>1, <2>2, <3>4 DEF PoRow
  <2>4. CASE Correct(c)
    <3>1. po' = [x EXCEPT !.version = @ + 1]
      BY <2>1, <2>4 DEF Correct
    <3> QED BY <2>1, <2>2, <3>1 DEF PoRow
  <2> QED BY <2>3, <2>4
<1> QED BY <1>1, <1>2, BringsWhileGone, EarnedElsewhere

(* A delivery that is composed brings something.                           *)
LEMMA EarnedCompose ==
  ASSUME PurchaseInvariant, EarnedInvariant, NEW c \in Callers, Compose(c) \/ Look(c) \/ Match(c)
  PROVE  EarnedInvariant'
<1>1. po' = po /\ received' = received
  BY DEF Compose, Look, Match, tables
<1>2. \A d \in Callers : Brings(req'[d])
  <2>1. CASE Compose(c)
    <3>1. PICK op \in Operations : \E arg \in Bodies(op) : \E r :
            /\ r = [pc |-> "read", op |-> op, shown |-> po.version, arg |-> arg,
                    total |-> IF op \in InvoiceKinds THEN QuotedTotal(op) ELSE 0, found |-> {}]
            /\ req' = [req EXCEPT ![c] = r]
      BY <2>1 DEF Compose
    <3>2. PICK arg \in Bodies(op) : \E r :
            /\ r.op = op /\ r.arg = arg
            /\ req' = [req EXCEPT ![c] = r]
      BY <3>1
    <3>3. PICK r :
            /\ r.op = op /\ r.arg = arg
            /\ req' = [req EXCEPT ![c] = r]
      BY <3>2
    <3>4. Brings(r)
      BY <3>2, <3>3 DEF Bodies, Brings
    <3> QED BY <3>3, <3>4 DEF EarnedInvariant, PurchaseInvariant
  <2>2. CASE Look(c)
    <3>1. req' = [req EXCEPT ![c].pc = "looked", ![c].found = Issued(req[c].op)]
          /\ req[c].op \in InvoiceKinds
      BY <2>2 DEF Look
    <3> QED BY <3>1 DEF EarnedInvariant, PurchaseInvariant, PurchaseRequest, Brings, InvoiceKinds
  <2>3. CASE Match(c)
    <3>1. PICK invoice : req' = [req EXCEPT ![c].pc = IF Matched(invoice) THEN "matched" ELSE "overridden",
                                            ![c].total = invoice]
          /\ req[c].op = "pay"
      BY <2>3 DEF Match, At
    <3>2. PICK m : req' = [req EXCEPT ![c].pc = m, ![c].total = invoice]
      BY <3>1
    <3> QED BY <3>1, <3>2 DEF EarnedInvariant, PurchaseInvariant, PurchaseRequest, Brings
  <2> QED BY <2>1, <2>2, <2>3
<1> QED BY <1>1, <1>2, EarnedElsewhere

(* Every step keeps the status earned.                                     *)
LEMMA EarnedStep ==
  PurchaseInvariant /\ EarnedInvariant /\ [PurchaseNext]_purchaseVars => EarnedInvariant'
<1> SUFFICES ASSUME PurchaseInvariant, EarnedInvariant, [PurchaseNext]_purchaseVars
             PROVE  EarnedInvariant'
  OBVIOUS
<1>1. ASSUME po' = po, received' = received, req' = req PROVE EarnedInvariant'
  BY <1>1 DEF EarnedInvariant, StatusEarned
<1>2. ASSUME NEW c \in Callers, Serve(c) PROVE EarnedInvariant'
  <2>1. CASE Compose(c) \/ Look(c) \/ Match(c)
    BY <2>1, EarnedCompose
  <2>2. CASE Send(c) \/ Confirm(c) \/ Cancel(c)
    BY <2>2, EarnedStatus
  <2>3. CASE Edit(c)
    BY <2>3, EarnedEdit
  <2>4. CASE Receive(c)
    BY <2>4, EarnedReceive
  <2>5. CASE Pay(c) \/ Correct(c)
    BY <2>5, EarnedBeside
  <2>6. CASE Abandon(c) \/ StockIn(c) \/ StockOut(c) \/ IssueProforma(c) \/ IssueCommercial(c)
    <3>1. po' = po /\ received' = received /\ req' = [req EXCEPT ![c] = Idle]
      BY <2>6 DEF Abandon, StockIn, StockOut, Move, IssueProforma, IssueCommercial, Issue, Finished, tables
    <3> QED BY <3>1, BringsWhileGone, EarnedElsewhere
  <2> QED BY <1>2, <2>1, <2>2, <2>3, <2>4, <2>5, <2>6 DEF Serve
<1>3. CASE Dispatch \/ PurchaseQuiescent \/ UNCHANGED purchaseVars
  BY <1>1, <1>3 DEF Dispatch, PurchaseQuiescent, purchaseVars
<1> QED BY <1>2, <1>3 DEF PurchaseNext

(* Over any series of deliveries the order is "received" exactly when      *)
(* every line is covered by what all its notes brought, and one that       *)
(* nothing came for says so (createGoodsReceivedNote).                     *)
THEOREM StatusIsEarned == PurchaseSpec => []StatusEarned
<1>1. PurchaseInit => EarnedInvariant
  <2> SUFFICES ASSUME PurchaseInit PROVE EarnedInvariant
    OBVIOUS
  <2>1. PICK q \in Orders : po = Created(q, "draft", 0) \/ po = Created(q, "sent", 1)
    BY DEF PurchaseInit
  <2>2. received \in [Lines -> Nat] /\ \A l \in Lines : received[l] = 0
    BY DEF PurchaseInit
  <2>3. Units(received) = 0
    BY <2>2, UnitsNone
  <2>4. po.ordered = q /\ po.status \in {"draft", "sent"}
    BY <2>1 DEF Created
  <2>5. ~\A l \in Lines : received[l] >= q[l]
    BY <2>2, <2>3, NothingCovers
  <2>6. StatusEarned
    BY <2>3, <2>4, <2>5 DEF StatusEarned
  <2>7. \A c \in Callers : Brings(req[c])
    BY DEF PurchaseInit, Idle, Brings
  <2> QED BY <2>6, <2>7 DEF EarnedInvariant
<1>2. EarnedInvariant => StatusEarned
  BY DEF EarnedInvariant
<1> QED
  BY <1>1, <1>2, EarnedStep, PurchaseInvariantHolds, PTL DEF PurchaseSpec
==============================================================================
