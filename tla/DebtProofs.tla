----------------------------- MODULE DebtProofs ------------------------------
(***************************************************************************)
(* Proofs about Debt for any callers, amounts, rate, period and bounds,    *)
(* and about Reminders for any senders, calls and days.                    *)
(* The invariant adds what a request in flight knows: a snapshot whose     *)
(* version is still current equals the debt, so the guard on the version   *)
(* makes the check that was done on the snapshot a check on the debt.      *)
(* What is paid is the sum over the payments because each row that is      *)
(* appended moves both.                                                    *)
(***************************************************************************)
EXTENDS Reminders, SumTheorems

(* What the request of c was composed from and what it read.               *)
Sent(c) ==
  req[c].pc # "idle" =>
    /\ debt # None
    /\ req[c].op \in AllOperations
    /\ req[c].n \in Arguments(req[c].op)
    /\ req[c].shown <= debt.version

Current(c) ==
  req[c].pc = "read" =>
    /\ req[c].snap # None
    /\ req[c].shown <= req[c].snap.version
    /\ req[c].snap.version <= debt.version
    /\ req[c].snap.version = debt.version => req[c].snap = debt
    /\ req[c].op = "pay" => req[c].n <= req[c].snap.remaining
    /\ req[c].op = "reverse" => rows[req[c].n].of = None /\ rows[req[c].n].amount > 0

(* Reversals point at payments that were claimed.                          *)
Claims ==
  \A i \in DOMAIN rows : rows[i].of # None =>
    /\ rows[i].of \in DOMAIN rows
    /\ rows[rows[i].of].of = None
    /\ rows[rows[i].of].version > 0
    /\ rows[i].amount = -rows[rows[i].of].amount

Singly ==
  \A i, j \in DOMAIN rows : i # j => rows[i].of = None \/ rows[i].of # rows[j].of

Dated ==
  /\ debt = None => interest = 0
  /\ debt # None => debt.taken <= today /\ (debt.last # None => debt.last <= today)

DebtInvariant ==
  /\ TypeOK
  /\ Dated
  /\ MoneyConserved
  /\ StatusExplained
  /\ Claims
  /\ Singly
  /\ \A c \in Callers : Sent(c) /\ Current(c)

(* What is due of interest is a natural number.                            *)
LEMMA ChargeIsNatural ==
  ASSUME TypeOK, Dated, debt # None
  PROVE  InterestDue(debt) \in Nat
<1> USE DebtAssumption, NoneIsNothing
<1>1. \A x \in Nat : x \div Period \in Nat
  OBVIOUS
<1>2. debt \in DebtRow /\ today \in Nat
  BY DEF TypeOK
<1>3. CASE debt.policy = "one_time"
  BY <1>3 DEF InterestDue, PeriodsElapsed
<1>4. CASE debt.policy # "one_time"
  <2> DEFINE from == IF debt.last = None THEN debt.taken ELSE debt.last
  <2>1. today - from \in Nat
    BY <1>2 DEF Dated, DebtRow
  <2>2. (today - from) \div Period \in Nat
    BY <1>1, <2>1
  <2>3. PeriodsElapsed(debt) = (today - from) \div Period
    BY <1>4 DEF PeriodsElapsed
  <2> QED BY <2>2, <2>3 DEF InterestDue
<1> QED BY <1>3, <1>4

(* A transaction's guard makes the snapshot the debt.                      *)
LEMMA SnapshotIsDebt ==
  ASSUME DebtInvariant, NEW c \in Callers, req[c].pc = "read", SameVersion(c)
  PROVE  req[c].snap = debt /\ debt \in DebtRow /\ req[c] \in Request
<1>1. req[c] \in Request /\ Sent(c) /\ Current(c)
  BY DEF DebtInvariant, TypeOK
<1>2. debt \in DebtRow /\ req[c].snap \in DebtRow
  BY <1>1 DEF Sent, Current, DebtInvariant, TypeOK, Request
<1>3. req[c].snap.version = debt.version
  BY <1>1, <1>2 DEF SameVersion, Sent, Current, Request, DebtRow
<1> QED BY <1>1, <1>2, <1>3 DEF Current

(* What recomputeStatus returns for a debt that is not disputed.            *)
LEMMA StatusFollows ==
  ASSUME NEW status \in Statuses, NEW remaining \in Nat, NEW original \in Nat \ {0}
  PROVE  LET new == RecomputeStatus(status, remaining, original) IN
           /\ new \in Statuses \ {"written_off"}
           /\ new = "disputed" <=> status = "disputed"
           /\ new # "disputed" =>
                /\ new = "paid" <=> remaining = 0
                /\ new = "partially_paid" <=> remaining \in 1..(original - 1)
                /\ new = "open" <=> remaining >= original
BY DEF RecomputeStatus, Statuses
------------------------------------------------------------------------------
(* The invariant holds before a debt exists.                               *)
LEMMA InvariantInit == Init => DebtInvariant
<1> SUFFICES ASSUME Init PROVE DebtInvariant
  OBVIOUS
<1> USE DebtAssumption DEF Init, Idle
<1>1. TypeOK
  BY DEF TypeOK, Request
<1> QED BY <1>1 DEF DebtInvariant, Dated, MoneyConserved, StatusExplained, Claims, Singly,
                    Sent, Current

(* The steps that leave the debt and its rows alone.                       *)
LEMMA InvariantQuiet ==
  ASSUME DebtInvariant, UNCHANGED <<debt, rows, balance, interest, today>>,
         NEW c \in Callers,
         \/ req' = req
         \/ \E r \in Request :
              /\ req' = [req EXCEPT ![c] = r]
              /\ r.pc # "idle" => Sent(c)' /\ Current(c)'
  PROVE  DebtInvariant'
<1> USE DEF DebtInvariant
<1>1. TypeOK'
  BY DEF TypeOK
<1>2. Dated' /\ MoneyConserved' /\ StatusExplained' /\ Claims' /\ Singly'
  BY DEF Dated, MoneyConserved, StatusExplained, Claims, Singly
<1>3. ASSUME NEW d \in Callers PROVE Sent(d)' /\ Current(d)'
  <2>1. CASE req'[d] = req[d]
    BY <2>1 DEF Sent, Current, Arguments
  <2>2. CASE req'[d] # req[d]
    <3>1. PICK r \in Request : /\ req' = [req EXCEPT ![c] = r]
                               /\ r.pc # "idle" => Sent(c)' /\ Current(c)'
      BY <2>2
    <3>2. d = c /\ req'[d] = r
      BY <2>2, <3>1 DEF TypeOK
    <3>3. CASE r.pc = "idle"
      BY <3>2, <3>3 DEF Sent, Current
    <3> QED BY <3>1, <3>2, <3>3
  <2> QED BY <2>1, <2>2
<1> QED BY <1>1, <1>2, <1>3

(* An idle caller has a request of its type.                               *)
LEMMA IdleIsARequest == Idle \in Request /\ Idle.pc = "idle"
BY DEF Idle, Request

(* A caller composes a request.                                            *)
LEMMA InvariantCompose ==
  ASSUME DebtInvariant, NEW c \in Callers, Compose(c)
  PROVE  DebtInvariant'
<1> USE DebtAssumption, NoneIsNothing
<1>1. PICK op \in Operations : \E n \in Arguments(op) :
        req' = [req EXCEPT ![c] = [pc |-> "sent", op |-> op, n |-> n, shown |-> debt.version,
                                   snap |-> None, due |-> 0]]
  BY DEF Compose
<1>0. PICK n \in Arguments(op) :
        req' = [req EXCEPT ![c] = [pc |-> "sent", op |-> op, n |-> n, shown |-> debt.version,
                                   snap |-> None, due |-> 0]]
  BY <1>1
<1> DEFINE r == [pc |-> "sent", op |-> op, n |-> n, shown |-> debt.version,
                 snap |-> None, due |-> 0]
<1>2. debt # None /\ debt \in DebtRow
  BY DEF Compose, DebtInvariant, TypeOK
<1>3. n \in Nat
  BY DEF Arguments, AllOperations, DebtInvariant, TypeOK
<1>4. r \in Request
  BY <1>2, <1>3 DEF Request, DebtRow
<1>5. req' = [req EXCEPT ![c] = r] /\ req'[c] = r
  BY <1>0 DEF DebtInvariant, TypeOK
<1>6. Sent(c)' /\ Current(c)'
  BY <1>2, <1>5 DEF Sent, Current, Arguments, Compose, DebtRow
<1> QED BY <1>4, <1>5, <1>6, InvariantQuiet DEF Compose

(* A caller reads the debt and checks its request against it.              *)
LEMMA InvariantRead ==
  ASSUME DebtInvariant, NEW c \in Callers, Read(c)
  PROVE  DebtInvariant'
<1> DEFINE r == [pc |-> "read", op |-> req[c].op, n |-> req[c].n, shown |-> req[c].shown,
                 snap |-> debt,
                 due |-> IF req[c].op = "interest" THEN InterestDue(debt) ELSE 0]
<1>1. debt # None /\ debt \in DebtRow /\ Sent(c) /\ req[c] \in Request
  BY DEF Read, Sent, DebtInvariant, TypeOK
<1>2. InterestDue(debt) \in Nat
  BY <1>1, ChargeIsNatural DEF DebtInvariant
<1>3. r \in Request
  BY <1>1, <1>2 DEF Request
<1>4. req' = [req EXCEPT ![c] = r] /\ req'[c] = r
  BY DEF Read, DebtInvariant, TypeOK
<1>5. Sent(c)'
  BY <1>1, <1>4 DEF Read, Sent, Arguments
<1>6. Current(c)'
  BY <1>1, <1>4 DEF Read, Sent, Current, Admissible, Fits, Request, DebtRow
<1> QED BY <1>3, <1>4, <1>5, <1>6, InvariantQuiet DEF Read
------------------------------------------------------------------------------
(* A commit raises the version, so every other snapshot becomes stale; the *)
(* payments it knew keep their amounts.                                    *)
LEMMA OthersBecomeStale ==
  ASSUME DebtInvariant, NEW c \in Callers, Answer(c), debt # None,
         debt' \in DebtRow, debt'.version = debt.version + 1,
         DOMAIN rows \subseteq DOMAIN rows',
         \A i \in DOMAIN rows : rows'[i].of = rows[i].of /\ rows'[i].amount = rows[i].amount
  PROVE  /\ req' \in [Callers -> Request]
         /\ \A d \in Callers : Sent(d)' /\ Current(d)'
<1> USE NoneIsNothing DEF DebtInvariant
<1>1. req' \in [Callers -> Request]
  BY IdleIsARequest DEF Answer, TypeOK
<1>2. ASSUME NEW d \in Callers PROVE Sent(d)' /\ Current(d)'
  <2>1. CASE d = c
    BY <2>1, IdleIsARequest DEF Answer, Sent, Current, TypeOK
  <2>2. CASE d # c
    <3>1. req'[d] = req[d] /\ Sent(d) /\ Current(d) /\ req[d] \in Request
      BY <2>2 DEF Answer, TypeOK
    <3>2. debt \in DebtRow /\ debt' # None
      BY DEF TypeOK
    <3>3. Sent(d)'
      BY <3>1, <3>2 DEF Sent, Arguments, DebtRow, Request
    <3>4. CASE req[d].pc = "read"
      <4>1. req[d].snap \in DebtRow
        BY <3>1, <3>4 DEF Current, Request
      <4>2. req[d].op = "reverse" => req[d].n \in DOMAIN rows
        BY <3>1, <3>4 DEF Sent, Arguments
      <4> QED BY <3>1, <3>2, <3>3, <3>4, <4>1, <4>2 DEF Current, DebtRow
    <3> QED BY <3>1, <3>3, <3>4 DEF Current
  <2> QED BY <2>1, <2>2
<1> QED BY <1>1, <1>2

(* The debt as a commit leaves it.                                         *)
LEMMA WhatBecomes ==
  ASSUME debt \in DebtRow, NEW s \in Statuses, NEW r \in Nat, NEW q \in Int,
         NEW l \in Nat \cup {None}, NEW d, d = Becomes(s, r, q, l)
  PROVE  /\ d \in DebtRow /\ d # None
         /\ d.status = s /\ d.original = debt.original /\ d.remaining = r /\ d.paid = q
         /\ d.version = debt.version + 1 /\ d.taken = debt.taken /\ d.last = l
<1>1. /\ debt.original \in Amounts /\ debt.version \in Nat
      /\ debt.policy \in Policies /\ debt.taken \in Nat
  BY DEF DebtRow
<1>2. d = [status |-> s, original |-> debt.original, remaining |-> r, paid |-> q,
           version |-> debt.version + 1, policy |-> debt.policy, taken |-> debt.taken, last |-> l]
  BY DEF Becomes
<1>3. d \in DebtRow
  BY <1>1, <1>2 DEF DebtRow
<1> QED BY <1>2, <1>3, NoneIsNothing

(* A payment is recorded against a debt that still is as it was read.      *)
LEMMA InvariantRecordPayment ==
  ASSUME DebtInvariant, NEW c \in Callers, RecordPayment(c)
  PROVE  DebtInvariant'
<1> USE DebtAssumption, NoneIsNothing
<1> DEFINE n == req[c].n
           left == debt.remaining - n
           row == [amount |-> n, version |-> 0, of |-> None]
<1>1. req[c].pc = "read" /\ req[c].op = "pay" /\ SameVersion(c)
  BY DEF RecordPayment
<1>2. req[c].snap = debt /\ debt \in DebtRow /\ debt # None /\ req[c] \in Request
  BY <1>1, SnapshotIsDebt
<1>3. n \in Amounts /\ n \in Nat \ {0} /\ left \in Nat
  <2>1. Sent(c) /\ Current(c) /\ debt.remaining \in Nat
    BY <1>2 DEF DebtInvariant, DebtRow
  <2>2. n \in Amounts
    BY <1>1, <2>1 DEF Sent, Arguments
  <2>3. n <= debt.remaining
    BY <1>1, <1>2, <2>1 DEF Current
  <2>4. n \in Nat \ {0}
    BY <2>2
  <2> HIDE DEF n
  <2> QED BY <2>1, <2>2, <2>3, <2>4 DEF left
<1> DEFINE new == RecomputeStatus(debt.status, left, debt.original)
<1>4. debt' = Becomes(new, left, debt.paid + n, debt.last)
  BY <1>2 DEF RecordPayment, StatusAfter
<1>5. /\ new \in Statuses \ {"written_off"}
      /\ new # "disputed" =>
           /\ new = "paid" <=> left = 0
           /\ new = "partially_paid" <=> left \in 1..(debt.original - 1)
           /\ new = "open" <=> left >= debt.original
  <2>1. debt.status \in Statuses /\ debt.original \in Nat \ {0}
    BY <1>2 DEF DebtRow
  <2> HIDE DEF left
  <2> QED BY <1>3, <2>1, StatusFollows
<1>6. /\ debt' \in DebtRow /\ debt' # None
      /\ debt'.status = new /\ debt'.original = debt.original
      /\ debt'.remaining = left /\ debt'.paid = debt.paid + n
      /\ debt'.version = debt.version + 1 /\ debt'.taken = debt.taken /\ debt'.last = debt.last
  <2>1. PICK s, r, q, l, d : s = new /\ r = left /\ q = debt.paid + n /\ l = debt.last /\ d = debt'
    OBVIOUS
  <2>2. s \in Statuses /\ r \in Nat /\ q \in Int /\ l \in Nat \cup {None}
    BY <1>2, <1>3, <1>5, <2>1 DEF DebtRow
  <2>3. d = Becomes(s, r, q, l)
    BY <2>1, <1>4
  <2>4. debt \in DebtRow
    BY <1>2
  <2>5. /\ d \in DebtRow /\ d # None
        /\ d.status = s /\ d.original = debt.original /\ d.remaining = r /\ d.paid = q
        /\ d.version = debt.version + 1 /\ d.taken = debt.taken /\ d.last = l
    BY <2>2, <2>3, <2>4, WhatBecomes
  <2> QED BY <2>1, <2>5
<1>7. rows \in Seq(PaymentRow) /\ row \in PaymentRow /\ rows' = Append(rows, row)
  BY <1>3 DEF RecordPayment, DebtInvariant, TypeOK, PaymentRow
<1>8. /\ rows' \in Seq(PaymentRow)
      /\ DOMAIN rows = 1..Len(rows) /\ DOMAIN rows' = 1..(Len(rows) + 1) /\ Len(rows) \in Nat
      /\ \A i \in 1..Len(rows) : rows'[i] = rows[i]
      /\ rows'[Len(rows) + 1] = row
  BY <1>7, AppendProperties
<1>9. /\ req' \in [Callers -> Request]
      /\ \A d \in Callers : Sent(d)' /\ Current(d)'
  BY <1>2, <1>6, <1>8, OthersBecomeStale DEF RecordPayment
<1>10. TypeOK'
  BY <1>3, <1>6, <1>8, <1>9 DEF TypeOK, RecordPayment, DebtInvariant
<1>11. Dated'
  BY <1>2, <1>6 DEF Dated, RecordPayment, DebtInvariant
<1>12. MoneyConserved'
  <2>1. interest' = interest /\ interest \in Nat
    BY DEF RecordPayment, DebtInvariant, TypeOK
  <2>2. debt.paid + debt.remaining = debt.original + interest
    BY <1>2 DEF MoneyConserved, DebtInvariant
  <2>3. debt.paid \in Int /\ debt.remaining \in Nat /\ debt.original \in Nat
    BY <1>2 DEF DebtRow
  <2>4. debt'.paid + debt'.remaining = debt'.original + interest'
    BY <1>3, <1>6, <2>1, <2>2, <2>3
  <2> QED BY <2>4 DEF MoneyConserved
<1>13. StatusExplained'
  BY <1>5, <1>6 DEF StatusExplained
<1>14. Claims'
  BY <1>8 DEF Claims, DebtInvariant
<1>15. Singly'
  BY <1>8 DEF Singly, DebtInvariant
<1> QED BY <1>9, <1>10, <1>11, <1>12, <1>13, <1>14, <1>15 DEF DebtInvariant

(* A payment is reversed once, and its amount owed again.                  *)
LEMMA InvariantReversePayment ==
  ASSUME DebtInvariant, NEW c \in Callers, ReversePayment(c)
  PROVE  DebtInvariant'
<1> USE DebtAssumption, NoneIsNothing
<1> DEFINE p == req[c].n
           n == rows[p].amount
           more == debt.remaining + n
           claimed == [amount |-> n, version |-> rows[p].version + 1, of |-> rows[p].of]
           row == [amount |-> -n, version |-> 0, of |-> p]
           mid == [rows EXCEPT ![p] = claimed]
<1>1. req[c].pc = "read" /\ req[c].op = "reverse" /\ SameVersion(c) /\ Claimable(c)
  BY DEF ReversePayment
<1>2. req[c].snap = debt /\ debt \in DebtRow /\ debt # None /\ req[c] \in Request
  BY <1>1, SnapshotIsDebt
<1>3. /\ rows \in Seq(PaymentRow) /\ Len(rows) \in Nat /\ DOMAIN rows = 1..Len(rows)
      /\ p \in 1..Len(rows) /\ rows[p] \in PaymentRow
      /\ rows[p].of = None /\ rows[p].version = 0
      /\ n \in Nat \ {0}
  <2>1. Sent(c) /\ Current(c) /\ rows \in Seq(PaymentRow)
    BY DEF DebtInvariant, TypeOK
  <2>2. Len(rows) \in Nat /\ DOMAIN rows = 1..Len(rows)
    BY <2>1
  <2>3. p \in 1..Len(rows)
    BY <1>1, <2>1, <2>2 DEF Sent, Arguments
  <2>4. rows[p] \in PaymentRow
    BY <2>1, <2>3
  <2>5. rows[p].of = None /\ rows[p].amount > 0 /\ rows[p].version = 0
    BY <1>1, <2>1 DEF Current, Claimable
  <2> QED BY <2>1, <2>2, <2>3, <2>4, <2>5 DEF PaymentRow
<1>4. more \in Nat
  BY <1>2, <1>3 DEF DebtRow
<1> DEFINE new == RecomputeStatus(debt.status, more, debt.original)
<1>5. debt' = Becomes(new, more, debt.paid - n, debt.last)
  BY <1>2 DEF ReversePayment, StatusAfter
<1>6. /\ new \in Statuses \ {"written_off"}
      /\ new # "disputed" =>
           /\ new = "paid" <=> more = 0
           /\ new = "partially_paid" <=> more \in 1..(debt.original - 1)
           /\ new = "open" <=> more >= debt.original
  <2>1. debt.status \in Statuses /\ debt.original \in Nat \ {0}
    BY <1>2 DEF DebtRow
  <2> HIDE DEF more
  <2> QED BY <1>4, <2>1, StatusFollows
<1>7. /\ debt' \in DebtRow /\ debt' # None
      /\ debt'.status = new /\ debt'.original = debt.original
      /\ debt'.remaining = more /\ debt'.paid = debt.paid - n
      /\ debt'.version = debt.version + 1 /\ debt'.taken = debt.taken /\ debt'.last = debt.last
  <2>1. PICK s, r, q, l, d : s = new /\ r = more /\ q = debt.paid - n /\ l = debt.last /\ d = debt'
    OBVIOUS
  <2>2. s \in Statuses /\ r \in Nat /\ q \in Int /\ l \in Nat \cup {None}
    BY <1>2, <1>3, <1>4, <1>6, <2>1 DEF DebtRow
  <2>3. d = Becomes(s, r, q, l)
    BY <2>1, <1>5
  <2>4. debt \in DebtRow
    BY <1>2
  <2>5. /\ d \in DebtRow /\ d # None
        /\ d.status = s /\ d.original = debt.original /\ d.remaining = r /\ d.paid = q
        /\ d.version = debt.version + 1 /\ d.taken = debt.taken /\ d.last = l
    BY <2>2, <2>3, <2>4, WhatBecomes
  <2> QED BY <2>1, <2>5
<1>8. claimed \in PaymentRow /\ row \in PaymentRow
  BY <1>3 DEF PaymentRow
<1>9. rows' = Append(mid, row)
  BY DEF ReversePayment
<1>10. /\ mid \in Seq(PaymentRow) /\ Len(mid) = Len(rows)
       /\ \A i \in 1..Len(rows) : mid[i] = IF i = p THEN claimed ELSE rows[i]
  BY <1>3, <1>8, ExceptSeq
<1>11. /\ rows' \in Seq(PaymentRow)
       /\ DOMAIN rows' = 1..(Len(rows) + 1)
       /\ \A i \in 1..Len(rows) : rows'[i] = IF i = p THEN claimed ELSE rows[i]
       /\ rows'[Len(rows) + 1] = row
  BY <1>3, <1>8, <1>9, <1>10, AppendProperties
<1>12. /\ req' \in [Callers -> Request]
       /\ \A d \in Callers : Sent(d)' /\ Current(d)'
  <2>1. /\ DOMAIN rows \subseteq DOMAIN rows'
        /\ \A i \in DOMAIN rows : rows'[i].of = rows[i].of /\ rows'[i].amount = rows[i].amount
    BY <1>3, <1>11
  <2>2. Answer(c)
    BY DEF ReversePayment
  <2> QED BY <1>2, <1>7, <2>1, <2>2, OthersBecomeStale
<1>13. TypeOK'
  <2>1. debt' \in DebtRow /\ rows' \in Seq(PaymentRow) /\ req' \in [Callers -> Request]
    BY <1>7, <1>11, <1>12
  <2>2. balance' = balance + n /\ interest' = interest /\ today' = today /\ n \in Nat
    BY <1>3 DEF ReversePayment
  <2> HIDE DEF n
  <2> QED BY <2>1, <2>2 DEF TypeOK, DebtInvariant
<1>14. Dated'
  BY <1>2, <1>7 DEF Dated, ReversePayment, DebtInvariant
<1>15. MoneyConserved'
  <2>1. interest' = interest /\ interest \in Nat
    BY DEF ReversePayment, DebtInvariant, TypeOK
  <2>2. debt.paid + debt.remaining = debt.original + interest
    BY <1>2 DEF MoneyConserved, DebtInvariant
  <2>3. debt.paid \in Int /\ debt.remaining \in Nat /\ debt.original \in Nat
    BY <1>2 DEF DebtRow
  <2>4. debt'.paid + debt'.remaining = debt'.original + interest'
    BY <1>3, <1>7, <2>1, <2>2, <2>3
  <2> QED BY <2>4 DEF MoneyConserved
<1>16. StatusExplained'
  BY <1>6, <1>7 DEF StatusExplained
<1>17. Claims'
  <2>1. ASSUME NEW i \in DOMAIN rows', rows'[i].of # None
        PROVE  /\ rows'[i].of \in DOMAIN rows'
               /\ rows'[rows'[i].of].of = None
               /\ rows'[rows'[i].of].version > 0
               /\ rows'[i].amount = -rows'[rows'[i].of].amount
    <3>1. CASE i \in 1..Len(rows)
      <4>1. i # p /\ rows'[i] = rows[i]
        BY <1>3, <1>11, <2>1, <3>1
      <4>2. /\ rows[i].of \in 1..Len(rows)
            /\ rows[rows[i].of].of = None
            /\ rows[rows[i].of].version > 0
            /\ rows[i].amount = -rows[rows[i].of].amount
        BY <1>3, <2>1, <3>1, <4>1 DEF Claims, DebtInvariant
      <4>3. rows[i].of # p /\ rows'[rows[i].of] = rows[rows[i].of]
        BY <1>3, <1>11, <4>2
      <4> QED BY <1>3, <1>11, <4>1, <4>2, <4>3
    <3>2. CASE i \notin 1..Len(rows)
      <4>1. rows'[i] = row /\ rows'[p] = claimed
        BY <1>3, <1>11, <3>2
      <4> QED BY <1>3, <1>11, <4>1
    <3> QED BY <3>1, <3>2
  <2> QED BY <2>1 DEF Claims
<1>18. Singly'
  <2>1. \A i \in 1..Len(rows) : rows[i].of # p
    BY <1>3 DEF Claims, DebtInvariant
  <2> QED BY <1>3, <1>11, <2>1 DEF Singly, DebtInvariant
<1> QED BY <1>12, <1>13, <1>14, <1>15, <1>16, <1>17, <1>18 DEF DebtInvariant

(* The status of a debt moves along its table of transitions.              *)
LEMMA InvariantTransition ==
  ASSUME DebtInvariant, NEW c \in Callers, TransitionDebtStatus(c)
  PROVE  DebtInvariant'
<1> USE DebtAssumption, NoneIsNothing
<1>1. req[c].pc = "read" /\ SameVersion(c)
  BY DEF TransitionDebtStatus
<1>2. req[c].snap = debt /\ debt \in DebtRow /\ debt # None /\ req[c] \in Request
  BY <1>1, SnapshotIsDebt
<1> DEFINE resolved == RecomputeStatus("open", debt.remaining, debt.original)
           target == IF req[c].op = "dispute" THEN "disputed"
                     ELSE IF req[c].op = "write_off" THEN "written_off" ELSE resolved
<1>3. debt' = Becomes(target, debt.remaining, debt.paid, debt.last)
  BY <1>2 DEF TransitionDebtStatus
<1>4. /\ resolved \in Statuses
      /\ resolved = "paid" <=> debt.remaining = 0
      /\ resolved = "partially_paid" <=> debt.remaining \in 1..(debt.original - 1)
      /\ resolved = "open" <=> debt.remaining >= debt.original
  <2>1. "open" \in Statuses /\ debt.remaining \in Nat /\ debt.original \in Nat \ {0}
    BY <1>2 DEF DebtRow, Statuses
  <2> QED BY <2>1, StatusFollows
<1>5. /\ debt' \in DebtRow /\ debt' # None
      /\ debt'.status = target /\ debt'.original = debt.original
      /\ debt'.remaining = debt.remaining /\ debt'.paid = debt.paid
      /\ debt'.version = debt.version + 1 /\ debt'.taken = debt.taken /\ debt'.last = debt.last
  <2>1. PICK s, r, q, l, d : s = target /\ r = debt.remaining /\ q = debt.paid /\ l = debt.last /\ d = debt'
    OBVIOUS
  <2>2. s \in Statuses /\ r \in Nat /\ q \in Int /\ l \in Nat \cup {None}
    BY <1>2, <1>4, <2>1 DEF DebtRow, Statuses
  <2>3. d = Becomes(s, r, q, l)
    BY <2>1, <1>3
  <2>4. debt \in DebtRow
    BY <1>2
  <2>5. /\ d \in DebtRow /\ d # None
        /\ d.status = s /\ d.original = debt.original /\ d.remaining = r /\ d.paid = q
        /\ d.version = debt.version + 1 /\ d.taken = debt.taken /\ d.last = l
    BY <2>2, <2>3, <2>4, WhatBecomes
  <2> QED BY <2>1, <2>5
<1>6. /\ req' \in [Callers -> Request]
      /\ \A d \in Callers : Sent(d)' /\ Current(d)'
  <2>1. rows' = rows /\ Answer(c)
    BY DEF TransitionDebtStatus
  <2> QED BY <1>2, <1>5, <2>1, OthersBecomeStale
<1>7. TypeOK'
  BY <1>2, <1>5, <1>6 DEF TypeOK, TransitionDebtStatus, DebtInvariant, DebtRow
<1>8. Dated' /\ MoneyConserved'
  BY <1>2, <1>5 DEF Dated, MoneyConserved, TransitionDebtStatus, DebtInvariant
<1>9. StatusExplained'
  BY <1>4, <1>5 DEF StatusExplained
<1>10. Claims' /\ Singly'
  BY DEF Claims, Singly, TransitionDebtStatus, DebtInvariant
<1> QED BY <1>6, <1>7, <1>8, <1>9, <1>10 DEF DebtInvariant

(* Interest is added to a debt that still is as it was read.               *)
LEMMA InvariantApplyInterest ==
  ASSUME DebtInvariant, NEW c \in Callers, ApplyInterest(c)
  PROVE  DebtInvariant'
<1> USE DebtAssumption, NoneIsNothing
<1> DEFINE due == req[c].due
           more == debt.remaining + due
           new == RecomputeStatus(debt.status, more, debt.original)
<1>1. req[c].pc = "read" /\ SameVersion(c)
  BY DEF ApplyInterest
<1>2. req[c].snap = debt /\ debt \in DebtRow /\ debt # None /\ req[c] \in Request
  BY <1>1, SnapshotIsDebt
<1>3. due \in Nat /\ more \in Nat
  BY <1>2 DEF Request, DebtRow
<1>4. debt' = Becomes(new, more, debt.paid, today)
  BY <1>2 DEF ApplyInterest, StatusAfter
<1>5. /\ new \in Statuses \ {"written_off"}
      /\ new # "disputed" =>
           /\ new = "paid" <=> more = 0
           /\ new = "partially_paid" <=> more \in 1..(debt.original - 1)
           /\ new = "open" <=> more >= debt.original
  <2>1. debt.status \in Statuses /\ debt.original \in Nat \ {0}
    BY <1>2 DEF DebtRow
  <2> HIDE DEF more
  <2> QED BY <1>3, <2>1, StatusFollows
<1>6. today \in Nat
  BY DEF DebtInvariant, TypeOK
<1>7. /\ debt' \in DebtRow /\ debt' # None
      /\ debt'.status = new /\ debt'.original = debt.original
      /\ debt'.remaining = more /\ debt'.paid = debt.paid
      /\ debt'.version = debt.version + 1 /\ debt'.taken = debt.taken /\ debt'.last = today
  <2>1. PICK s, r, q, l, d : s = new /\ r = more /\ q = debt.paid /\ l = today /\ d = debt'
    OBVIOUS
  <2>2. s \in Statuses /\ r \in Nat /\ q \in Int /\ l \in Nat \cup {None}
    BY <1>2, <1>3, <1>5, <1>6, <2>1 DEF DebtRow
  <2>3. d = Becomes(s, r, q, l)
    BY <2>1, <1>4
  <2>4. debt \in DebtRow
    BY <1>2
  <2>5. /\ d \in DebtRow /\ d # None
        /\ d.status = s /\ d.original = debt.original /\ d.remaining = r /\ d.paid = q
        /\ d.version = debt.version + 1 /\ d.taken = debt.taken /\ d.last = l
    BY <2>2, <2>3, <2>4, WhatBecomes
  <2> QED BY <2>1, <2>5
<1>8. /\ req' \in [Callers -> Request]
      /\ \A d \in Callers : Sent(d)' /\ Current(d)'
  <2>1. rows' = rows /\ Answer(c)
    BY DEF ApplyInterest
  <2> QED BY <1>2, <1>7, <2>1, OthersBecomeStale
<1>9. TypeOK'
  BY <1>3, <1>7, <1>8 DEF TypeOK, ApplyInterest, DebtInvariant
<1>10. Dated'
  BY <1>2, <1>6, <1>7 DEF Dated, ApplyInterest, DebtInvariant
<1>11. MoneyConserved'
  <2>1. interest' = interest + due /\ interest \in Nat
    BY DEF ApplyInterest, DebtInvariant, TypeOK
  <2>2. debt'.paid = debt.paid /\ debt'.remaining = more /\ debt'.original = debt.original
    BY <1>7
  <2>3. debt.paid + debt.remaining = debt.original + interest
    BY <1>2 DEF MoneyConserved, DebtInvariant
  <2>4. debt.paid \in Int /\ debt.remaining \in Nat /\ debt.original \in Nat
    BY <1>2 DEF DebtRow
  <2> QED BY <1>3, <2>1, <2>2, <2>3, <2>4 DEF MoneyConserved
<1>12. StatusExplained'
  BY <1>5, <1>7 DEF StatusExplained
<1>13. Claims' /\ Singly'
  BY DEF Claims, Singly, ApplyInterest, DebtInvariant
<1> QED BY <1>8, <1>9, <1>10, <1>11, <1>12, <1>13 DEF DebtInvariant

(* A debt is created with its principal.                                   *)
LEMMA InvariantCreate ==
  ASSUME DebtInvariant, CreateDebt
  PROVE  DebtInvariant'
<1> USE DebtAssumption, NoneIsNothing
<1>1. PICK a \in Amounts : \E policy \in Policies :
        /\ debt' = [status |-> "open", original |-> a, remaining |-> a, paid |-> 0,
                    version |-> 0, policy |-> policy, taken |-> today, last |-> None]
        /\ balance' = balance + a
  BY DEF CreateDebt
<1>2. today \in Nat /\ interest \in Nat /\ balance \in Int
  BY DEF DebtInvariant, TypeOK
<1>3. debt' \in DebtRow /\ balance' \in Int
  BY <1>1, <1>2 DEF DebtRow, Statuses
<1>4. TypeOK'
  BY <1>3 DEF TypeOK, DebtInvariant, CreateDebt
<1>5. \A c \in Callers : Sent(c)' /\ Current(c)'
  BY DEF CreateDebt, Sent, Current, DebtInvariant, TypeOK, Request
<1>6. Dated' /\ MoneyConserved' /\ StatusExplained'
  BY <1>1, <1>2 DEF CreateDebt, DebtInvariant, Dated, MoneyConserved, StatusExplained
<1>7. Claims' /\ Singly'
  BY DEF CreateDebt, DebtInvariant, Claims, Singly
<1> QED BY <1>4, <1>5, <1>6, <1>7 DEF DebtInvariant
------------------------------------------------------------------------------
(* Every step keeps the invariant.                                         *)
LEMMA InvariantStep == DebtInvariant /\ [Next]_vars => DebtInvariant'
<1> SUFFICES ASSUME DebtInvariant, [Next]_vars PROVE DebtInvariant'
  OBVIOUS
<1>1. CASE CreateDebt
  BY <1>1, InvariantCreate
<1>2. CASE NextDay
  <2> USE <1>2 DEF NextDay, DebtInvariant
  <2>1. TypeOK' /\ Dated'
    BY DebtAssumption, NoneIsNothing DEF TypeOK, Dated, DebtRow
  <2>2. MoneyConserved' /\ StatusExplained' /\ Claims' /\ Singly'
    BY DEF MoneyConserved, StatusExplained, Claims, Singly
  <2>3. \A c \in Callers : Sent(c)' /\ Current(c)'
    BY DEF Sent, Current, Arguments
  <2> QED BY <2>1, <2>2, <2>3
<1>3. ASSUME NEW c \in Callers, Compose(c) PROVE DebtInvariant'
  BY <1>3, InvariantCompose
<1>4. ASSUME NEW c \in Callers, Read(c) PROVE DebtInvariant'
  BY <1>4, InvariantRead
<1>5. ASSUME NEW c \in Callers, Refuse(c) \/ Conflict(c) PROVE DebtInvariant'
  BY <1>5, IdleIsARequest, InvariantQuiet DEF Refuse, Conflict, Answer
<1>6. ASSUME NEW c \in Callers, RecordPayment(c) PROVE DebtInvariant'
  BY <1>6, InvariantRecordPayment
<1>7. ASSUME NEW c \in Callers, ReversePayment(c) PROVE DebtInvariant'
  BY <1>7, InvariantReversePayment
<1>8. ASSUME NEW c \in Callers, TransitionDebtStatus(c) PROVE DebtInvariant'
  BY <1>8, InvariantTransition
<1>9. ASSUME NEW c \in Callers, ApplyInterest(c) PROVE DebtInvariant'
  BY <1>9, InvariantApplyInterest
<1>10. CASE UNCHANGED vars
  <2> USE <1>10 DEF vars, DebtInvariant
  <2>1. TypeOK' /\ Dated' /\ MoneyConserved' /\ StatusExplained' /\ Claims' /\ Singly'
    BY DEF TypeOK, Dated, MoneyConserved, StatusExplained, Claims, Singly
  <2>2. \A c \in Callers : Sent(c)' /\ Current(c)'
    BY DEF Sent, Current, Arguments
  <2> QED BY <2>1, <2>2
<1> QED BY <1>1, <1>2, <1>3, <1>4, <1>5, <1>6, <1>7, <1>8, <1>9, <1>10
        DEF Next, Quiescent

(* What is owed is explained by the ledger at all times (debt.service.ts). *)
THEOREM InvariantHolds == Spec => []DebtInvariant
BY InvariantInit, InvariantStep, PTL DEF Spec

(* Every row keeps its type; in particular no interleaving of payments,    *)
(* reversals and charges drives amount_remaining below zero                *)
(* (chk_debts_amount_nonneg).                                              *)
THEOREM TypeInvariant == Spec => []TypeOK
<1>1. DebtInvariant => TypeOK
  BY DEF DebtInvariant
<1> QED BY <1>1, InvariantHolds, PTL

(* No update is lost: paid plus remaining is original plus interest, with  *)
(* any number of requests in flight (debt.service.ts:524-526).             *)
THEOREM MoneyIsConserved == Spec => []MoneyConserved
<1>1. DebtInvariant => MoneyConserved
  BY DEF DebtInvariant
<1> QED BY <1>1, InvariantHolds, PTL

(* Outside a dispute and a write-off, recomputeStatus's answer stays true. *)
THEOREM StatusIsExplained == Spec => []StatusExplained
<1>1. DebtInvariant => StatusExplained
  BY DEF DebtInvariant
<1> QED BY <1>1, InvariantHolds, PTL

(* reversePayment: one reversal per payment, none of a reversal.           *)
THEOREM PaymentsReversedOnce == Spec => []ReversedOnce
<1>1. DebtInvariant => ReversedOnce
  <2> SUFFICES ASSUME DebtInvariant, NEW i \in DOMAIN rows, NEW j \in DOMAIN rows
               PROVE  /\ i # j => rows[i].of = None \/ rows[i].of # rows[j].of
                      /\ rows[i].of = j => rows[j].of = None /\ rows[j].amount = -rows[i].amount
    BY DEF ReversedOnce
  <2>1. i # j => rows[i].of = None \/ rows[i].of # rows[j].of
    BY DEF DebtInvariant, Singly
  <2>2. ASSUME rows[i].of = j PROVE rows[j].of = None /\ rows[j].amount = -rows[i].amount
    <3>1. j \in Nat /\ rows[j].amount \in Int
      <4>1. rows \in Seq(PaymentRow)
        BY DEF DebtInvariant, TypeOK
      <4>2. j \in 1..Len(rows) /\ Len(rows) \in Nat
        BY <4>1
      <4>3. rows[j] \in PaymentRow
        BY <4>1, <4>2
      <4> QED BY <4>2, <4>3 DEF PaymentRow
    <3>2. rows[i].of # None
      BY <2>2, <3>1, NoneIsNothing
    <3> QED BY <2>2, <3>1, <3>2 DEF DebtInvariant, Claims
  <2> QED BY <2>1, <2>2
<1> QED BY <1>1, InvariantHolds, PTL

(* "a routine payment/reversal doesn't silently clear disputed": only the  *)
(* status actions end a dispute, and they move no amount.                  *)
THEOREM DisputesAreHeld == Spec => DisputeHeld
<1>1. DebtInvariant /\ [Next]_vars =>
        [(debt # None /\ debt.status = "disputed" /\ debt'.status # "disputed")
           => debt'.remaining = debt.remaining /\ debt'.paid = debt.paid]_vars
  <2> SUFFICES ASSUME DebtInvariant, Next, debt # None, debt.status = "disputed",
                      debt'.status # "disputed"
               PROVE  debt'.remaining = debt.remaining /\ debt'.paid = debt.paid
    OBVIOUS
  <2>1. ASSUME NEW c \in Callers, RecordPayment(c) \/ ReversePayment(c) \/ ApplyInterest(c)
        PROVE  FALSE
    <3>1. req[c].snap = debt
      BY <2>1, SnapshotIsDebt DEF RecordPayment, ReversePayment, ApplyInterest
    <3>2. debt'.status = "disputed"
      BY <2>1, <3>1 DEF RecordPayment, ReversePayment, ApplyInterest, Becomes, StatusAfter,
                        RecomputeStatus
    <3> QED BY <3>2
  <2>2. ASSUME NEW c \in Callers, TransitionDebtStatus(c)
        PROVE  debt'.remaining = debt.remaining /\ debt'.paid = debt.paid
    BY <2>2 DEF TransitionDebtStatus, Becomes
  <2>3. CASE debt' = debt
    BY <2>3
  <2> QED BY <2>1, <2>2, <2>3
          DEF Next, CreateDebt, NextDay, Quiescent, vars, Compose, Read, Refuse, Conflict
<1> QED BY <1>1, InvariantHolds, PTL DEF Spec, DisputeHeld
------------------------------------------------------------------------------
(* The payments that stand: those that nobody has claimed to reverse.      *)
Standing(s) == {i \in DOMAIN s : s[i].of = None /\ s[i].version = 0}

AmountOf(s) == [i \in DOMAIN s |-> s[i].amount]

StandingSum(s) == Sum(AmountOf(s), Standing(s))

(* What was paid is what all rows come to, and also what the payments that *)
(* stand come to: only the second shows that it is never negative.         *)
PaidInvariant ==
  /\ debt = None => rows = <<>>
  /\ debt # None => debt.paid = Total(rows) /\ debt.paid = StandingSum(rows)
  /\ \A i \in Standing(rows) : rows[i].amount > 0

(* The rows of a sequence of payments, and their sums.                     *)
LEMMA RowsAdd ==
  ASSUME NEW s \in Seq(PaymentRow)
  PROVE  /\ Len(s) \in Nat /\ DOMAIN s = 1..Len(s)
         /\ IsFiniteSet(DOMAIN s) /\ IsFiniteSet(Standing(s))
         /\ \A i \in DOMAIN s : s[i] \in PaymentRow /\ AmountOf(s)[i] = s[i].amount /\ s[i].amount \in Int
         /\ Total(s) = Sum(AmountOf(s), DOMAIN s)
         /\ Total(s) \in Int /\ StandingSum(s) \in Int
<1>1. Len(s) \in Nat /\ DOMAIN s = 1..Len(s)
  OBVIOUS
<1>2. IsFiniteSet(DOMAIN s) /\ IsFiniteSet(Standing(s))
  <2>1. IsFiniteSet(DOMAIN s)
    BY <1>1, FS_Interval
  <2>2. Standing(s) \subseteq DOMAIN s
    BY DEF Standing
  <2> QED BY <2>1, <2>2, FS_Subset
<1>3. ASSUME NEW i \in DOMAIN s
      PROVE  s[i] \in PaymentRow /\ AmountOf(s)[i] = s[i].amount /\ s[i].amount \in Int
  <2>1. s[i] \in PaymentRow
    BY <1>1, <1>3
  <2> QED BY <1>3, <2>1 DEF AmountOf, PaymentRow
<1>4. Total(s) = Sum(AmountOf(s), DOMAIN s)
  BY DEF Total, AmountOf
<1>5. Sum(AmountOf(s), DOMAIN s) \in Int
  BY <1>2, <1>3, SumInt
<1>6. StandingSum(s) \in Int
  <2>1. \A i \in Standing(s) : AmountOf(s)[i] \in Int
    BY <1>3 DEF Standing
  <2> QED BY <1>2, <2>1, SumInt DEF StandingSum
<1> QED BY <1>1, <1>2, <1>3, <1>4, <1>5, <1>6

(* A row that is added adds its amount to the total, whatever becomes of   *)
(* the versions of the others.                                             *)
LEMMA RowAdded ==
  ASSUME NEW s \in Seq(PaymentRow), NEW t \in Seq(PaymentRow), Len(t) = Len(s) + 1,
         \A i \in 1..Len(s) : t[i].amount = s[i].amount
  PROVE  Total(t) = Total(s) + t[Len(t)].amount
<1> DEFINE n == Len(s)
<1>1. n \in Nat /\ DOMAIN s = 1..n /\ DOMAIN t = 1..(n + 1) /\ n + 1 \in DOMAIN t
  BY RowsAdd
<1>2. \A i \in 1..n : AmountOf(s)[i] \in Int /\ AmountOf(t)[i] = AmountOf(s)[i]
  <2>1. \A i \in DOMAIN s : AmountOf(s)[i] = s[i].amount /\ s[i].amount \in Int
    BY RowsAdd
  <2>2. \A i \in DOMAIN t : AmountOf(t)[i] = t[i].amount
    BY RowsAdd
  <2>3. DOMAIN s \subseteq DOMAIN t
    BY <1>1
  <2> QED BY <1>1, <2>1, <2>2, <2>3
<1>3. AmountOf(t)[n + 1] = t[n + 1].amount /\ t[n + 1].amount \in Int
  BY <1>1, RowsAdd
<1>4. Sum(AmountOf(t), 1..(n + 1)) = Sum(AmountOf(s), 1..n) + AmountOf(t)[n + 1]
  <2> HIDE DEF n
  <2> QED BY <1>1, <1>2, <1>3, SumAppended
<1>5. Total(s) = Sum(AmountOf(s), 1..n) /\ Total(t) = Sum(AmountOf(t), 1..(n + 1))
  BY <1>1, RowsAdd
<1> QED BY <1>3, <1>4, <1>5

(* A payment that is recorded stands; a reversal does not, and the payment *)
(* it reverses stands no more.                                             *)
LEMMA PaymentStands ==
  ASSUME NEW s \in Seq(PaymentRow), NEW row \in PaymentRow, row.of = None, row.version = 0
  PROVE  LET t == Append(s, row) IN
         /\ Standing(t) = Standing(s) \cup {Len(s) + 1}
         /\ StandingSum(t) = StandingSum(s) + row.amount
<1> DEFINE t == Append(s, row)  n == Len(s)
<1>1. /\ t \in Seq(PaymentRow) /\ n \in Nat /\ DOMAIN s = 1..n /\ DOMAIN t = 1..(n + 1)
      /\ t[n + 1] = row /\ \A i \in 1..n : t[i] = s[i]
  BY AppendProperties
<1> HIDE DEF t, n
<1>2. Standing(t) = Standing(s) \cup {n + 1} /\ n + 1 \notin Standing(s)
  BY <1>1 DEF Standing
<1>3. Standing(t) \ {n + 1} = Standing(s) /\ n + 1 \in Standing(t)
  BY <1>2
<1>4. \A i \in Standing(t) : AmountOf(t)[i] \in Int
  BY <1>1, RowsAdd DEF Standing
<1>5. Sum(AmountOf(t), Standing(t)) = AmountOf(t)[n + 1] + Sum(AmountOf(t), Standing(s))
  <2>1. IsFiniteSet(Standing(t))
    BY <1>1, RowsAdd
  <2>2. Sum(AmountOf(t), Standing(t)) = AmountOf(t)[n + 1] + Sum(AmountOf(t), Standing(t) \ {n + 1})
    BY <1>3, <1>4, <2>1, SumRemove
  <2> QED BY <1>3, <2>2
<1>6. Sum(AmountOf(t), Standing(s)) = Sum(AmountOf(s), Standing(s))
  <2>1. IsFiniteSet(Standing(s))
    BY RowsAdd
  <2>2. \A i \in Standing(s) : AmountOf(t)[i] = AmountOf(s)[i]
    BY <1>1 DEF Standing, AmountOf
  <2> QED BY <2>1, <2>2, SumAgrees
<1>7. AmountOf(t)[n + 1] = row.amount /\ row.amount \in Int
  BY <1>1 DEF AmountOf, PaymentRow
<1>8. StandingSum(s) \in Int
  BY RowsAdd
<1>9. StandingSum(t) = StandingSum(s) + row.amount
  BY <1>5, <1>6, <1>7, <1>8 DEF StandingSum
<1> QED BY <1>2, <1>9 DEF t, n

(* ... and the other payments stand as before.                             *)
LEMMA PaymentFalls ==
  ASSUME NEW s \in Seq(PaymentRow), NEW t \in Seq(PaymentRow), NEW p \in Standing(s),
         Len(t) = Len(s) + 1, t[Len(t)].of # None, t[p].version # 0,
         \A i \in 1..Len(s) : i # p => t[i] = s[i]
  PROVE  /\ Standing(t) = Standing(s) \ {p}
         /\ \A i \in Standing(t) : t[i] = s[i]
         /\ StandingSum(t) = StandingSum(s) - s[p].amount
<1> DEFINE n == Len(s)
<1>1. n \in Nat /\ DOMAIN s = 1..n /\ DOMAIN t = 1..(n + 1) /\ p \in 1..n /\ Len(t) = n + 1
  BY RowsAdd DEF Standing
<1> HIDE DEF n
<1>2. \A i \in 1..n : i # p => t[i] = s[i]
  BY DEF n
<1>3. Standing(t) = Standing(s) \ {p}
  <2>1. n + 1 \notin Standing(t) /\ p \notin Standing(t)
    BY <1>1 DEF Standing
  <2>2. \A i \in (1..n) \ {p} : i \in Standing(t) <=> i \in Standing(s)
    BY <1>1, <1>2 DEF Standing
  <2>3. Standing(t) \subseteq 1..(n + 1) /\ Standing(s) \subseteq 1..n
    BY <1>1 DEF Standing
  <2>4. 1..(n + 1) = (1..n) \cup {n + 1}
    BY <1>1
  <2> QED BY <2>1, <2>2, <2>3, <2>4
<1>4. \A i \in Standing(t) : t[i] = s[i]
  BY <1>1, <1>2, <1>3 DEF Standing
<1>5. Sum(AmountOf(t), Standing(t)) = Sum(AmountOf(s), Standing(s) \ {p})
  <2>1. IsFiniteSet(Standing(t))
    BY RowsAdd
  <2>2. \A i \in Standing(t) : AmountOf(t)[i] = AmountOf(s)[i]
    BY <1>3, <1>4 DEF Standing, AmountOf
  <2>3. Sum(AmountOf(t), Standing(t)) = Sum(AmountOf(s), Standing(t))
    BY <2>1, <2>2, SumAgrees
  <2> QED BY <1>3, <2>3
<1>6. Sum(AmountOf(s), Standing(s)) = AmountOf(s)[p] + Sum(AmountOf(s), Standing(s) \ {p})
  <2>1. IsFiniteSet(Standing(s)) /\ \A i \in Standing(s) : AmountOf(s)[i] \in Int
    BY RowsAdd DEF Standing
  <2> QED BY <2>1, SumRemove
<1>7. AmountOf(s)[p] = s[p].amount /\ s[p].amount \in Int
  BY RowsAdd DEF Standing
<1>8. StandingSum(t) \in Int
  BY RowsAdd
<1> QED BY <1>3, <1>4, <1>5, <1>6, <1>7, <1>8 DEF StandingSum

(* The status that follows from an amount is one.                          *)
LEMMA StatusIsOne ==
  ASSUME NEW s \in Statuses, NEW r, NEW o
  PROVE  RecomputeStatus(s, r, o) \in Statuses
BY DEF RecomputeStatus, Statuses

(* A payment is one more that stands.                                      *)
LEMMA PaidMore ==
  ASSUME DebtInvariant, PaidInvariant, NEW c \in Callers, RecordPayment(c)
  PROVE  PaidInvariant'
<1> DEFINE n == req[c].n
           row == [amount |-> n, version |-> 0, of |-> None]
<1>1. req[c].snap = debt /\ debt \in DebtRow /\ debt # None
  BY SnapshotIsDebt, NoneIsNothing DEF RecordPayment
<1>2. n \in Nat \ {0}
  <2>1. Sent(c) /\ req[c].pc = "read" /\ req[c].op = "pay"
    BY DEF DebtInvariant, RecordPayment
  <2> QED BY <2>1, DebtAssumption DEF Sent, Arguments
<1>3. debt' # None /\ debt'.paid = debt.paid + n
  <2>1. req[c].pc = "read" /\ req[c].op = "pay" /\ Current(c)
    BY DEF RecordPayment, DebtInvariant
  <2>2. debt.remaining - n \in Nat /\ debt.paid + n \in Int
    BY <1>1, <1>2, <2>1 DEF Current, DebtRow
  <2>3. PICK s, r, q, l, d :
          /\ s = RecomputeStatus(debt.status, debt.remaining - n, debt.original)
          /\ r = debt.remaining - n /\ q = debt.paid + n /\ l = debt.last /\ d = debt'
    OBVIOUS
  <2>4. d = Becomes(s, r, q, l)
    BY <1>1, <2>3 DEF RecordPayment, StatusAfter
  <2>5. s \in Statuses /\ l \in Nat \cup {None}
    BY <1>1, <2>3, StatusIsOne DEF DebtRow
  <2> HIDE DEF n
  <2>6. debt \in DebtRow /\ r \in Nat /\ q \in Int
    BY <1>1, <2>2, <2>3
  <2>7. d # None /\ d.paid = q
    BY <2>4, <2>5, <2>6, WhatBecomes
  <2> QED BY <2>3, <2>7
<1>4. rows \in Seq(PaymentRow) /\ row \in PaymentRow /\ rows' = Append(rows, row)
  BY <1>2 DEF RecordPayment, DebtInvariant, TypeOK, PaymentRow
<1> HIDE DEF n
<1>5. rows' \in Seq(PaymentRow) /\ Len(rows') = Len(rows) + 1 /\ rows'[Len(rows')] = row
      /\ \A i \in 1..Len(rows) : rows'[i] = rows[i]
  BY <1>4
<1>6. Total(rows') = Total(rows) + n
  <2>1. \A i \in 1..Len(rows) : rows'[i].amount = rows[i].amount
    BY <1>5
  <2>2. Total(rows') = Total(rows) + row.amount
    BY <1>4, <1>5, <2>1, RowAdded
  <2> QED BY <2>2
<1>7. Standing(rows') = Standing(rows) \cup {Len(rows) + 1} /\ StandingSum(rows') = StandingSum(rows) + n
  BY <1>4, PaymentStands
<1>8. ASSUME NEW i \in Standing(rows') PROVE rows'[i].amount > 0
  <2>1. CASE i \in Standing(rows)
    BY <1>4, <1>5, <2>1, RowsAdd DEF PaidInvariant, Standing
  <2>2. CASE i = Len(rows) + 1
    BY <1>2, <1>5, <2>2
  <2> QED BY <1>7, <1>8, <2>1, <2>2
<1>9. debt'.paid = Total(rows') /\ debt'.paid = StandingSum(rows')
  BY <1>1, <1>3, <1>6, <1>7 DEF PaidInvariant
<1> QED BY <1>3, <1>8, <1>9 DEF PaidInvariant

(* A reversal takes back a payment that stands.                            *)
LEMMA PaidLess ==
  ASSUME DebtInvariant, PaidInvariant, NEW c \in Callers, ReversePayment(c)
  PROVE  PaidInvariant'
<1> DEFINE p == req[c].n
           n == rows[p].amount
           claimed == [amount |-> n, version |-> rows[p].version + 1, of |-> rows[p].of]
           row == [amount |-> -n, version |-> 0, of |-> p]
           mid == [rows EXCEPT ![p] = claimed]
<1>1. req[c].snap = debt /\ debt \in DebtRow /\ debt # None
  BY SnapshotIsDebt, NoneIsNothing DEF ReversePayment
<1>2. /\ rows \in Seq(PaymentRow) /\ Len(rows) \in Nat /\ DOMAIN rows = 1..Len(rows)
      /\ p \in 1..Len(rows) /\ rows[p] \in PaymentRow
      /\ rows[p].of = None /\ rows[p].version = 0 /\ n \in Nat \ {0}
  <2>1. /\ Sent(c) /\ Current(c) /\ rows \in Seq(PaymentRow)
        /\ req[c].pc = "read" /\ req[c].op = "reverse" /\ Claimable(c)
    BY DEF DebtInvariant, TypeOK, ReversePayment
  <2>2. Len(rows) \in Nat /\ DOMAIN rows = 1..Len(rows)
    BY <2>1
  <2>3. p \in 1..Len(rows)
    BY <2>1, <2>2 DEF Sent, Arguments
  <2>4. rows[p] \in PaymentRow
    BY <2>1, <2>3
  <2>5. rows[p].of = None /\ rows[p].amount > 0 /\ rows[p].version = 0
    BY <2>1 DEF Current, Claimable
  <2> QED BY <2>1, <2>2, <2>3, <2>4, <2>5 DEF PaymentRow
<1>3. debt' # None /\ debt'.paid = debt.paid - n
  <2>1. debt.remaining + n \in Nat /\ debt.paid - n \in Int
    <3>1. debt.remaining \in Nat /\ debt.paid \in Int
      BY <1>1 DEF DebtRow
    <3>2. n \in Nat
      BY <1>2
    <3> HIDE DEF n
    <3> QED BY <3>1, <3>2
  <2>2. PICK s, r, q, l, d :
          /\ s = RecomputeStatus(debt.status, debt.remaining + n, debt.original)
          /\ r = debt.remaining + n /\ q = debt.paid - n /\ l = debt.last /\ d = debt'
    OBVIOUS
  <2>3. d = Becomes(s, r, q, l)
    BY <1>1, <2>2 DEF ReversePayment, StatusAfter
  <2>4. s \in Statuses /\ l \in Nat \cup {None}
    BY <1>1, <2>2, StatusIsOne DEF DebtRow
  <2> HIDE DEF n
  <2>5. debt \in DebtRow /\ r \in Nat /\ q \in Int
    BY <1>1, <2>1, <2>2
  <2>6. d # None /\ d.paid = q
    BY <2>3, <2>4, <2>5, WhatBecomes
  <2> QED BY <2>2, <2>6
<1>4. claimed \in PaymentRow /\ row \in PaymentRow /\ rows' = Append(mid, row)
  BY <1>2 DEF PaymentRow, ReversePayment
<1>5. /\ mid \in Seq(PaymentRow) /\ Len(mid) = Len(rows)
      /\ \A i \in 1..Len(rows) : mid[i] = IF i = p THEN claimed ELSE rows[i]
  BY <1>2, <1>4, ExceptSeq
<1>6. /\ rows' \in Seq(PaymentRow) /\ Len(rows') = Len(rows) + 1 /\ rows'[Len(rows')] = row
      /\ \A i \in 1..Len(rows) : rows'[i] = IF i = p THEN claimed ELSE rows[i]
  BY <1>2, <1>4, <1>5, AppendProperties
<1>7. Total(rows') = Total(rows) - n
  <2>1. \A i \in 1..Len(rows) : rows'[i].amount = rows[i].amount
    BY <1>6
  <2>2. Total(rows') = Total(rows) + row.amount
    BY <1>2, <1>6, <2>1, RowAdded
  <2>3. Total(rows) \in Int
    BY <1>2, RowsAdd
  <2> QED BY <1>2, <2>2, <2>3
<1>8. p \in Standing(rows)
  BY <1>2 DEF Standing
<1>9. /\ Standing(rows') = Standing(rows) \ {p}
      /\ \A i \in Standing(rows') : rows'[i] = rows[i]
      /\ StandingSum(rows') = StandingSum(rows) - n
  <2>1. rows'[Len(rows')].of # None /\ rows'[p].version # 0
    BY <1>2, <1>6, NoneIsNothing
  <2>2. \A i \in 1..Len(rows) : i # p => rows'[i] = rows[i]
    BY <1>6
  <2>3. PICK s, t, i : s = rows /\ t = rows' /\ i = p
    OBVIOUS
  <2>4. /\ s \in Seq(PaymentRow) /\ t \in Seq(PaymentRow) /\ i \in Standing(s)
        /\ Len(t) = Len(s) + 1 /\ t[Len(t)].of # None /\ t[i].version # 0
        /\ \A j \in 1..Len(s) : j # i => t[j] = s[j]
    BY <1>2, <1>6, <1>8, <2>1, <2>2, <2>3
  <2>5. /\ Standing(t) = Standing(s) \ {i} /\ \A j \in Standing(t) : t[j] = s[j]
        /\ StandingSum(t) = StandingSum(s) - s[i].amount
    BY <2>4, PaymentFalls
  <2> QED BY <2>3, <2>5
<1>10. debt'.paid = Total(rows') /\ debt'.paid = StandingSum(rows')
  BY <1>1, <1>3, <1>7, <1>9 DEF PaidInvariant
<1>11. \A i \in Standing(rows') : rows'[i].amount > 0
  BY <1>9 DEF PaidInvariant
<1> QED BY <1>3, <1>10, <1>11 DEF PaidInvariant

(* A change of status and a charge leave what was paid alone.              *)
LEMMA PaidAlike ==
  ASSUME DebtInvariant, PaidInvariant, NEW c \in Callers, TransitionDebtStatus(c) \/ ApplyInterest(c)
  PROVE  PaidInvariant'
<1>1. req[c].snap = debt /\ debt \in DebtRow /\ debt # None /\ rows' = rows /\ today \in Nat
  BY SnapshotIsDebt, NoneIsNothing, DebtAssumption
     DEF TransitionDebtStatus, ApplyInterest, DebtInvariant, TypeOK
<1>2. req[c].due \in Nat
  BY DEF DebtInvariant, TypeOK, Request
<1>3. PICK s \in Statuses, r \in Nat, l \in Nat \cup {None} : debt' = Becomes(s, r, debt.paid, l)
  <2>1. CASE TransitionDebtStatus(c)
    <3>1. PICK s : /\ debt' = Becomes(s, debt.remaining, debt.paid, debt.last)
                   /\ s = IF req[c].op = "dispute" THEN "disputed"
                          ELSE IF req[c].op = "write_off" THEN "written_off"
                          ELSE RecomputeStatus("open", debt.remaining, debt.original)
      BY <1>1, <2>1 DEF TransitionDebtStatus
    <3>2. s \in Statuses
      BY <3>1 DEF RecomputeStatus, Statuses
    <3> QED BY <1>1, <3>1, <3>2 DEF DebtRow
  <2>2. CASE ApplyInterest(c)
    <3>1. PICK s, r : /\ debt' = Becomes(s, r, debt.paid, today)
                      /\ s = RecomputeStatus(debt.status, r, debt.original)
                      /\ r = debt.remaining + req[c].due
      BY <1>1, <2>2 DEF ApplyInterest, StatusAfter
    <3>2. r \in Nat /\ s \in Statuses
      BY <1>1, <1>2, <3>1, StatusIsOne DEF DebtRow
    <3> QED BY <1>1, <3>1, <3>2
  <2> QED BY <2>1, <2>2
<1>4. debt' # None /\ debt'.paid = debt.paid
  <2>1. PICK q, d : q = debt.paid /\ d = debt'
    OBVIOUS
  <2>2. q \in Int /\ d = Becomes(s, r, q, l) /\ debt \in DebtRow
    BY <1>1, <1>3, <2>1 DEF DebtRow
  <2>3. d # None /\ d.paid = q
    BY <2>2, WhatBecomes
  <2> QED BY <2>1, <2>3
<1> QED BY <1>1, <1>4 DEF PaidInvariant

(* What is paid keeps explained, step by step.                             *)
LEMMA PaidStep == DebtInvariant /\ PaidInvariant /\ [Next]_vars => PaidInvariant'
<1> SUFFICES ASSUME DebtInvariant, PaidInvariant, [Next]_vars PROVE PaidInvariant'
  OBVIOUS
<1>1. ASSUME UNCHANGED <<debt, rows>> PROVE PaidInvariant'
  BY <1>1 DEF PaidInvariant
<1>2. CASE CreateDebt
  <2>1. rows' = <<>> /\ debt'.paid = 0
    BY <1>2 DEF CreateDebt, PaidInvariant
  <2>2. Standing(rows') = {} /\ DOMAIN rows' = {}
    BY <2>1 DEF Standing
  <2>3. Total(rows') = 0 /\ StandingSum(rows') = 0
    BY <2>2, SumEmpty DEF Total, StandingSum
  <2> QED BY <2>1, <2>2, <2>3 DEF PaidInvariant
<1>3. ASSUME NEW c \in Callers, Compose(c) \/ Read(c) \/ Refuse(c) \/ Conflict(c) PROVE PaidInvariant'
  BY <1>1, <1>3 DEF Compose, Read, Refuse, Conflict
<1>4. CASE NextDay \/ Quiescent \/ UNCHANGED vars
  BY <1>1, <1>4 DEF NextDay, Quiescent, vars
<1> QED BY <1>2, <1>3, <1>4, PaidMore, PaidLess, PaidAlike DEF Next

(* What is paid is what the payments and their reversals come to, and is   *)
(* never negative, whatever reversals raced (reversePayment).              *)
THEOREM PaidIsExplained == Spec => []PaymentsExplainPaid
<1>1. Init => PaidInvariant
  BY DEF Init, PaidInvariant, Standing
<1>2. DebtInvariant /\ PaidInvariant => PaymentsExplainPaid
  <2> SUFFICES ASSUME DebtInvariant, PaidInvariant, debt # None
               PROVE  debt.paid = Total(rows) /\ debt.paid >= 0
    BY DEF PaymentsExplainPaid
  <2>1. rows \in Seq(PaymentRow)
    BY DEF DebtInvariant, TypeOK
  <2>2. IsFiniteSet(Standing(rows)) /\ \A i \in Standing(rows) : AmountOf(rows)[i] \in Nat
    <3>1. IsFiniteSet(Standing(rows))
      BY <2>1, RowsAdd
    <3>2. ASSUME NEW i \in Standing(rows) PROVE AmountOf(rows)[i] \in Nat
      <4>1. AmountOf(rows)[i] = rows[i].amount /\ rows[i].amount \in Int
        BY <2>1, RowsAdd DEF Standing
      <4> QED BY <4>1 DEF PaidInvariant
    <3> QED BY <3>1, <3>2
  <2>3. StandingSum(rows) \in Nat
    BY <2>2, SumNat DEF StandingSum
  <2> QED BY <2>3 DEF PaidInvariant
<1> QED
  BY <1>1, <1>2, PaidStep, InvariantHolds, PTL DEF Spec
------------------------------------------------------------------------------
(* The day interest is counted from, and the periods since.                *)
From(d) == IF d.last = None THEN d.taken ELSE d.last
Periods(days) == days \div Period

(* What a charge in flight is worth, while the debt it read is current.    *)
Due(c) ==
  (req[c].pc = "read" /\ req[c].op = "interest" /\ req[c].snap.version = debt.version) =>
    /\ debt.policy = "one_time" => debt.last = None /\ req[c].due = Rate
    /\ debt.policy # "one_time" => req[c].due <= Rate * Periods(today - From(debt))

ChargeInvariant ==
  /\ \A c \in Callers : Due(c)
  /\ debt # None /\ debt.last = None => interest = 0
  /\ debt # None /\ debt.last # None => debt.taken <= debt.last
  /\ NoPeriodTwice

(* Whole periods: later days have as many or more, and the periods of two  *)
(* stretches are no more than those of both together.                      *)
LEMMA PeriodsAreMonotone ==
  ASSUME NEW a \in Nat, NEW b \in Nat, a <= b
  PROVE  Periods(a) \in Nat /\ Periods(b) \in Nat /\ Periods(a) <= Periods(b)
BY DebtAssumption DEF Periods

(* Two stretches of days have no more whole periods than the days          *)
(* together.                                                               *)
LEMMA PeriodsAddUp ==
  ASSUME NEW a \in Nat, NEW b \in Nat
  PROVE  Periods(a) + Periods(b) <= Periods(a + b)
BY DebtAssumption DEF Periods

(* A rate for more periods is at least the rate for fewer.                 *)
LEMMA RateTimes ==
  ASSUME NEW m \in Nat, NEW n \in Nat, m <= n
  PROVE  Rate * m \in Nat /\ Rate * n \in Nat /\ Rate * m <= Rate * n
BY DebtAssumption

(* The charge is worth the periods of the day it was read on.              *)
LEMMA ChargeRead ==
  ASSUME DebtInvariant, debt # None, InterestDue(debt) > 0
  PROVE  /\ debt.policy = "one_time" => debt.last = None /\ InterestDue(debt) = Rate
         /\ debt.policy # "one_time" => InterestDue(debt) = Rate * Periods(today - From(debt))
<1>1. CASE debt.policy = "one_time"
  <2>1. debt.last = None
    BY <1>1, DebtAssumption DEF InterestDue, PeriodsElapsed
  <2> QED BY <1>1, <2>1, DebtAssumption DEF InterestDue, PeriodsElapsed
<1>2. CASE debt.policy # "one_time"
  BY <1>2 DEF InterestDue, PeriodsElapsed, Periods, From
<1> QED BY <1>1, <1>2

(* The days that count are days.                                           *)
LEMMA DaysCount ==
  ASSUME DebtInvariant, ChargeInvariant, debt # None
  PROVE  /\ today \in Nat /\ debt.taken \in Nat /\ From(debt) \in Nat
         /\ today - From(debt) \in Nat /\ From(debt) - debt.taken \in Nat
<1>1. today \in Nat /\ debt \in DebtRow
  BY DebtAssumption, NoneIsNothing DEF DebtInvariant, TypeOK
<1>2. debt.taken \in Nat /\ (debt.last # None => debt.last \in Nat)
  BY <1>1 DEF DebtRow
<1>3. From(debt) \in Nat /\ From(debt) <= today /\ debt.taken <= From(debt)
  BY <1>1, <1>2 DEF DebtInvariant, Dated, From, ChargeInvariant
<1> QED BY <1>1, <1>2, <1>3

(* What was charged so far is worth the periods up to the day charged last.*)
LEMMA ChargedSoFar ==
  ASSUME DebtInvariant, ChargeInvariant, debt # None, debt.policy # "one_time"
  PROVE  interest <= Rate * Periods(From(debt) - debt.taken)
<1>1. CASE debt.last = None
  <2>1. From(debt) - debt.taken = 0 /\ interest = 0
    BY <1>1, DaysCount DEF From, ChargeInvariant
  <2>2. Periods(0) \in Nat
    BY PeriodsAreMonotone
  <2>3. Rate * Periods(0) \in Nat
    BY <2>2, RateTimes
  <2> QED BY <2>1, <2>3
<1>2. CASE debt.last # None
  BY <1>2 DEF ChargeInvariant, NoPeriodTwice, From, Periods
<1> QED BY <1>1, <1>2

(* A commit makes the other charges in flight stale.                       *)
LEMMA ChargesBecomeStale ==
  ASSUME DebtInvariant, NEW c \in Callers, Answer(c), debt # None,
         debt'.version = debt.version + 1
  PROVE  \A d \in Callers : Due(d)'
<1> SUFFICES ASSUME NEW d \in Callers PROVE Due(d)'
  OBVIOUS
<1>1. CASE d = c
  BY <1>1, IdleIsARequest DEF Answer, Due, DebtInvariant, TypeOK
<1>2. CASE d # c
  <2>1. req'[d] = req[d] /\ req[d] \in Request /\ debt \in DebtRow
    BY <1>2 DEF Answer, DebtInvariant, TypeOK
  <2>2. CASE req[d].pc = "read"
    <3>1. req[d].snap # None /\ req[d].snap.version <= debt.version
      BY <2>2 DEF DebtInvariant, Current
    <3>2. req[d].snap.version \in Nat /\ debt.version \in Nat
      BY <2>1, <3>1 DEF Request, DebtRow
    <3> QED BY <2>1, <3>1, <3>2 DEF Due
  <2> QED BY <2>1, <2>2 DEF Due
<1> QED BY <1>1, <1>2

(* Payments, reversals and status actions leave the charges alone.         *)
LEMMA ChargeKept ==
  ASSUME DebtInvariant, ChargeInvariant, NEW c \in Callers, debt # None,
         RecordPayment(c) \/ ReversePayment(c) \/ TransitionDebtStatus(c)
  PROVE  ChargeInvariant'
<1>1. /\ debt'.last = debt.last /\ debt'.taken = debt.taken /\ debt'.policy = debt.policy
      /\ debt'.version = debt.version + 1 /\ interest' = interest
      /\ Answer(c)
  <2>1. PICK status, remaining, paid : debt' = Becomes(status, remaining, paid, debt.last)
    BY DEF RecordPayment, ReversePayment, TransitionDebtStatus
  <2>2. Answer(c) /\ interest' = interest
    BY DEF RecordPayment, ReversePayment, TransitionDebtStatus
  <2> QED BY <2>1, <2>2 DEF Becomes
<1>2. \A d \in Callers : Due(d)'
  BY <1>1, ChargesBecomeStale
<1> QED BY <1>1, <1>2 DEF ChargeInvariant, NoPeriodTwice

(* A charge is worth what was due since the last one.                      *)
LEMMA ChargeApplied ==
  ASSUME DebtInvariant, ChargeInvariant, NEW c \in Callers, ApplyInterest(c)
  PROVE  ChargeInvariant'
<1> USE DebtAssumption, NoneIsNothing
<1> DEFINE due == req[c].due
           before == From(debt) - debt.taken
           since == today - From(debt)
<1>1. /\ req[c].pc = "read" /\ req[c].op = "interest" /\ SameVersion(c)
      /\ req[c].snap = debt /\ debt \in DebtRow /\ debt # None /\ req[c] \in Request
  BY SnapshotIsDebt DEF ApplyInterest
<1>2. /\ debt'.last = today /\ debt'.taken = debt.taken /\ debt'.policy = debt.policy
      /\ debt'.version = debt.version + 1 /\ interest' = interest + due
  BY DEF ApplyInterest, Becomes
<1>3. \A d \in Callers : Due(d)'
  BY <1>1, <1>2, ChargesBecomeStale DEF ApplyInterest
<1>4. /\ debt.policy = "one_time" => debt.last = None /\ due = Rate
      /\ debt.policy # "one_time" => due <= Rate * Periods(since)
  <2>1. Due(c) /\ req[c].snap.version = debt.version
    BY <1>1 DEF ChargeInvariant
  <2> QED BY <1>1, <2>1 DEF Due
<1>5. today \in Nat /\ debt.taken \in Nat /\ since \in Nat /\ before \in Nat /\ debt.taken <= today
  BY <1>1, DaysCount
<1>6. interest \in Nat /\ due \in Nat
  BY <1>1 DEF DebtInvariant, TypeOK, Request
<1>7. today # None
  BY <1>5
<1>8. CASE debt.policy = "one_time"
  <2>1. interest' = Rate
    BY <1>1, <1>2, <1>4, <1>6, <1>8 DEF ChargeInvariant
  <2> QED BY <1>2, <1>3, <1>5, <1>7, <1>8, <2>1 DEF ChargeInvariant, NoPeriodTwice
<1>9. CASE debt.policy # "one_time"
  <2>1. interest <= Rate * Periods(before)
    BY <1>1, <1>9, ChargedSoFar
  <2>2. /\ Periods(before) \in Nat /\ Periods(since) \in Nat /\ Periods(before + since) \in Nat
        /\ Periods(before) + Periods(since) <= Periods(before + since)
    <3> HIDE DEF before, since
    <3>1. \A n \in Nat : Periods(n) \in Nat
      BY PeriodsAreMonotone
    <3>2. before + since \in Nat
      BY <1>5
    <3> QED BY <1>5, <3>1, <3>2, PeriodsAddUp
  <2>3. before + since = today - debt.taken
    BY <1>1, DaysCount
  <2> HIDE DEF before, since, due
  <2>4. Rate * (Periods(before) + Periods(since)) <= Rate * Periods(before + since)
    BY <2>2, RateTimes
  <2>5. Rate * (Periods(before) + Periods(since)) = Rate * Periods(before) + Rate * Periods(since)
    BY <2>2
  <2>6. Rate * Periods(before) \in Nat /\ Rate * Periods(since) \in Nat /\ Rate * Periods(before + since) \in Nat
    BY <2>2, RateTimes
  <2>7. interest + due <= Rate * Periods(before + since)
    BY <1>4, <1>6, <1>9, <2>1, <2>4, <2>5, <2>6
  <2>8. interest' <= Rate * ((debt'.last - debt'.taken) \div Period)
    BY <1>2, <2>3, <2>7 DEF Periods
  <2> QED BY <1>2, <1>3, <1>5, <1>7, <1>9, <2>8 DEF ChargeInvariant, NoPeriodTwice
<1> QED BY <1>8, <1>9

(* Reading a charge, and the days that pass before it is committed.        *)
LEMMA ChargeWaits ==
  ASSUME DebtInvariant, ChargeInvariant, UNCHANGED <<debt, interest>>,
         \/ \E c \in Callers : Read(c)
         \/ NextDay
  PROVE  ChargeInvariant'
<1> USE DebtAssumption
<1>1. ASSUME NEW d \in Callers PROVE Due(d)'
  <2>1. CASE req'[d] = req[d]
    <3>1. CASE debt = None
      <4>1. req[d].pc = "idle"
        BY <3>1 DEF DebtInvariant, Sent
      <4> QED BY <2>1, <4>1 DEF Due
    <3>2. CASE debt # None
      <4>1. today' \in Nat /\ today <= today'
        BY <3>2, DaysCount DEF Read, NextDay
      <4>2. today - From(debt) \in Nat /\ today' - From(debt) \in Nat
            /\ today - From(debt) <= today' - From(debt)
        BY <3>2, <4>1, DaysCount
      <4>3. /\ Periods(today - From(debt)) \in Nat /\ Periods(today' - From(debt)) \in Nat
            /\ Periods(today - From(debt)) <= Periods(today' - From(debt))
        BY <4>2, PeriodsAreMonotone
      <4>4. /\ Rate * Periods(today - From(debt)) <= Rate * Periods(today' - From(debt))
            /\ Rate * Periods(today - From(debt)) \in Nat /\ Rate * Periods(today' - From(debt)) \in Nat
        BY <4>3, RateTimes
      <4>5. req[d].due \in Nat
        BY DEF DebtInvariant, TypeOK, Request
      <4>6. Due(d)
        BY DEF ChargeInvariant
      <4>7. From(debt)' = From(debt)
        BY DEF From
      <4> QED BY <2>1, <4>4, <4>5, <4>6, <4>7 DEF Due
    <3> QED BY <3>1, <3>2
  <2>2. CASE req'[d] # req[d]
    <3>1. Read(d)
      BY <2>2 DEF Read, NextDay, DebtInvariant, TypeOK
    <3>2. debt # None /\ req[d] \in Request
      BY <3>1 DEF Read, DebtInvariant, TypeOK, Sent
    <3>3. req'[d].op = "interest" => req'[d].due = InterestDue(debt) /\ InterestDue(debt) > 0
      BY <3>1 DEF Read, Admissible, DebtInvariant, TypeOK
    <3>4. debt' = debt /\ today' = today
      BY <3>1 DEF Read
    <3>5. \A n \in Nat : n <= n
      OBVIOUS
    <3>6. InterestDue(debt) \in Nat
      BY <3>2, ChargeIsNatural DEF DebtInvariant
    <3> QED BY <3>2, <3>3, <3>4, <3>5, <3>6, ChargeRead DEF Due, From
  <2> QED BY <2>1, <2>2
<1> QED BY <1>1 DEF ChargeInvariant, NoPeriodTwice

(* Every step keeps what was charged within the periods that have passed.  *)
LEMMA ChargeStep == DebtInvariant /\ ChargeInvariant /\ [Next]_vars => ChargeInvariant'
<1> SUFFICES ASSUME DebtInvariant, ChargeInvariant, [Next]_vars PROVE ChargeInvariant'
  OBVIOUS
<1> USE DebtAssumption, NoneIsNothing
<1>1. ASSUME CreateDebt PROVE ChargeInvariant'
  <2>1. \A c \in Callers : req'[c] = req[c] /\ req[c].pc = "idle"
    BY <1>1 DEF CreateDebt, DebtInvariant, Sent
  <2>2. debt'.last = None /\ interest' = 0
    BY <1>1 DEF CreateDebt, DebtInvariant, Dated
  <2> QED BY <2>1, <2>2 DEF ChargeInvariant, Due, NoPeriodTwice
<1>2. ASSUME UNCHANGED <<debt, interest, today>>,
             \A c \in Callers : req'[c] = req[c] \/ req'[c].pc # "read"
      PROVE  ChargeInvariant'
  <2>1. \A c \in Callers : Due(c)'
    BY <1>2 DEF ChargeInvariant, Due, From
  <2> QED BY <1>2, <2>1 DEF ChargeInvariant, NoPeriodTwice
<1>3. ASSUME NEW c \in Callers, Compose(c) \/ Refuse(c) \/ Conflict(c) PROVE ChargeInvariant'
  <2>1. UNCHANGED <<debt, interest, today>>
    BY <1>3 DEF Compose, Refuse, Conflict
  <2>2. \A d \in Callers : req'[d] = req[d] \/ req'[d].pc # "read"
    BY <1>3 DEF Compose, Refuse, Conflict, Answer, Idle, DebtInvariant, TypeOK
  <2> QED BY <1>2, <2>1, <2>2
<1>4. ASSUME NEW c \in Callers, RecordPayment(c) \/ ReversePayment(c) \/ TransitionDebtStatus(c)
      PROVE  ChargeInvariant'
  <2>1. debt # None
    BY <1>4 DEF RecordPayment, ReversePayment, TransitionDebtStatus, DebtInvariant, Sent
  <2> QED BY <1>4, <2>1, ChargeKept
<1>5. ASSUME NEW c \in Callers, Read(c) PROVE ChargeInvariant'
  BY <1>5, ChargeWaits DEF Read
<1>6. ASSUME NextDay PROVE ChargeInvariant'
  BY <1>6, ChargeWaits DEF NextDay
<1>7. CASE Quiescent \/ UNCHANGED vars
  BY <1>2, <1>7 DEF Quiescent, vars
<1> QED BY <1>1, <1>3, <1>4, <1>5, <1>6, <1>7, ChargeApplied DEF Next

(* applyInterest: the charge is worked out from last_interest_applied_at   *)
(* before the transaction, and the version guard of its commit is what     *)
(* keeps a second charge of the same days out, whoever asks and whenever   *)
(* the day turns.                                                          *)
THEOREM NoPeriodIsChargedTwice == Spec => []NoPeriodTwice
<1>1. Init => ChargeInvariant
  BY DEF Init, Idle, ChargeInvariant, Due, NoPeriodTwice
<1>2. DebtInvariant /\ ChargeInvariant /\ [Next]_vars => ChargeInvariant'
  BY ChargeStep
<1>3. ChargeInvariant => NoPeriodTwice
  BY DEF ChargeInvariant
<1> QED BY <1>1, <1>2, <1>3, InvariantHolds, PTL DEF Spec

------------------------------------------------------------------------------
(* The reminders sent beside the debt never disturb what was said of it,   *)
(* and a customer gets at most one message a day. The latter rests on a    *)
(* claimed slot: while a call holds the slot of a day no other call does,  *)
(* its row is pending, and the provider took a message for that day only   *)
(* if this call sent it.                                                   *)
CallState == [pc : {"away", "called", "looked", "claimed", "sent", "failed"},
         day : Days, seen : Reminder \cup {None}]

ReminderTypes ==
  /\ reminder \in [Days -> Reminder \cup {None}]
  /\ accepted \in [Days -> Nat]
  /\ sender \in [Senders -> CallState]

Holds(s) == sender[s].pc \in {"claimed", "sent", "failed"}

(* What a call knows of the row of its day.                                *)
Known(s) ==
  /\ Holds(s) =>
       /\ reminder[sender[s].day] # None
       /\ reminder[sender[s].day].status = "pending"
       /\ accepted[sender[s].day] = IF sender[s].pc = "sent" THEN 1 ELSE 0
  /\ sender[s].pc = "looked" /\ sender[s].seen # None => reminder[sender[s].day] # None

OneHolder ==
  \A s, t \in Senders : s # t /\ Holds(s) /\ Holds(t) => sender[s].day # sender[t].day

(* What the row of a day says of the messages of that day.                 *)
Slot(d) ==
  /\ reminder[d] = None \/ reminder[d].status = "failed" => accepted[d] = 0
  /\ reminder[d] # None /\ reminder[d].status = "sent" => accepted[d] = 1
  /\ accepted[d] <= 1

ReminderInvariant ==
  /\ ReminderTypes
  /\ OneHolder
  /\ \A s \in Senders : Known(s)
  /\ \A d \in Days : Slot(d)

------------------------------------------------------------------------------
(* Whatever is sent, the debt takes a step of its own or none.             *)
LEMMA StepsOfTheDebt == [ReminderNext]_allVars => [Next]_vars
<1>1. ASSUME NEW s \in Senders, Tick(s) \/ Remind(s) PROVE vars' = vars
  BY <1>1, Zenon DEF Tick, Remind, Call
<1>2. ASSUME NEW s \in Senders, Look(s) PROVE vars' = vars
  BY <1>2, Zenon DEF Look
<1>3. ASSUME NEW s \in Senders, ClaimSlot(s) \/ SlotTaken(s) PROVE vars' = vars
  BY <1>3, Zenon DEF ClaimSlot, SlotTaken
<1>4. ASSUME NEW s \in Senders, Send(s) PROVE vars' = vars
  BY <1>4, Zenon DEF Send
<1>5. ASSUME NEW s \in Senders, Complete(s) \/ Crash(s) PROVE vars' = vars
  BY <1>5, Zenon DEF Complete, Crash
<1>6. ASSUME NEW d \in Days, HourPasses(d) PROVE vars' = vars
  BY <1>6, Zenon DEF HourPasses
<1>7. ReminderStep => vars' = vars
  BY <1>1, <1>2, <1>3, <1>4, <1>5, <1>6, Zenon DEF ReminderStep
<1>8. Rest \/ allVars' = allVars => vars' = vars
  BY Zenon DEF Rest, allVars
<1> QED BY <1>7, <1>8, Zenon DEF ReminderNext

(* All that is proved of the debt alone holds beside its reminders.        *)
THEOREM RemindersLeaveTheDebt == ReminderSpec => Spec
<1>1. ReminderInit => Init
  BY DEF ReminderInit
<1> QED BY <1>1, StepsOfTheDebt, PTL DEF ReminderSpec, Spec

(* No message, click or tick costs an update of the balance, a reversal or *)
(* a period of interest (debt.service.ts:524-526).                         *)
THEOREM DebtIsSoundBesideReminders ==
  ReminderSpec => [](MoneyConserved /\ ReversedOnce /\ NoPeriodTwice) /\ DisputeHeld
BY RemindersLeaveTheDebt, MoneyIsConserved, PaymentsReversedOnce, NoPeriodIsChargedTwice,
   DisputesAreHeld, PTL

------------------------------------------------------------------------------
(* The invariant holds before anything was sent.                           *)
LEMMA RemindersInit == ReminderInit => ReminderInvariant
<1> SUFFICES ASSUME ReminderInit PROVE ReminderInvariant
  OBVIOUS
<1>1. 0 \in Days
  BY DebtAssumption DEF Days
<1>2. ReminderTypes
  BY <1>1 DEF ReminderInit, ReminderTypes, CallState, Away
<1> QED BY <1>1, <1>2
        DEF ReminderInit, ReminderInvariant, OneHolder, Known, Slot, Holds, Away

(* Neither the debt nor a call that only looks moves a slot.               *)
LEMMA RemindersQuiet ==
  ASSUME ReminderInvariant, reminder' = reminder, accepted' = accepted, sender' \in [Senders -> CallState],
         \A s \in Senders : sender'[s] = sender[s]
                          \/ sender'[s].pc \in {"away", "called"}
                          \/ /\ sender'[s].pc = "looked"
                             /\ sender'[s].seen = reminder[sender'[s].day]
  PROVE  ReminderInvariant'
<1>1. ReminderTypes'
  BY DEF ReminderInvariant, ReminderTypes
<1>2. OneHolder'
  BY DEF ReminderInvariant, OneHolder, Holds
<1>3. \A s \in Senders : Known(s)'
  BY DEF ReminderInvariant, Known, Holds
<1>4. \A d \in Days : Slot(d)'
  BY DEF ReminderInvariant, Slot
<1> QED BY <1>1, <1>2, <1>3, <1>4 DEF ReminderInvariant

(* Steps that call the provider, lose the slot or die write no claim.      *)
LEMMA RemindersCall ==
  ASSUME ReminderInvariant, NEW s \in Senders, Tick(s) \/ Remind(s) \/ SlotTaken(s) \/ Crash(s)
  PROVE  ReminderInvariant'
<1>1. Away \in CallState /\ Away.pc = "away"
  BY DebtAssumption DEF Away, CallState, Days
<1>2. reminder' = reminder /\ accepted' = accepted
  BY DEF Tick, Remind, Call, SlotTaken, Crash
<1>3. sender \in [Senders -> CallState]
  BY DEF ReminderInvariant, ReminderTypes
<1>4. sender' = [sender EXCEPT ![s] = Away] \/ sender' = [sender EXCEPT ![s].pc = "called"]
  BY DEF Tick, Remind, Call, SlotTaken, Crash
<1>5. sender' \in [Senders -> CallState]
  BY <1>1, <1>3, <1>4 DEF CallState
<1>6. \A t \in Senders : sender'[t] = sender[t] \/ sender'[t].pc \in {"away", "called"}
  BY <1>1, <1>3, <1>4 DEF CallState
<1> QED BY <1>2, <1>5, <1>6, RemindersQuiet

(* A sender looks for what is due today.                                   *)
LEMMA RemindersLook ==
  ASSUME ReminderInvariant, today \in Days, NEW s \in Senders, Look(s)
  PROVE  ReminderInvariant'
<1> DEFINE looked == [pc |-> "looked", day |-> today, seen |-> reminder[today]]
<1>1. sender \in [Senders -> CallState] /\ looked \in CallState
  BY DEF ReminderInvariant, ReminderTypes, CallState
<1>2. sender' = [sender EXCEPT ![s] = looked] /\ reminder' = reminder /\ accepted' = accepted
  BY DEF Look
<1>3. /\ sender' \in [Senders -> CallState]
      /\ \A t \in Senders : \/ sender'[t] = sender[t]
                             \/ /\ sender'[t].pc = "looked"
                                /\ sender'[t].seen = reminder[sender'[t].day]
  BY <1>1, <1>2
<1> QED BY <1>2, <1>3, RemindersQuiet

(* The hour before a failed reminder may be tried again passes.            *)
LEMMA RemindersHour ==
  ASSUME ReminderInvariant, NEW d \in Days, HourPasses(d)
  PROVE  ReminderInvariant'
<1>1. /\ reminder \in [Days -> Reminder \cup {None}] /\ reminder[d] # None
      /\ reminder' = [reminder EXCEPT ![d] = [reminder[d] EXCEPT !.waits = FALSE]]
      /\ accepted' = accepted /\ sender' = sender
  BY DEF HourPasses, ReminderInvariant, ReminderTypes
<1>2. /\ reminder[d] \in Reminder /\ reminder'[d] \in Reminder
      /\ reminder'[d].status = reminder[d].status
  BY <1>1 DEF Reminder
<1>3. \A e \in Days : e # d => reminder'[e] = reminder[e]
  BY <1>1
<1>4. ReminderTypes'
  BY <1>1, <1>2 DEF ReminderInvariant, ReminderTypes
<1>5. OneHolder'
  BY <1>1 DEF ReminderInvariant, OneHolder, Holds
<1>6. \A s \in Senders : Known(s)'
  <2> SUFFICES ASSUME NEW s \in Senders PROVE Known(s)'
    OBVIOUS
  <2>1. sender[s].day \in Days /\ Known(s)
    BY DEF ReminderInvariant, ReminderTypes, CallState
  <2> QED BY <1>1, <1>2, <1>3, <2>1, NoneIsNoReminder DEF Known, Holds
<1>7. \A e \in Days : Slot(e)'
  BY <1>1, <1>2, <1>3, NoneIsNoReminder DEF ReminderInvariant, Slot
<1> QED BY <1>4, <1>5, <1>6, <1>7 DEF ReminderInvariant

(* A slot that is free to claim has no holder and no message.              *)
LEMMA RemindersClaim ==
  ASSUME ReminderInvariant, NEW s \in Senders, ClaimSlot(s)
  PROVE  ReminderInvariant'
<1> DEFINE day == sender[s].day
           pending == [status |-> "pending", waits |-> FALSE]
<1>1. /\ reminder \in [Days -> Reminder \cup {None}] /\ accepted \in [Days -> Nat]
      /\ sender \in [Senders -> CallState] /\ day \in Days
  BY DEF ReminderInvariant, ReminderTypes, CallState
<1>2. /\ sender[s].pc = "looked" /\ accepted' = accepted
      /\ reminder' = [reminder EXCEPT ![day] = pending]
      /\ sender' = [sender EXCEPT ![s].pc = "claimed"]
  BY DEF ClaimSlot
<1>3. pending \in Reminder /\ pending # None /\ pending.status = "pending"
  <2>1. pending \in Reminder
    BY Zenon DEF Reminder
  <2>2. pending.status = "pending"
    BY Zenon
  <2> QED BY <2>1, <2>2, NoneIsNoReminder
<1>4. reminder[day] = None \/ reminder[day].status = "failed"
  BY DEF ClaimSlot, StillFree
<1>5. accepted[day] = 0
  BY <1>1, <1>4 DEF ReminderInvariant, Slot
<1>6. \A t \in Senders : Holds(t) => sender[t].day # day
  BY <1>4 DEF ReminderInvariant, Known
<1>7. /\ sender'[s].pc = "claimed" /\ sender'[s].day = day
      /\ \A t \in Senders : t # s => sender'[t] = sender[t]
      /\ sender' \in [Senders -> CallState]
  BY <1>1, <1>2 DEF CallState
<1>8. ReminderTypes'
  BY <1>1, <1>2, <1>3, <1>7 DEF ReminderTypes
<1> HIDE DEF day, pending
<1>9. OneHolder'
  BY <1>6, <1>7 DEF ReminderInvariant, OneHolder, Holds
<1>10. \A t \in Senders : Known(t)'
  <2> SUFFICES ASSUME NEW t \in Senders PROVE Known(t)'
    OBVIOUS
  <2>1. t # s => sender[t].day \in Days /\ Known(t)
    BY <1>1 DEF ReminderInvariant, CallState
  <2> QED BY <1>1, <1>2, <1>3, <1>5, <1>6, <1>7, <2>1 DEF Known, Holds
<1>11. \A d \in Days : Slot(d)'
  BY <1>1, <1>2, <1>3, <1>5 DEF ReminderInvariant, Slot
<1> QED BY <1>8, <1>9, <1>10, <1>11 DEF ReminderInvariant

(* The holder of a slot sends once, and only while nothing was sent.       *)
LEMMA RemindersSend ==
  ASSUME ReminderInvariant, NEW s \in Senders, Send(s)
  PROVE  ReminderInvariant'
<1> DEFINE day == sender[s].day
<1>1. /\ accepted \in [Days -> Nat] /\ sender \in [Senders -> CallState] /\ day \in Days
  BY DEF ReminderInvariant, ReminderTypes, CallState
<1>2. /\ sender[s].pc = "claimed" /\ reminder' = reminder
      /\ \/ /\ sender' = [sender EXCEPT ![s].pc = "sent"]
            /\ accepted' = [accepted EXCEPT ![day] = @ + 1]
         \/ sender' = [sender EXCEPT ![s].pc = "failed"] /\ accepted' = accepted
  BY DEF Send
<1>3. /\ reminder[day] # None /\ reminder[day].status = "pending" /\ accepted[day] = 0
      /\ \A t \in Senders : t # s /\ Holds(t) => sender[t].day # day
  BY <1>2 DEF ReminderInvariant, Known, Holds, OneHolder
<1>4. /\ sender'[s].day = day /\ sender' \in [Senders -> CallState]
      /\ \A t \in Senders : t # s => sender'[t] = sender[t]
      /\ sender'[s].pc \in {"sent", "failed"}
      /\ accepted' \in [Days -> Nat]
      /\ accepted'[day] = IF sender'[s].pc = "sent" THEN 1 ELSE 0
      /\ \A d \in Days : d # day => accepted'[d] = accepted[d]
  <2>1. ASSUME sender' = [sender EXCEPT ![s].pc = "sent"], accepted' = [accepted EXCEPT ![day] = @ + 1]
        PROVE  <1>4!:
    BY <1>1, <1>3, <2>1 DEF CallState
  <2>2. ASSUME sender' = [sender EXCEPT ![s].pc = "failed"], accepted' = accepted
        PROVE  <1>4!:
    BY <1>1, <1>3, <2>2 DEF CallState
  <2> QED BY <1>2, <2>1, <2>2
<1>5. ReminderTypes'
  BY <1>2, <1>4 DEF ReminderInvariant, ReminderTypes
<1> HIDE DEF day
<1>6. OneHolder'
  BY <1>2, <1>3, <1>4 DEF ReminderInvariant, OneHolder, Holds
<1>7. \A t \in Senders : Known(t)'
  <2> SUFFICES ASSUME NEW t \in Senders PROVE Known(t)'
    OBVIOUS
  <2>1. t # s => sender[t].day \in Days /\ Known(t)
    BY <1>1 DEF ReminderInvariant, CallState
  <2> QED BY <1>2, <1>3, <1>4, <2>1 DEF Known, Holds
<1>8. \A d \in Days : Slot(d)'
  BY <1>1, <1>2, <1>3, <1>4 DEF ReminderInvariant, Slot
<1> QED BY <1>5, <1>6, <1>7, <1>8 DEF ReminderInvariant

(* A reminder is completed.                                                *)
LEMMA RemindersComplete ==
  ASSUME ReminderInvariant, NEW s \in Senders, Complete(s)
  PROVE  ReminderInvariant'
<1> DEFINE day == sender[s].day
           row == [status |-> sender[s].pc, waits |-> (sender[s].pc = "failed")]
<1>1. /\ reminder \in [Days -> Reminder \cup {None}] /\ accepted \in [Days -> Nat]
      /\ sender \in [Senders -> CallState] /\ day \in Days
  BY DEF ReminderInvariant, ReminderTypes, CallState
<1>2. /\ sender[s].pc \in {"sent", "failed"} /\ accepted' = accepted
      /\ reminder' = [reminder EXCEPT ![day] = row]
      /\ sender' = [sender EXCEPT ![s] = Away]
  BY DEF Complete
<1>3. row \in Reminder /\ row # None /\ row.status = sender[s].pc
  <2>1. row \in Reminder
    BY <1>2, Zenon DEF Reminder
  <2>2. row.status = sender[s].pc
    BY Zenon
  <2> QED BY <2>1, <2>2, NoneIsNoReminder
<1>4. /\ accepted[day] = IF sender[s].pc = "sent" THEN 1 ELSE 0
      /\ \A t \in Senders : t # s /\ Holds(t) => sender[t].day # day
  BY <1>2 DEF ReminderInvariant, Known, Holds, OneHolder
<1> HIDE DEF day, row
<1>5. Away \in CallState /\ Away.pc = "away"
  BY DebtAssumption DEF Away, CallState, Days
<1>6. /\ sender'[s] = Away /\ sender' \in [Senders -> CallState]
      /\ \A t \in Senders : t # s => sender'[t] = sender[t]
  BY <1>1, <1>2, <1>5
<1>7. ReminderTypes'
  BY <1>1, <1>2, <1>3, <1>6 DEF ReminderTypes
<1>8. OneHolder'
  BY <1>5, <1>6 DEF ReminderInvariant, OneHolder, Holds
<1>9. \A t \in Senders : Known(t)'
  <2> SUFFICES ASSUME NEW t \in Senders PROVE Known(t)'
    OBVIOUS
  <2>1. t # s => sender[t].day \in Days /\ Known(t)
    BY <1>1 DEF ReminderInvariant, CallState
  <2> QED BY <1>1, <1>2, <1>3, <1>4, <1>5, <1>6, <2>1 DEF Known, Holds
<1>10. \A d \in Days : Slot(d)'
  BY <1>1, <1>2, <1>3, <1>4 DEF ReminderInvariant, Slot
<1> QED BY <1>7, <1>8, <1>9, <1>10 DEF ReminderInvariant

(* Every step keeps the invariant.                                         *)
LEMMA RemindersStep ==
  TypeOK /\ ReminderInvariant /\ [ReminderNext]_allVars => ReminderInvariant'
<1> SUFFICES ASSUME TypeOK, ReminderInvariant, [ReminderNext]_allVars PROVE ReminderInvariant'
  OBVIOUS
<1>1. today \in Days
  BY DEF TypeOK, Days
<1>2. ASSUME reminderVars' = reminderVars PROVE ReminderInvariant'
  <2>1. reminder' = reminder /\ accepted' = accepted /\ sender' = sender
    BY <1>2 DEF reminderVars
  <2>2. sender \in [Senders -> CallState]
    BY DEF ReminderInvariant, ReminderTypes
  <2> QED BY <2>1, <2>2, RemindersQuiet
<1>3. ASSUME ReminderStep PROVE ReminderInvariant'
  BY <1>1, <1>3, RemindersCall, RemindersLook, RemindersHour, RemindersClaim, RemindersSend,
     RemindersComplete DEF ReminderStep
<1> QED BY <1>2, <1>3 DEF ReminderNext, Rest, allVars

(* A slot of a day has one holder at a time, and the provider takes its    *)
(* reminder at most once.                                                  *)
THEOREM ReminderInvariantHolds == ReminderSpec => []ReminderInvariant
BY RemindersInit, RemindersStep, RemindersLeaveTheDebt, TypeInvariant, PTL DEF ReminderSpec

(* Two ticks, a tick and a click, a retry raced by a retry, a call that    *)
(* dies: the customer gets one message a day at most, and a row says sent  *)
(* only when a message was taken (debt.service.ts:890-903).                *)
THEOREM OneMessageADayHolds == ReminderSpec => []OneMessageADay
<1>1. ReminderInvariant => OneMessageADay
  BY DEF ReminderInvariant, ReminderTypes, Slot, OneMessageADay
<1> QED BY <1>1, ReminderInvariantHolds, PTL
==============================================================================
