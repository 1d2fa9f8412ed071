-------------------------------- MODULE Debt ---------------------------------
(***************************************************************************)
(* One customer debt of src/services/debt.service.ts, the debt_payments    *)
(* and interest rows under it and the customer's cached debt_balance.      *)
(* Debts of a customer share only that balance, which moves by increments, *)
(* so one debt is enough. A request is composed by a client that knows the *)
(* version it was last shown, then read and checked outside a transaction, *)
(* then committed in one transaction guarded by a version. Interest is the *)
(* flat charge per period; a percentage changes the amount and nothing     *)
(* else. Idempotency keys are in Idempotency.tla and not repeated here.    *)
(***************************************************************************)
EXTENDS Sequences, Sums

CONSTANTS
  Callers,     \* requests in flight at once
  Operations,  \* the operations clients ask for
  Amounts,     \* amounts of debts and payments
  Rate,        \* interest_value, 0 when interest is not enabled
  Policies,    \* calculation_policy of a new debt: "one_time" or "periodic"
  Period,      \* days in a period: 1 for daily, 7 for weekly in the code
  MaxVersion,  \* bound: no request is composed past this version
  MaxDay,      \* bound on the calendar
  None         \* no debt, no snapshot, not a reversal

AllOperations == {"pay", "reverse", "dispute", "resolve", "write_off", "interest"}

ASSUME DebtAssumption ==
  /\ Operations \subseteq AllOperations
  /\ Amounts \subseteq Nat \ {0}
  /\ Rate \in Nat
  /\ Policies \subseteq {"one_time", "periodic"}
  /\ Period \in Nat \ {0}
  /\ MaxVersion \in Nat
  /\ MaxDay \in Nat

Statuses == {"open", "partially_paid", "paid", "disputed", "written_off"}

DebtRow == [status : Statuses, original : Amounts, remaining : Nat, paid : Int,
            version : Nat, policy : Policies, taken : Nat, last : Nat \cup {None}]

PaymentRow == [amount : Int, version : Nat, of : Nat \cup {None}]

Request == [pc : {"idle", "sent", "read"}, op : AllOperations \cup {None}, n : Nat,
            shown : Nat, snap : DebtRow \cup {None}, due : Nat]

ASSUME NoneIsNothing == None \notin Nat /\ None \notin DebtRow

VARIABLES
  debt,      \* the debts row, None before it is created
  rows,      \* its debt_payments, reversals included, in order of creation
  balance,   \* customers.debt_balance
  interest,  \* sum of the interest_applied debt_transactions
  today,     \* the business day
  req        \* req[c]: the request caller c has in flight

vars == <<debt, rows, balance, interest, today, req>>

Idle == [pc |-> "idle", op |-> None, n |-> 0, shown |-> 0, snap |-> None, due |-> 0]

Total(s) == Sum([i \in DOMAIN s |-> s[i].amount], DOMAIN s)

------------------------------------------------------------------------------
(* Bugs: a payment lifts the dispute; a debt once partially paid stays so. *)
RecomputeLifting(status, remaining, original) ==
  CASE remaining <= 0        -> "paid"
    [] remaining \in 1..(original - 1) -> "partially_paid"
    [] remaining >= original -> "open"

RecomputeSticky(status, remaining, original) ==
  IF status \in {"disputed", "partially_paid"} /\ remaining > 0
    THEN status
    ELSE RecomputeLifting(status, remaining, original)

(* recomputeStatus: a dispute is held, the rest follows from the amounts.  *)
RecomputeStatus(status, remaining, original) ==
  IF status = "disputed" THEN "disputed"
  ELSE IF remaining <= 0 THEN "paid"
  ELSE IF remaining < original THEN "partially_paid"
  ELSE "open"

(* Bug: always counted from the day the debt was taken.                    *)
PeriodsSinceTaken(d) == (today - d.taken) \div Period

(* getPeriodsElapsed: since the last interest, or since the debt was taken.*)
PeriodsElapsed(d) ==
  IF d.policy = "one_time"
    THEN IF d.last = None THEN 1 ELSE 0
    ELSE (today - (IF d.last = None THEN d.taken ELSE d.last)) \div Period

(* calculateInterest, type "fixed".                                        *)
InterestDue(d) == Rate * PeriodsElapsed(d)

Closed(d) == d.status \in {"paid", "written_off"}

(* Bug: only a positive amount is asked for.                               *)
FitsAnything(amount, d) == amount > 0

Fits(amount, d) == amount <= d.remaining

(* What each operation checks on the rows it read before its transaction.  *)
Admissible(op, n, d) ==
  /\ op \in {"pay", "dispute", "write_off", "interest"} => ~Closed(d)
  /\ op = "pay"      => Fits(n, d)
  /\ op = "reverse"  => rows[n].of = None /\ rows[n].amount > 0
  /\ op = "dispute"  => d.status # "disputed"
  /\ op = "resolve"  => d.status = "disputed"
  /\ op = "interest" => InterestDue(d) > 0

------------------------------------------------------------------------------
Init ==
  /\ debt = None
  /\ rows = <<>>
  /\ balance = 0
  /\ interest = 0
  /\ today = 0
  /\ req = [c \in Callers |-> Idle]

(* createDebt: its transaction writes the row and the cached balance.      *)
CreateDebt ==
  /\ debt = None
  /\ \E a \in Amounts, policy \in Policies :
       /\ debt' = [status |-> "open", original |-> a, remaining |-> a, paid |-> 0,
                   version |-> 0, policy |-> policy, taken |-> today, last |-> None]
       /\ balance' = balance + a
  /\ UNCHANGED <<rows, interest, today, req>>

(* What n stands for: the amount paid, or the payment row to reverse.      *)
Arguments(op) ==
  IF op = "pay" THEN Amounts ELSE IF op = "reverse" THEN DOMAIN rows ELSE {0}

(* The client composes a request from the version it is shown.             *)
Compose(c) ==
  /\ debt # None
  /\ req[c] = Idle
  /\ debt.version < MaxVersion
  /\ \E op \in Operations : \E n \in Arguments(op) :
       req' = [req EXCEPT ![c] =
                 [pc |-> "sent", op |-> op, n |-> n, shown |-> debt.version,
                  snap |-> None, due |-> 0]]
  /\ UNCHANGED <<debt, rows, balance, interest, today>>

(* The handler reads the debt and the payment, with no lock.               *)
Read(c) ==
  /\ req[c].pc = "sent"
  /\ Admissible(req[c].op, req[c].n, debt)
  /\ req' = [req EXCEPT ![c] =
               [pc |-> "read", op |-> @.op, n |-> @.n, shown |-> @.shown, snap |-> debt,
                due |-> IF @.op = "interest" THEN InterestDue(debt) ELSE 0]]
  /\ UNCHANGED <<debt, rows, balance, interest, today>>

Refuse(c) ==
  /\ req[c].pc = "sent"
  /\ ~Admissible(req[c].op, req[c].n, debt)
  /\ req' = [req EXCEPT ![c] = Idle]
  /\ UNCHANGED <<debt, rows, balance, interest, today>>

------------------------------------------------------------------------------
(* The transactions. Each changes the debt only if the version is the one  *)
(* it read; interest compares the version the client sent instead.         *)

(* Bug: the guard of the UPDATE forgotten.                                 *)
SameVersionUnchecked(c) == debt.version >= 0

SameVersion(c) ==
  IF req[c].op = "interest"
    THEN debt.version = req[c].shown
    ELSE debt.version = req[c].snap.version

(* Bug: a payment reversed by its id alone.                                *)
ClaimableById(c) == req[c].op = "reverse" => req[c].n \in DOMAIN rows

(* The claim on the payment row. A client knows the version 0 it was given *)
(* when the payment was made: no endpoint shows a later one.               *)
Claimable(c) == req[c].op = "reverse" => rows[req[c].n].version = 0

Answer(c) == req' = [req EXCEPT ![c] = Idle]

(* The debts row an UPDATE leaves.                                         *)
Becomes(status, remaining, paid, last) ==
  [status |-> status, original |-> debt.original, remaining |-> remaining, paid |-> paid,
   version |-> debt.version + 1, policy |-> debt.policy, taken |-> debt.taken, last |-> last]

(* The status that goes with a new remaining amount, from the snapshot.    *)
StatusAfter(c, remaining) ==
  RecomputeStatus(req[c].snap.status, remaining, req[c].snap.original)

RecordPayment(c) ==
  LET snap == req[c].snap
      amount == req[c].n
      remaining == snap.remaining - amount
  IN  /\ req[c].pc = "read"
      /\ req[c].op = "pay"
      /\ SameVersion(c)
      /\ debt' = Becomes(StatusAfter(c, remaining), remaining, snap.paid + amount, debt.last)
      /\ rows' = Append(rows, [amount |-> amount, version |-> 0, of |-> None])
      /\ balance' = balance - amount
      /\ Answer(c)
      /\ UNCHANGED <<interest, today>>

ReversePayment(c) ==
  LET snap == req[c].snap
      p == req[c].n
      amount == rows[p].amount
      remaining == snap.remaining + amount
  IN  /\ req[c].pc = "read"
      /\ req[c].op = "reverse"
      /\ Claimable(c)
      /\ SameVersion(c)
      /\ debt' = Becomes(StatusAfter(c, remaining), remaining, snap.paid - amount, debt.last)
      /\ rows' = Append([rows EXCEPT ![p] = [amount |-> @.amount, version |-> @.version + 1, of |-> @.of]],
                        [amount |-> -amount, version |-> 0, of |-> p])
      /\ balance' = balance + amount
      /\ Answer(c)
      /\ UNCHANGED <<interest, today>>

(* transitionDebtStatus, for a dispute, its resolution and a write-off.    *)
TransitionDebtStatus(c) ==
  LET snap == req[c].snap
      target == IF req[c].op = "dispute" THEN "disputed"
                ELSE IF req[c].op = "write_off" THEN "written_off"
                ELSE RecomputeStatus("open", snap.remaining, snap.original)
  IN  /\ req[c].pc = "read"
      /\ req[c].op \in {"dispute", "resolve", "write_off"}
      /\ SameVersion(c)
      /\ debt' = Becomes(target, debt.remaining, debt.paid, debt.last)
      /\ balance' = IF target = "written_off" THEN balance - snap.remaining ELSE balance
      /\ Answer(c)
      /\ UNCHANGED <<rows, interest, today>>

(* last_interest_applied_at is the clock at the commit, the charge is that *)
(* of the day of the read; amount_paid is not written.                     *)
ApplyInterest(c) ==
  LET due == req[c].due
      remaining == req[c].snap.remaining + due
  IN  /\ req[c].pc = "read"
      /\ req[c].op = "interest"
      /\ SameVersion(c)
      /\ debt' = Becomes(StatusAfter(c, remaining), remaining, debt.paid, today)
      /\ interest' = interest + due
      /\ Answer(c)
      /\ UNCHANGED <<rows, balance, today>>

(* An UPDATE that finds no row: the transaction is rolled back.            *)
Conflict(c) ==
  /\ req[c].pc = "read"
  /\ ~(Claimable(c) /\ SameVersion(c))
  /\ Answer(c)
  /\ UNCHANGED <<debt, rows, balance, interest, today>>

NextDay ==
  /\ today < MaxDay
  /\ today' = today + 1
  /\ UNCHANGED <<debt, rows, balance, interest, req>>

(* The bounds are reached and nothing is in flight.                        *)
Quiescent ==
  /\ debt # None /\ debt.version >= MaxVersion
  /\ today = MaxDay
  /\ \A c \in Callers : req[c] = Idle
  /\ UNCHANGED vars

Next ==
  \/ CreateDebt
  \/ NextDay
  \/ Quiescent
  \/ \E c \in Callers :
       \/ Compose(c) \/ Read(c) \/ Refuse(c) \/ Conflict(c)
       \/ RecordPayment(c) \/ ReversePayment(c)
       \/ TransitionDebtStatus(c) \/ ApplyInterest(c)

Spec == Init /\ [][Next]_vars

------------------------------------------------------------------------------
(* The types of the columns, with chk_debts_amount_nonneg: no interleaving *)
(* of payments, reversals and charges drives amount_remaining below zero.  *)
TypeOK ==
  /\ debt \in DebtRow \cup {None}
  /\ rows \in Seq(PaymentRow)
  /\ balance \in Int
  /\ interest \in Nat
  /\ today \in 0..MaxDay
  /\ req \in [Callers -> Request]

(* No update is lost: whatever payments, reversals and charges raced, what *)
(* is paid and what remains add up to what was lent and what was charged.  *)
(* recordPayment promises it at debt.service.ts:524-526.                   *)
MoneyConserved ==
  debt # None => debt.paid + debt.remaining = debt.original + interest

(* amount_paid is the sum of the payment rows and their reversals, and is  *)
(* never driven below zero by them.                                        *)
PaymentsExplainPaid ==
  debt # None => debt.paid = Total(rows) /\ debt.paid >= 0

(* reversePayment: a payment has at most one reversal, and a reversal has  *)
(* none, however many reversals of it were in flight together.             *)
ReversedOnce ==
  \A i, j \in DOMAIN rows :
    /\ i # j => rows[i].of = None \/ rows[i].of # rows[j].of
    /\ rows[i].of = j => rows[j].of = None /\ rows[j].amount = -rows[i].amount

(* recomputeStatus: outside a dispute and a write-off the status says what *)
(* the amounts say, also after a resolution and after interest.            *)
StatusExplained ==
  debt # None /\ debt.status \notin {"disputed", "written_off"} =>
    /\ debt.status = "paid" <=> debt.remaining = 0
    /\ debt.status = "partially_paid" <=> debt.remaining \in 1..(debt.original - 1)
    /\ debt.status = "open" <=> debt.remaining >= debt.original

(* applyInterest: no period is charged twice, whoever asks and whenever,   *)
(* and a one-time charge is made once. (A period may be lost: the day can  *)
(* turn between the read and the commit, and a started week is dropped.)   *)
NoPeriodTwice ==
  debt # None /\ debt.last # None =>
    IF debt.policy = "one_time"
      THEN interest = Rate
      ELSE interest <= Rate * ((debt.last - debt.taken) \div Period)

(* "a routine payment/reversal doesn't silently clear disputed": when a    *)
(* dispute ends, no amount moves.                                          *)
DisputeHeld ==
  [][(debt # None /\ debt.status = "disputed" /\ debt'.status # "disputed")
       => debt'.remaining = debt.remaining /\ debt'.paid = debt.paid]_vars

(* customers.debt_balance is "kept in sync" with the debts                 *)
(* (debt.service.ts:147-149): it is what remains of those not written off. *)
BalanceInSync ==
  balance = IF debt = None \/ debt.status = "written_off" THEN 0 ELSE debt.remaining

(* A status action carries "the same optimistic-lock version" as a sale's  *)
(* void and refund (validation/debt.schema.ts:64-66): it changes only the  *)
(* debt its client saw.                                                    *)
StaleActionRefused ==
  [][\A c \in Callers :
       (TransitionDebtStatus(c)) => req[c].shown = debt.version]_vars
==============================================================================
