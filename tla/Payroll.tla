------------------------------- MODULE Payroll -------------------------------
(***************************************************************************)
(* What employees are paid: their compensation structures                  *)
(* (employeeCompensation.service.ts), the hours they worked                *)
(* (attendance.service.ts), the sale their commission comes from           *)
(* (commission.service.ts, setSaleAttribution of sale.service.ts), the     *)
(* monthly payroll records, their payment and the two ledgers that correct *)
(* them (payroll.service.ts). A request makes its checks when it is        *)
(* composed and does its work later, in one step when a lock, a version or *)
(* a unique index protects it and in several when nothing does.            *)
(* Idempotency keys are in Idempotency.tla.                                *)
(***************************************************************************)
EXTENDS NoValue, Sums, Sequences

CONSTANTS
  Callers,        \* requests in flight at once, the scheduler's tick included
  Employees,
  Workloads,      \* bound: operations, first structures and number of requests; a
                  \* behaviour is about one of them
  Structures,     \* the compensation structures a manager may set
  Hours,          \* hours worked on a day
  Deltas,         \* signed corrections of hours and of amounts
  SaleTotal,      \* total of the one sale, made on day 1
  DaysPerPeriod, MaxDay

Days == 1..MaxDay
PeriodOf(d) == (d - 1) \div DaysPerPeriod + 1
Periods == {PeriodOf(d) : d \in Days}
FirstDay(p) == (p - 1) * DaysPerPeriod + 1

CompensationModels == {"FIXED_MONTHLY", "HOURLY", "PERCENTAGE", "FIXED_PLUS_PERCENTAGE",
                       "FIXED_PLUS_TIME", "CONTRACT", "CUSTOM"}

Structure == [model : CompensationModels, fixed : Nat, rate : Nat, percent : Nat,
              threshold : Nat, multiplier : Nat, months : Nat \ {0}]

AllOperations == {"compensate", "attend", "self", "correct", "generate", "pay", "bulk",
                  "reverse", "adjust", "attribute", "refund"}

ASSUME PayrollAssumption ==
  /\ Workloads \subseteq [ops : SUBSET AllOperations, start : SUBSET (Structures \cup {None}),
                         requests : Nat]
  /\ Structures \subseteq Structure /\ IsFiniteSet(Employees)
  /\ Hours \subseteq Nat /\ Deltas \subseteq Int \ {0}
  /\ SaleTotal \in Nat /\ DaysPerPeriod \in Nat \ {0} /\ MaxDay \in Nat \ {0}
  /\ None \notin Int \cup Employees

AttendanceRow == [hours : Nat, delta : Int, status : {"recorded", "approved"}]

PayrollRecord == [amount : Int, model : CompensationModels, percent : Nat,
                  status : {"pending", "paid"}, version : Nat, receipt : Int \cup {None},
                  adjusted : Int, moved : Int, reversed : Int]

ASSUME NoneIsNoRecord == None \notin AttendanceRow /\ None \notin PayrollRecord

VARIABLES
  timeline,    \* timeline[e]: employee_compensation of e, in order of creation
  attendance,  \* attendance[e][d]: the record of that day with its deltas summed
  sale,        \* the sale, and its refund
  record,      \* record[e][p]: the payroll record with its ledgers summed
  today,
  req,         \* req[c]: the request caller c has in flight
  asked,
  workload     \* what this behaviour is about

payrollVars == <<timeline, attendance, sale, record, today, req, asked, workload>>

Idle == [pc |-> "idle", op |-> None, who |-> None, at |-> 0, arg |-> None, read |-> None, todo |-> {}]

PayrollInit ==
  /\ workload \in Workloads
  /\ timeline \in [Employees -> {IF s = None THEN <<>> ELSE <<[pay |-> s, from |-> 0, to |-> None]>> :
                                   s \in workload.start}]
  /\ attendance = [e \in Employees |-> [d \in Days |-> None]]
  /\ \E e \in Employees : sale = [by |-> e, version |-> 0, refunded |-> 0, refund_by |-> None]
  /\ record = [e \in Employees |-> [p \in Periods |-> None]]
  /\ today = 1
  /\ req = [c \in Callers |-> Idle]
  /\ asked = 0

------------------------------------------------------------------------------
(* findFirst, ordered by effective_from, the latest first.                 *)
Latest(rows, S) == CHOOSE i \in S : \A j \in S : rows[j].from <= rows[i].from

(* findEffectiveCompensation: what is in force on a day.                   *)
InForce(e, d) ==
  {i \in DOMAIN timeline[e] : /\ timeline[e][i].from <= d
                              /\ timeline[e][i].to = None \/ timeline[e][i].to > d}

(* ROUND_HALF_UP, away from zero for a negative amount.                    *)
RoundHalfUp(n, k) ==
  IF n >= 0 THEN (2 * n + k) \div (2 * k) ELSE -((2 * (-n) + k) \div (2 * k))

Approved(e, d) == attendance[e][d] # None /\ attendance[e][d].status = "approved"

(* Bug: self-reported hours count as well.                                 *)
CountedAnyStatus(e, d) == attendance[e][d] # None

(* Only approved hours are paid.                                           *)
Counted(e, d) == Approved(e, d)

(* getApprovedHoursByDayForPeriod.                                         *)
DayHours(e, d) == attendance[e][d].hours + attendance[e][d].delta
PaidDays(e, p) == {d \in Days : PeriodOf(d) = p /\ Counted(e, d)}

(* getApprovedHoursForPeriod.                                              *)
ApprovedHours(e, p) == Sum([d \in PaidDays(e, p) |-> DayHours(e, d)], PaidDays(e, p))

(* getEligibleSalesForPeriod: the refund is a row of its own, on its day.  *)
EligibleSales(e, p) ==
  (IF sale.by = e /\ PeriodOf(1) = p THEN SaleTotal ELSE 0)
  - (IF sale.refunded # 0 /\ sale.refund_by = e /\ PeriodOf(sale.refunded) = p THEN SaleTotal ELSE 0)

OverTime(s, e, p) ==
  LET days   == PaidDays(e, p)
      over   == [d \in days |-> IF DayHours(e, d) > s.threshold THEN DayHours(e, d) - s.threshold ELSE 0]
      normal == [d \in days |-> DayHours(e, d) - over[d]]
  IN  Sum(normal, days) * s.rate + Sum(over, days) * s.rate * s.multiplier

Amount(s, e, p) ==
  LET hourly     == ApprovedHours(e, p) * s.rate
      commission == RoundHalfUp(EligibleSales(e, p) * s.percent, 100)
  IN  [FIXED_MONTHLY         |-> s.fixed,
       HOURLY                |-> hourly,
       PERCENTAGE            |-> commission,
       FIXED_PLUS_PERCENTAGE |-> s.fixed + commission,
       FIXED_PLUS_TIME       |-> s.fixed + OverTime(s, e, p),
       CONTRACT              |-> RoundHalfUp(s.fixed, s.months),
       CUSTOM                |-> s.fixed + hourly + commission][s.model]

CommissionDriven(r) == r.model \in {"PERCENTAGE", "FIXED_PLUS_PERCENTAGE"}

(* computeEffectiveAmount.                                                 *)
Effective(r) == r.amount + r.reversed + r.adjusted + r.moved

------------------------------------------------------------------------------
Ask(c, r) ==
  /\ req[c] = Idle
  /\ asked < workload.requests
  /\ r.op \in workload.ops
  /\ asked' = asked + 1
  /\ req' = [req EXCEPT ![c] = r]
  /\ UNCHANGED <<timeline, attendance, sale, record, today, workload>>

Asked(op, e, at, arg) ==
  [pc |-> "read", op |-> op, who |-> e, at |-> at, arg |-> arg, read |-> None, todo |-> {}]

Compose(c) ==
  \/ \E e \in Employees :
       \/ \E s \in Structures, d \in 0..MaxDay : Ask(c, Asked("compensate", e, d, s))
       \/ \E d \in 1..today, h \in Hours, op \in {"attend", "self"} : Ask(c, Asked(op, e, d, h))
       \/ \E d \in Days, n \in Deltas : Approved(e, d) /\ Ask(c, Asked("correct", e, d, n))
       \/ \E p \in Periods, n \in Deltas :
            /\ record[e][p] # None
            /\ \/ record[e][p].status = "pending" /\ Ask(c, Asked("pay", e, p, record[e][p].version))
               \/ record[e][p].status = "paid" /\ Ask(c, Asked("reverse", e, p, n))
               \/ Ask(c, Asked("adjust", e, p, n))
       \/ Ask(c, Asked("attribute", e, sale.version, sale.by))
  \/ \E p \in Periods : Ask(c, [Asked("generate", None, p, None) EXCEPT !.todo = Employees])
  \/ Ask(c, Asked("bulk", None, 0, None))

(* A request ends where it is: a refusal, any error, a crash.              *)
Abandon(c) ==
  /\ req[c] # Idle
  /\ req' = [req EXCEPT ![c] = Idle]
  /\ UNCHANGED <<timeline, attendance, sale, record, today, asked, workload>>

At(c, pc, op) == req[c].pc = pc /\ req[c].op = op

Stay == UNCHANGED <<today, asked, workload>>
Finished(c) == req' = [req EXCEPT ![c] = Idle] /\ Stay

------------------------------------------------------------------------------
(* Bug: the new structure may start when it likes.                         *)
StartsLaterUnchecked(current, d) == TRUE

StartsLater(current, d) == current.from < d

(* createEmployeeCompensation, under the lock of the employee's row.       *)
Compensate(c) ==
  LET e == req[c].who  rows == timeline[e]  open == {i \in DOMAIN rows : rows[i].to = None}
      current == Latest(rows, open)
      new == [pay |-> req[c].arg, from |-> req[c].at, to |-> None]
  IN
  /\ At(c, "read", "compensate")
  /\ open # {} => StartsLater(rows[current], req[c].at)
  /\ timeline' = [timeline EXCEPT ![e] =
       Append(IF open = {} THEN rows ELSE [rows EXCEPT ![current].to = req[c].at], new)]
  /\ Finished(c)
  /\ UNCHANGED <<attendance, sale, record>>

(* createAttendanceRecordEntry: one record per employee and day.           *)
Attend(c) ==
  LET e == req[c].who  d == req[c].at IN
  /\ req[c].pc = "read" /\ req[c].op \in {"attend", "self"}
  /\ attendance[e][d] = None
  /\ attendance' = [attendance EXCEPT ![e][d] =
       [hours |-> req[c].arg, delta |-> 0,
        status |-> IF req[c].op = "self" THEN "recorded" ELSE "approved"]]
  /\ Finished(c)
  /\ UNCHANGED <<timeline, sale, record>>

(* createAttendanceAdjustment: the sum is read without a lock.             *)
ReadHours(c) ==
  /\ At(c, "read", "correct")
  /\ req' = [req EXCEPT ![c].pc = "checked", ![c].read = DayHours(req[c].who, req[c].at)]
  /\ UNCHANGED <<timeline, attendance, sale, record>> /\ Stay

CorrectHours(c) ==
  /\ At(c, "checked", "correct")
  /\ req[c].read + req[c].arg >= 0
  /\ attendance' = [attendance EXCEPT ![req[c].who][req[c].at].delta = @ + req[c].arg]
  /\ Finished(c)
  /\ UNCHANGED <<timeline, sale, record>>

------------------------------------------------------------------------------
(* generatePayrollForBusiness, for the next employee: the structure ...    *)
LookUp(c) ==
  /\ At(c, "read", "generate")
  /\ \E e \in req[c].todo :
       LET rows == InForce(e, FirstDay(req[c].at))
           rest == [req[c] EXCEPT !.todo = @ \ {e}]
       IN req' = [req EXCEPT ![c] =
            IF rows = {} THEN rest
            ELSE [rest EXCEPT !.pc = "found", !.who = e, !.arg = Latest(timeline[e], rows)]]
  /\ UNCHANGED <<timeline, attendance, sale, record>> /\ Stay

(* ... what it comes to ...                                                *)
Calculate(c) ==
  LET e == req[c].who  s == timeline[e][req[c].arg].pay IN
  /\ At(c, "found", "generate")
  /\ req' = [req EXCEPT ![c].pc = "calculated",
               ![c].read = [amount |-> Amount(s, e, req[c].at), model |-> s.model, percent |-> s.percent]]
  /\ UNCHANGED <<timeline, attendance, sale, record>> /\ Stay

(* Bug: ON CONFLICT DO UPDATE.                                             *)
InsertedOver(old, new) == new

(* ... and the INSERT ... ON CONFLICT DO NOTHING.                          *)
Inserted(old, new) == IF old = None THEN new ELSE old

Insert(c) ==
  LET e == req[c].who  p == req[c].at  r == req[c].read
      new == [amount |-> r.amount, model |-> r.model, percent |-> r.percent, status |-> "pending",
              version |-> 0, receipt |-> None, adjusted |-> 0, moved |-> 0, reversed |-> 0]
  IN
  /\ At(c, "calculated", "generate")
  /\ record' = [record EXCEPT ![e][p] = Inserted(@, new)]
  /\ req' = [req EXCEPT ![c].pc = "read", ![c].who = None, ![c].arg = None, ![c].read = None]
  /\ UNCHANGED <<timeline, attendance, sale>> /\ Stay

GenerateDone(c) ==
  /\ At(c, "read", "generate") /\ req[c].todo = {}
  /\ Finished(c)
  /\ UNCHANGED <<timeline, attendance, sale, record>>

------------------------------------------------------------------------------
(* The guarded update of markPayrollPaid, and the unique index on the      *)
(* receipts of a payroll record.                                           *)
Payable(r, version) == r.version = version /\ r.status = "pending" /\ r.receipt = None

PaidRow(r) == [r EXCEPT !.status = "paid", !.version = @ + 1, !.receipt = r.amount]

Pay(c) ==
  LET e == req[c].who  p == req[c].at IN
  /\ At(c, "read", "pay")
  /\ Payable(record[e][p], req[c].arg)
  /\ record' = [record EXCEPT ![e][p] = PaidRow(@)]
  /\ Finished(c)
  /\ UNCHANGED <<timeline, attendance, sale>>

(* bulkPayPending: the list is read once, each record paid on its own.     *)
ListPending(c) ==
  /\ At(c, "read", "bulk")
  /\ req' = [req EXCEPT ![c].pc = "listed",
       ![c].todo = {[who |-> x[1], at |-> x[2], version |-> record[x[1]][x[2]].version] :
                      x \in {y \in Employees \X Periods : /\ record[y[1]][y[2]] # None
                                                          /\ record[y[1]][y[2]].status = "pending"}}]
  /\ UNCHANGED <<timeline, attendance, sale, record>> /\ Stay

PayListed(c) ==
  /\ At(c, "listed", "bulk")
  /\ \E x \in req[c].todo :
       /\ record' = [record EXCEPT ![x.who][x.at] = IF Payable(@, x.version) THEN PaidRow(@) ELSE @]
       /\ req' = [req EXCEPT ![c].todo = @ \ {x}]
  /\ UNCHANGED <<timeline, attendance, sale>> /\ Stay

BulkDone(c) ==
  /\ At(c, "listed", "bulk") /\ req[c].todo = {}
  /\ Finished(c)
  /\ UNCHANGED <<timeline, attendance, sale, record>>

------------------------------------------------------------------------------
Holds(c, pc, op, e, p) == At(c, pc, op) /\ req[c].who = e /\ req[c].at = p

(* Bug: the history is summed without a lock on the record.                *)
RecordFreeUnlocked(e, p) == TRUE

(* FOR UPDATE of the record waits for this, and so does the foreign key of *)
(* a commission adjustment, which shares the row.                          *)
RecordFree(e, p) == ~\E c \in Callers : Holds(c, "locked", "reverse", e, p)

(* createPayrollReversal.                                                  *)
LockRecord(c) ==
  LET e == req[c].who  p == req[c].at IN
  /\ At(c, "read", "reverse")
  /\ RecordFree(e, p)
  /\ req' = [req EXCEPT ![c].pc = "locked", ![c].read = Effective(record[e][p])]
  /\ UNCHANGED <<timeline, attendance, sale, record>> /\ Stay

Reverse(c) ==
  /\ At(c, "locked", "reverse")
  /\ req[c].read + req[c].arg >= 0
  /\ record' = [record EXCEPT ![req[c].who][req[c].at].reversed = @ + req[c].arg]
  /\ Finished(c)
  /\ UNCHANGED <<timeline, attendance, sale>>

(* createCommissionAdjustment: of any record, by any amount.               *)
Adjust(c) ==
  LET e == req[c].who  p == req[c].at IN
  /\ At(c, "read", "adjust")
  /\ RecordFree(e, p)
  /\ record' = [record EXCEPT ![e][p].adjusted = @ + req[c].arg]
  /\ Finished(c)
  /\ UNCHANGED <<timeline, attendance, sale>>

------------------------------------------------------------------------------
(* Bug: each side is moved by its own rate.                                *)
ContributionOwnRate(from, e, p) == RoundHalfUp(SaleTotal * record[e][p].percent, 100)

(* setSaleAttribution: the one value moved, at the rate of the record it   *)
(* is taken from. e is the side it is booked on, from the other.           *)
Contribution(from, e, p) == RoundHalfUp(SaleTotal * record[from][p].percent, 100)

Reallocates(from, to, p) ==
  /\ record[from][p] # None /\ record[to][p] # None
  /\ record[from][p].status = "pending" /\ record[to][p].status = "pending"
  /\ CommissionDriven(record[from][p]) /\ CommissionDriven(record[to][p])

(* ... the guarded update, and the records as its transaction finds them.  *)
TakeSale(c) ==
  LET from == req[c].arg  to == req[c].who  p == PeriodOf(1) IN
  /\ At(c, "read", "attribute")
  /\ sale.version = req[c].at
  /\ ~\E d \in Callers : At(d, "taken", "attribute")
  /\ req' = [req EXCEPT ![c].pc = "taken",
       ![c].read = IF Reallocates(from, to, p)
                     THEN <<-Contribution(from, from, p), Contribution(from, to, p)>> ELSE <<0, 0>>]
  /\ UNCHANGED <<timeline, attendance, sale, record>> /\ Stay

(* ... and its commit.                                                     *)
Attribute(c) ==
  LET from == req[c].arg  to == req[c].who  p == PeriodOf(1)
      taken == [record EXCEPT ![from][p].moved = @ + req[c].read[1]]
  IN
  /\ At(c, "taken", "attribute")
  /\ req[c].read # <<0, 0>> => RecordFree(from, p) /\ RecordFree(to, p)
  /\ sale' = [sale EXCEPT !.by = to, !.version = @ + 1]
  /\ record' = IF req[c].read = <<0, 0>> THEN record
               ELSE [taken EXCEPT ![to][p].moved = @ + req[c].read[2]]
  /\ Finished(c)
  /\ UNCHANGED <<timeline, attendance>>

------------------------------------------------------------------------------
(* The environment: the whole sale is refunded, a day passes.              *)
Refund ==
  /\ "refund" \in workload.ops
  /\ sale.refunded = 0
  /\ sale' = [sale EXCEPT !.refunded = today, !.refund_by = sale.by, !.version = @ + 1]
  /\ UNCHANGED <<timeline, attendance, record, today, req, asked, workload>>

NextDay ==
  /\ today < MaxDay
  /\ today' = today + 1
  /\ UNCHANGED <<timeline, attendance, sale, record, req, asked, workload>>

Serve(c) ==
  \/ Compose(c) \/ Abandon(c) \/ Compensate(c) \/ Attend(c) \/ ReadHours(c) \/ CorrectHours(c)
  \/ LookUp(c) \/ Calculate(c) \/ Insert(c) \/ GenerateDone(c)
  \/ Pay(c) \/ ListPending(c) \/ PayListed(c) \/ BulkDone(c)
  \/ LockRecord(c) \/ Reverse(c) \/ Adjust(c) \/ TakeSale(c) \/ Attribute(c)

(* Nothing is in flight.                                                   *)
PayrollQuiescent ==
  /\ \A c \in Callers : req[c] = Idle
  /\ UNCHANGED payrollVars

PayrollNext ==
  \/ \E c \in Callers : Serve(c)
  \/ Refund \/ NextDay \/ PayrollQuiescent

PayrollSpec == PayrollInit /\ [][PayrollNext]_payrollVars

------------------------------------------------------------------------------
(* Every table holds rows of its shape.                                    *)
PayrollTypes ==
  /\ \A e \in Employees : \A i \in DOMAIN timeline[e] : timeline[e][i].pay \in Structures
  /\ \A e \in Employees, d \in Days : attendance[e][d] # None =>
       attendance[e][d].status \in {"recorded", "approved"} /\ attendance[e][d].hours \in Nat
  /\ \A e \in Employees, p \in Periods : record[e][p] # None =>
       record[e][p].status \in {"pending", "paid"} /\ record[e][p].amount \in Int
  /\ sale.by \in Employees /\ today \in Days

(* However structures are set, one after the other or at once, at most one *)
(* is in force on any day (createEmployeeCompensation; "the timeline never *)
(* has two simultaneously-active structures").                             *)
OneStructurePerDay ==
  \A e \in Employees, d \in 0..MaxDay : Cardinality(InForce(e, d)) <= 1

(* Hours somebody reported for himself and nobody approved are never paid, *)
(* whatever is approved, corrected and calculated in between               *)
(* (recordSelfAttendance, getApprovedHoursForPeriod).                      *)
ApprovedHoursPaid ==
  \A e \in Employees, p \in Periods :
    record[e][p] # None /\ record[e][p].model = "HOURLY" /\ record[e][p].amount > 0 =>
      \E d \in Days : PeriodOf(d) = p /\ Approved(e, d)

(* A record keeps the amount it was first calculated with and, once paid,  *)
(* stays paid with the receipt of that amount, through repeated runs of    *)
(* the generation and both ledgers (generatePayrollForBusiness).           *)
RecordsKept ==
  [][\A e \in Employees, p \in Periods :
       LET old == record[e][p]  new == record'[e][p] IN
       old # None => /\ new.amount = old.amount /\ new.model = old.model
                     /\ old.status = "paid" => new.status = "paid" /\ new.receipt = old.receipt
                     /\ new.status = "paid" => new.receipt = new.amount]_payrollVars

(* No reversal takes what an employee was paid below zero, not even two at *)
(* once or one beside a commission adjustment (HNT-PAY-003,                *)
(* createPayrollReversal).                                                 *)
ReversalsBounded ==
  [][\A e \in Employees, p \in Periods :
       LET old == record[e][p]  new == record'[e][p] IN
       old # None /\ new.reversed # old.reversed => Effective(new) >= 0]_payrollVars

(* Moving a sale from one employee to another takes from the one what it   *)
(* gives to the other: "total commission across both records is            *)
(* unchanged" (setSaleAttribution).                                        *)
CommissionConserved ==
  \A p \in Periods :
    Sum([e \in Employees |-> IF record[e][p] = None THEN 0 ELSE record[e][p].moved], Employees) = 0

------------------------------------------------------------------------------
(* Claims of the code that its steps do not keep.                          *)

(* "effectiveAmount must stay >= 0" (payroll.service.ts:599).              *)
EffectiveNonNegative ==
  \A e \in Employees, p \in Periods : record[e][p] # None => Effective(record[e][p]) >= 0

(* "Preserve PAID immutability": the automatic reallocation never books on *)
(* a record that is paid (sale.service.ts, setSaleAttribution).            *)
PaidUntouched ==
  [][\A e \in Employees, p \in Periods :
       record[e][p] # None /\ record[e][p].status = "paid" =>
         record'[e][p].moved = record[e][p].moved]_payrollVars

(* A sale counts in at most one employee's commission of its period. An    *)
(* attribution between the calculations of two employees, while neither    *)
(* has a record to adjust, makes it count in both.                         *)
SaleCountedOnce ==
  LET p == PeriodOf(1)
      counted == {e \in Employees : record[e][p] # None /\ record[e][p].model = "PERCENTAGE"
                                      /\ record[e][p].amount + record[e][p].moved > 0}
  IN  Cardinality(counted) <= 1
==============================================================================
