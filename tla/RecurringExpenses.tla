-------------------------- MODULE RecurringExpenses --------------------------
(***************************************************************************)
(* The recurring expense worker (src/services/recurringExpense.service.ts, *)
(* lib/recurrencePeriod.ts, lib/recurringExpenseScheduler.ts) over the     *)
(* expenses of Expenses.tla. A sweep runs at 03:00; two may overlap, as    *)
(* the jobs of two days, or of one whose lease has run out                 *)
(* (ScheduledJob.tla). An instant is twice its day, plus one past          *)
(* midnight: start, end and next_run are midnights, now is not. A week and *)
(* a month are a fixed number of days; quarterly and yearly differ from    *)
(* weekly in that number only.                                             *)
(***************************************************************************)
EXTENDS Expenses

CONSTANTS
  Week, Month,     \* days in a week and in a month
  Onboarded,       \* the business day of businesses.created_at
  MaxRunAttempts,  \* MAX_ATTEMPTS of one occurrence
  MaxDay           \* bound on the calendar

Frequencies == {"daily", "weekly", "monthly"}

Schedule == [frequency : Frequencies, interval : Nat \ {0}, mode : {"auto_post", "auto_draft"},
             type : {"fixed", "variable"}, configured : Sums \cup {None}, start : Nat,
             end : Nat \cup {None}, confirmed : BOOLEAN, next : Nat \cup {None},
             last : Nat \cup {None}, active : BOOLEAN]

Run == [status : {"running", "retry_wait", "succeeded", "dead_letter"},
        attempts : Nat, expense : Nat]

(* What PATCH /recurrence may replace, never the frequency                 *)
(* (updateRecurrenceSchema).                                               *)
AmendableFields ==
  [interval |-> Nat \ {0}, mode |-> {"auto_post", "auto_draft"}, type |-> {"fixed", "variable"},
   configured |-> Sums \cup {None}, start |-> Nat, end |-> Nat \cup {None},
   confirmed |-> BOOLEAN, next |-> Nat \cup {None}, active |-> BOOLEAN]

ASSUME RecurrenceAssumption ==
  /\ Week \in Nat \ {0} /\ Month \in Nat \ {0}
  /\ Onboarded \in Nat /\ MaxRunAttempts \in Nat \ {0}
  /\ MaxDay \in Nat
  /\ \A w \in Workloads : w.schedules \subseteq Schedule \cup {None} /\ w.days \in 0..MaxDay
  /\ \A change \in Amendments : \A f \in DOMAIN change :
       f \in DOMAIN AmendableFields /\ change[f] \in AmendableFields[f]

ASSUME NoneIsNoOccurrence == None \notin Schedule /\ None \notin Run

VARIABLES
  today,
  sweeps    \* sweeps[d]: sweeps started on day d

recurringVars == <<expenseVars, today, sweeps>>

Days == 0..MaxDay

RecurringInit ==
  /\ expenses = <<>>
  /\ schedule = None
  /\ run = [p \in Days |-> None]
  /\ req = [c \in Callers |-> Idle]
  /\ asked = 0
  /\ workload \in Workloads
  /\ today = 0
  /\ sweeps = [d \in Days |-> 0]

------------------------------------------------------------------------------
Latest(a, b) == IF a > b THEN a ELSE b

DaysIn(frequency) ==
  CASE frequency = "daily" -> 1 [] frequency = "weekly" -> Week [] frequency = "monthly" -> Month

(* catchUpWindowStart: three days, two weeks, two months before now.       *)
WindowStart(s) ==
  2 * today + 1 - 2 * DaysIn(s.frequency) * (IF s.frequency = "daily" THEN 3 ELSE 2)

EffectiveWindowStart(s) == Latest(WindowStart(s), 2 * Latest(Onboarded, s.start))

MonthStart(i) == (i \div (2 * Month)) * 2 * Month

MaxOccurrences == 3

(* Bug: the anchor is the day the sweep runs.                              *)
AdvanceFromToday(s, p) == today + DaysIn(s.frequency) * s.interval

(* advanceRollingPeriod                                                    *)
AdvanceRolling(s, p) == p + DaysIn(s.frequency) * s.interval

(* The first instant of i, i + step, i + 2 * step ... that is not before w.*)
SkipTo(i, step, w) == IF i >= w THEN i ELSE i + step * ((w - i + step - 1) \div step)

(* Where each frequency starts counting: calendar frequencies at the       *)
(* window, rolling ones at next_run.                                       *)
FirstCursor(s) ==
  LET w == EffectiveWindowStart(s)  now == 2 * today IN
  IF s.frequency = "daily" THEN IF w > now THEN now ELSE w
  ELSE IF s.frequency = "monthly" THEN MonthStart(IF w > now THEN now ELSE w)
  ELSE SkipTo(2 * (IF s.next = None THEN s.start ELSE s.next), 2 * Week * s.interval, w)

(* computeDuePeriods, as the calendar days the cursors fall on.            *)
DuePeriods(s) ==
  LET cursors == {FirstCursor(s) + 2 * DaysIn(s.frequency) * s.interval * k :
                    k \in 0..(MaxOccurrences - 1)}
      upTo    == IF s.frequency = "monthly" THEN MonthStart(2 * today) ELSE 2 * today
  IN {i \div 2 : i \in {i \in cursors : i <= upTo /\ (s.end # None => i <= 2 * s.end)}}

------------------------------------------------------------------------------
Swept == MapThenSumSet(LAMBDA d : sweeps[d], Days)

(* processDueRecurrences: the active schedules are read once, at the start.*)
StartSweep(c) ==
  /\ Swept < workload.sweeps
  /\ req[c].pc = "idle"
  /\ schedule # None /\ schedule.active
  /\ req' = [req EXCEPT ![c] = [Idle EXCEPT !.pc = "sweep", !.op = "sweep",
                                            !.todo = DuePeriods(schedule)]]
  /\ sweeps' = [sweeps EXCEPT ![today] = @ + 1]
  /\ UNCHANGED <<expenses, schedule, run, asked, workload, today>>

(* Bug: an occurrence another worker has in hand is taken as well.         *)
ClaimableRunning(r) == r.status \in {"running", "retry_wait"}

(* claimRun: a row never attempted, or one whose backoff may have elapsed. *)
ClaimableRun(r) == r.status = "retry_wait"

(* generateOccurrence: ensureRunRow and claimRun of the oldest period.     *)
ClaimRun(c) ==
  /\ req[c].pc = "sweep" /\ req[c].todo # {}
  /\ LET p == Min(req[c].todo)
         r == IF run[p] = None THEN [status |-> "retry_wait", attempts |-> 0, expense |-> 0]
              ELSE run[p]
     IN /\ ClaimableRun(r)
        /\ run' = [run EXCEPT ![p] = [r EXCEPT !.status = "running", !.attempts = @ + 1]]
        /\ req' = [req EXCEPT ![c].pc = "claimed", ![c].on = p, ![c].todo = @ \ {p}]
  /\ UNCHANGED <<expenses, schedule, asked, workload, today, sweeps>>

(* The period is done, in hand, dead or waiting for its backoff.           *)
Skip(c) ==
  /\ req[c].pc = "sweep" /\ req[c].todo # {}
  /\ run[Min(req[c].todo)] # None
  /\ req' = [req EXCEPT ![c].todo = @ \ {Min(@)}]
  /\ UNCHANGED <<expenses, schedule, run, asked, workload, today, sweeps>>

(* The generation transaction reads the schedule.                          *)
ReadSchedule(c) ==
  /\ req[c].pc = "claimed"
  /\ req' = [req EXCEPT ![c].pc = "generating", ![c].snap = schedule]
  /\ UNCHANGED <<expenses, schedule, run, asked, workload, today, sweeps>>

(* What is generated: a real expense, or a draft with a placeholder of 0.  *)
Generated(s, p) ==
  NewExpense(IF s.type = "fixed" THEN s.configured ELSE 0,
             IF s.mode = "auto_draft" THEN "draft" ELSE "pending", p)

(* The transaction commits: the expense, the run and the schedule at once. *)
CommitGeneration(c) ==
  LET p == req[c].on
      s == req[c].snap
  IN /\ req[c].pc = "generating"
     /\ expenses' = Append(expenses, Generated(s, p))
     /\ run' = [run EXCEPT ![p].status = "succeeded", ![p].expense = Len(expenses) + 1]
     /\ schedule' = [schedule EXCEPT
          !.last = p,
          !.next = IF s.frequency = "weekly" THEN AdvanceRolling(s, p) ELSE @]
     /\ req' = [req EXCEPT ![c].pc = "sweep", ![c].on = 0, ![c].snap = None]
     /\ UNCHANGED <<asked, workload, today, sweeps>>

(* completeRunFailure                                                      *)
AfterFailure(r) == IF r.attempts >= MaxRunAttempts THEN "dead_letter" ELSE "retry_wait"

(* The transaction fails and is rolled back: no owner, a lost connection.  *)
FailGeneration(c) ==
  /\ req[c].pc = "generating"
  /\ run' = [run EXCEPT ![req[c].on].status = AfterFailure(run[req[c].on])]
  /\ req' = [req EXCEPT ![c].pc = "sweep", ![c].on = 0, ![c].snap = None]
  /\ UNCHANGED <<expenses, schedule, asked, workload, today, sweeps>>

EndSweep(c) ==
  /\ req[c].pc = "sweep" /\ req[c].todo = {}
  /\ req' = [req EXCEPT ![c] = Idle]
  /\ UNCHANGED <<expenses, schedule, run, asked, workload, today, sweeps>>

NextDay ==
  /\ today < workload.days
  /\ today' = today + 1
  /\ UNCHANGED <<expenseVars, sweeps>>

WorkerStep(c) ==
  \/ StartSweep(c) \/ ClaimRun(c) \/ Skip(c) \/ ReadSchedule(c)
  \/ CommitGeneration(c) \/ FailGeneration(c) \/ EndSweep(c)

SweepsQuiescent ==
  /\ \A c \in Callers : req[c] = Idle
  /\ UNCHANGED recurringVars

RecurringNext ==
  \/ CreateExpense /\ UNCHANGED <<today, sweeps>>
  \/ \E c \in Callers : ClientStep(c) /\ UNCHANGED <<today, sweeps>>
  \/ \E c \in Callers : WorkerStep(c)
  \/ NextDay \/ SweepsQuiescent

RecurringSpec == RecurringInit /\ [][RecurringNext]_recurringVars

------------------------------------------------------------------------------
RecurringTypes ==
  /\ \A e \in DOMAIN expenses : expenses[e] \in Expense
  /\ schedule \in Schedule \cup {None}
  /\ run \in [Days -> Run \cup {None}]
  /\ today \in Days /\ sweeps \in [Days -> Nat] /\ asked \in 0..workload.requests

Occurrences == {e \in DOMAIN expenses : expenses[e].period # None}

(* One expense per period at most, whatever sweeps overlap, crash or are   *)
(* repeated, and exactly the runs that succeeded have theirs: a failed     *)
(* generation leaves nothing behind (recurringExpense.service.ts:130-133). *)
OncePerPeriod ==
  /\ \A e, f \in Occurrences : expenses[e].period = expenses[f].period => e = f
  /\ \A p \in Days : run[p] # None =>
       (run[p].status = "succeeded" <=> \E e \in Occurrences : expenses[e].period = p)

(* The worker posts nothing without a known amount, although a schedule    *)
(* may be amended by two clients at once and while a sweep is running:     *)
(* a placeholder is a draft and stays out of the workflow.                 *)
PostedAmountKnown ==
  \A e \in Occurrences : expenses[e].amount = 0 => expenses[e].workflow = "draft"

(* A rolling schedule whose dates nobody moves keeps its anchor: every     *)
(* occurrence is a whole number of intervals from the first day.           *)
RollingAnchored ==
  schedule # None /\ schedule.frequency = "weekly"
    => \A p \in Days : run[p] # None => (p - schedule.start) % (Week * schedule.interval) = 0

(* "interval expresses 'every N periods'" (schema.prisma:634). Calendar    *)
(* frequencies count from the moving window, so that two sweeps generate   *)
(* the periods in between as well.                                         *)
IntervalKept ==
  schedule # None
    => \A p, q \in Days : run[p] # None /\ run[q] # None =>
         (p - q) % (DaysIn(schedule.frequency) * schedule.interval) = 0

(* end_date is the last day an occurrence may fall on                      *)
(* (recurrencePeriod.ts:92-94,103), so a daily schedule swept every day    *)
(* ends with it. The cursor carries the hour of the sweep and is past it.  *)
EndDayReached ==
  (schedule # None /\ schedule.frequency = "daily" /\ schedule.end # None
     /\ today = MaxDay /\ schedule.end < today - 3
     /\ \A d \in schedule.start..(schedule.end + 3) : sweeps[d] > 0
     /\ \A c \in Callers : req[c].pc = "idle")
    => run[schedule.end] # None

(* "mirrors scheduledJob.ts's own ensureJobRow/claimJob-outside ... shape  *)
(* exactly" (recurringExpense.service.ts:38-40), whose claim has a lease:  *)
(* a run a dead worker left behind is taken again. It never is.            *)
RunsReclaimed ==
  (\A c \in Callers : req[c].pc = "idle") => \A p \in Days : run[p] # None => run[p].status # "running"

(* "startDate is confirmed immutable once ANY expense_recurrence_runs row  *)
(* exists" (expense.service.ts:901). The count is taken before the update. *)
StartFixed ==
  [][(\E p \in Days : run[p] # None) => schedule'.start = schedule.start]_<<schedule, run>>

(* An auto_draft is generated for "human review before it enters the       *)
(* normal pending->approved->paid workflow" (expense.service.ts:169-170).  *)
(* No operation takes it out of draft.                                     *)
DraftStays ==
  [][\A e \in DOMAIN expenses :
       expenses[e].workflow = "draft" => expenses'[e].workflow = "draft"]_expenses
==============================================================================
