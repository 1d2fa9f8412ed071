------------------------------ MODULE Expenses -------------------------------
(***************************************************************************)
(* The expenses of one business (src/services/expense.service.ts): the     *)
(* row with its optimistic version, the approval workflow, archiving, the  *)
(* attachments, the corrections of a paid expense and the recurrence       *)
(* schedule kept beside a template. A request is checked on rows read      *)
(* before its transaction and committed in one transaction. What a row     *)
(* carries besides the amount (category, branch, tax, tags) moves with it  *)
(* and is left out. The worker that reads the schedule is in               *)
(* RecurringExpenses.tla, payments of orders in PurchaseOrders.tla.        *)
(***************************************************************************)
EXTENDS NoValue, Integers, Sequences, FiniteSetsExt

CONSTANTS
  Callers,       \* requests and workers in flight at once
  Sums,          \* amounts
  Workloads,     \* bound: operations asked for, schedules created, how many requests,
                 \* expenses of clients and sweeps there are, and on how many days
  Amendments,    \* partial schedules a client may send to PATCH /recurrence
  MaxFiles       \* MAX_ATTACHMENTS

ASSUME ExpenseAssumption ==
  /\ Sums \subseteq Nat \ {0}
  /\ MaxFiles \in Nat \ {0}
  /\ None \notin Nat

Workflow == {"draft", "pending", "approved", "rejected", "paid"}

Expense == [workflow : Workflow, archived : BOOLEAN, version : Nat, amount : Nat,
            approved : BOOLEAN, rejected : BOOLEAN, files : SUBSET Nat,
            corrections : Seq(Sums), period : Nat \cup {None}]

VARIABLES
  expenses,   \* the expenses rows, in order of their numbers
  schedule,   \* the expense_recurrence row of expense 1, None when it has none
  run,        \* run[p]: the expense_recurrence_runs row of day p, None before it
  req,        \* req[c]: the request or the sweep caller c has in flight
  asked,
  workload    \* what this behaviour is about

Idle == [pc |-> "idle", op |-> None, on |-> 0, shown |-> 0, sum |-> None,
         change |-> None, todo |-> {}, snap |-> None]

expenseVars == <<expenses, schedule, run, req, asked, workload>>

(* Bug: what the client saw is not compared.                               *)
FreshByWorkflow(c, from) == expenses[req[c].on].workflow \in from

(* The guard of the UPDATEs: the version the client was shown.             *)
Fresh(c, from) ==
  LET e == expenses[req[c].on] IN e.version = req[c].shown /\ e.workflow \in from

(* Bug: the row is taken by its id.                                        *)
StillInById(c, from) == TRUE

StillIn(c, from) == Fresh(c, from)

(* Bug: nothing is refused.                                                *)
LawfulAnything(s) == TRUE

(* refineRecurrenceRules, and the CHECKs of expense_recurrence.            *)
Lawful(s) ==
  /\ s.mode = "auto_post" => s.type = "fixed"
  /\ s.frequency = "daily" /\ s.mode = "auto_post" => s.confirmed
  /\ (s.type = "fixed") <=> (s.configured # None)
  /\ s.end # None => s.end > s.start

(* The fields sent replace those stored, the others stay.                  *)
Merge(s, change) == [f \in DOMAIN s |-> IF f \in DOMAIN change THEN change[f] ELSE s[f]]

------------------------------------------------------------------------------
NewExpense(amount, workflow, period) ==
  [workflow |-> workflow, archived |-> FALSE, version |-> 0, amount |-> amount,
   approved |-> workflow = "paid", rejected |-> FALSE, files |-> {},
   corrections |-> <<>>, period |-> period]

(* createExpense: always pending, the schedule in the same transaction.    *)
CreateExpense ==
  /\ Cardinality({e \in DOMAIN expenses : expenses[e].period = None}) < workload.expenses
  /\ \E amount \in Sums : expenses' = Append(expenses, NewExpense(amount, "pending", None))
  /\ IF expenses = <<>>
       THEN \E s \in workload.schedules :
              (s # None => Lawful(s)) /\ schedule' = s
       ELSE UNCHANGED schedule
  /\ UNCHANGED <<run, req, asked, workload>>

(* What each operation checks on the expense it read.                      *)
Admissible(op, e) ==
  CASE op = "update"   -> ~e.archived /\ e.workflow # "paid"
    [] op = "annotate" -> ~e.archived
    [] op = "archive"  -> ~e.archived
    [] op = "restore"  -> e.archived
    [] op = "attach"   -> ~e.archived /\ Cardinality(e.files) < MaxFiles
    [] op = "detach"   -> ~e.archived /\ e.files # {}
    [] op \in {"approve", "reject"} -> e.workflow = "pending"
    [] op = "pay"      -> e.workflow = "approved"
    [] op = "correct"  -> e.workflow = "paid"
    [] OTHER           -> FALSE

Compose(c, r) ==
  /\ asked < workload.requests
  /\ req[c].pc = "idle"
  /\ req' = [req EXCEPT ![c] = r]
  /\ asked' = asked + 1
  /\ UNCHANGED workload

(* A request on an expense, shown at its present version, passes the checks.*)
Ask(c) ==
  /\ \E op \in workload.ops, e \in DOMAIN expenses, n \in Sums :
       /\ Admissible(op, expenses[e])
       /\ op \notin {"update", "correct"} => n = Min(Sums)
       /\ \E file \in IF op = "detach" THEN expenses[e].files ELSE {asked} :
            Compose(c, [Idle EXCEPT !.pc = "checked", !.op = op, !.on = e, !.sum = n,
                                    !.shown = expenses[e].version, !.todo = {file}])
  /\ UNCHANGED <<expenses, schedule, run>>

(* updateRecurrence: the merged schedule is lawful, the start date is not  *)
(* moved once there is a run.                                              *)
Amendable(change) ==
  /\ Lawful(Merge(schedule, change))
  /\ "start" \in DOMAIN change => \A p \in DOMAIN run : run[p] = None

AskAmend(c) ==
  /\ "amend" \in workload.ops
  /\ schedule # None
  /\ \E change \in Amendments :
       /\ Amendable(change)
       /\ Compose(c, [Idle EXCEPT !.pc = "checked", !.op = "amend", !.change = change])
  /\ UNCHANGED <<expenses, schedule, run>>

Doing(c, ops) == req[c].pc = "checked" /\ req[c].op \in ops

Done(c) == req' = [req EXCEPT ![c] = Idle] /\ UNCHANGED <<asked, workload>>

Change(c, row) ==
  /\ expenses' = [expenses EXCEPT ![req[c].on] = row]
  /\ Done(c)
  /\ UNCHANGED <<schedule, run>>

Next1(e) == [e EXCEPT !.version = @ + 1]

(* updateExpense: guarded by the version alone.                            *)
Update(c) ==
  /\ Doing(c, {"update", "annotate"})
  /\ Fresh(c, Workflow)
  /\ LET e == expenses[req[c].on] IN
       Change(c, IF req[c].op = "update" THEN [Next1(e) EXCEPT !.amount = req[c].sum] ELSE Next1(e))

(* archiveExpense, restoreExpense: whatever the workflow status.           *)
Archive(c) ==
  /\ Doing(c, {"archive", "restore"})
  /\ LET e == expenses[req[c].on] IN
       /\ Fresh(c, Workflow)
       /\ e.archived = (req[c].op = "restore")
       /\ Change(c, [Next1(e) EXCEPT !.archived = ~@])

(* approveExpense                                                          *)
Approve(c) ==
  /\ Doing(c, {"approve"})
  /\ StillIn(c, {"pending"})
  /\ Change(c, [Next1(expenses[req[c].on]) EXCEPT !.workflow = "approved", !.approved = TRUE])

(* rejectExpense                                                           *)
Reject(c) ==
  /\ Doing(c, {"reject"})
  /\ StillIn(c, {"pending"})
  /\ Change(c, [Next1(expenses[req[c].on]) EXCEPT !.workflow = "rejected", !.rejected = TRUE])

(* markExpensePaid                                                         *)
MarkPaid(c) ==
  /\ Doing(c, {"pay"})
  /\ StillIn(c, {"approved"})
  /\ Change(c, [Next1(expenses[req[c].on]) EXCEPT !.workflow = "paid"])

(* createExpenseCorrection: appended, the row is left alone.               *)
Correct(c) ==
  /\ Doing(c, {"correct"})
  /\ Change(c, [expenses[req[c].on] EXCEPT !.corrections = Append(@, req[c].sum)])

(* addAttachments: neither version nor status is looked at again.          *)
AddAttachment(c) ==
  /\ Doing(c, {"attach"})
  /\ Change(c, [expenses[req[c].on] EXCEPT !.files = @ \cup req[c].todo])

(* deleteAttachment: deleting what is gone fails the transaction.          *)
DeleteAttachment(c) ==
  /\ Doing(c, {"detach"})
  /\ req[c].todo \subseteq expenses[req[c].on].files
  /\ Change(c, [expenses[req[c].on] EXCEPT !.files = @ \ req[c].todo])

(* updateRecurrence: no version; the CHECKs see the row as it is by now.   *)
Amend(c) ==
  /\ Doing(c, {"amend"})
  /\ Lawful(Merge(schedule, req[c].change))
  /\ schedule' = Merge(schedule, req[c].change)
  /\ Done(c)
  /\ UNCHANGED <<expenses, run>>

(* A request is refused, rolled back or lost; a worker dies.               *)
Abandon(c) ==
  /\ req[c].pc # "idle"
  /\ Done(c)
  /\ UNCHANGED <<expenses, schedule, run>>

ClientStep(c) ==
  \/ Ask(c) \/ AskAmend(c)
  \/ Update(c) \/ Archive(c) \/ Approve(c) \/ Reject(c) \/ MarkPaid(c) \/ Correct(c)
  \/ AddAttachment(c) \/ DeleteAttachment(c) \/ Amend(c)
  \/ Abandon(c)

(* getExpense: the latest correction counts, else the amount itself.       *)
EffectiveAmount(e) == IF e.corrections = <<>> THEN e.amount ELSE e.corrections[Len(e.corrections)]

------------------------------------------------------------------------------
(* An expense is approved or rejected, never both, and paid only after it  *)
(* was approved, whoever else decides at the same moment.                  *)
DecidedOnce ==
  \A e \in DOMAIN expenses :
    /\ ~(expenses[e].approved /\ expenses[e].rejected)
    /\ expenses[e].workflow = "rejected" <=> expenses[e].rejected
    /\ expenses[e].workflow \in {"approved", "paid"} <=> expenses[e].approved

(* The amount of a paid expense, and that it is paid, never change again,  *)
(* and an archived expense is not edited: an update that was checked       *)
(* before is refused (expense.service.ts:409-416).                         *)
PaidFrozen ==
  [][\A e \in DOMAIN expenses :
       /\ expenses[e].workflow = "paid" =>
            expenses'[e].workflow = "paid" /\ expenses'[e].amount = expenses[e].amount
       /\ expenses[e].archived => expenses'[e].amount = expenses[e].amount]_expenses

(* "An expense cannot have more than MAX_ATTACHMENTS attachments"          *)
(* (expense.service.ts:597). It can: two requests count before either adds.*)
FilesWithinMax == \A e \in DOMAIN expenses : Cardinality(expenses[e].files) <= MaxFiles
==============================================================================
