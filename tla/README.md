# TLA+ models of the Hantios backend

The backend under `src/src` is an Express server over PostgreSQL (Prisma, isolation READ COMMITTED)
for shops with several branches: sales, stock, customer debts, receipts, procurement, payroll and
expenses. Several Node processes may run at once. Its hard part is not computation but what
concurrent requests, retries, background sweeps and crashes do to rows that must agree with each
other. That is what the modules here model, check with TLC and prove with TLAPS.

## 1. Inventory

State is in PostgreSQL unless said otherwise. A component's operations are the exported functions of
its services; they interact through shared rows, through `prisma.$transaction`, and through events
published in memory after a commit.

| Component | State it keeps | Operations | Hard behaviour | What makes it correct |
|---|---|---|---|---|
| Idempotency keys (`lib/idempotency.ts`) | `idempotency_keys`: status 0 in flight, payload hash, body, expiry | lookup, claim, complete, cleanup | racing claims, expiry against retry, crash before completion, two clocks | one effect per key and window; a retry gets the first answer |
| Scheduled jobs (`lib/scheduledJob.ts`) | `scheduled_job_runs`: status, attempts, lease | ensure, claim, succeed, fail | crash in a job, lease that ends too early, retries | one runner at a time; honest, final outcomes; every job ends |
| Receipt delivery (`receipt.service.ts`, `lib/receiptDeliveryRecovery.ts`) | `receipt_delivery_attempts` and the key of the request | request, provider call, sweep | external call between two transactions, lost answers, crash, sweep racing a request | no second message; the two rows agree; nothing stuck |
| Branch stock and alerts (`lib/stockAlerts.ts`, `product.service.ts`, `sale.service.ts`) | `branch_inventory`, `inventory_adjustments` | sale, void, refund, adjustment | row locks, reads before writes, deadlocks, events after commit | ledger chains; whole transactions; alerts alternate |
| Sales (`sale.service.ts`) | `sales`, refund items, reversal rows, receipt status, customer totals | create, void, refund, attribute | stale versions, concurrent refunds, partial refunds, business day | quantities, status, receipt, stock and money explain each other |
| Customer debts (`debt.service.ts`, `lib/interestEngine.ts`) | `debts`, `debt_payments`, `customers.debt_balance` | create, pay, reverse, dispute, resolve, write off, charge interest | absolute balances computed from earlier reads, stale versions, midnight | no lost update, no double reversal or charge |
| Reminders (`debt.service.ts`, `lib/reminderScheduler.ts`) | `debt_reminders`, one row per debt, type and day | discover, remind by hand, claim, send, complete, back off | a message between two transactions, a retry raced by a retry, a sender that dies | one message a day; the debt untouched |
| Events and subscribers (`lib/events.ts`, `lib/stockAlertSubscriber.ts`) | in memory | publish, subscribe | fire and forget | only committed facts are told |
| Purchase orders, goods received, warehouse (`purchaseOrder.service.ts`, `goodsReceivedNote.service.ts`, `lib/warehouseStock.ts`) | `purchase_orders`, items, `goods_received_notes`, `warehouse_inventory` | draft, edit, send, confirm, cancel, receive, move in and out | deliveries at once, checks outside the transaction | status and stock explained by deliveries |
| Supplier payments and invoices (`purchaseOrderPayment`, `poAdvancePayment`, `poProformaInvoice`, `poCommercialInvoice`, `supplierPaymentInstruction` services) | payments, invoices and the chain of corrections, advances and reversals, instructions | pay, issue, correct, advance, reverse, archive, restore, revoke, set default | payments or corrections at once, status derived by due date | paid is what payments say; within the invoice; what is revoked stays so |
| Negotiation and secure links (`poSecureLink`, `poNegotiation*` services) | links, proposals, agreements, messages, attachments | regenerate, view, revoke, draft, submit, accept, reject, message | two parties at once, an order confirmed meanwhile | what was confirmed is what was shown; a proposal is agreed to once |
| Shipments and milestones (`poShipment*`, `poDeliveryMilestone` services) | shipments with status and arrival histories, milestones | create, advance, edit, move the window, attach, record | checks before the transaction, both parties | histories chain; terminal is final |
| Payroll, attendance, commission (`payroll`, `attendance`, `commission`, `employeeCompensation` services) | structures, days worked, records, adjustments | set structure, attend, correct, generate, pay one or many, reverse, adjust, attribute a sale | generation against correction, attribution against payment | approved hours are paid; commission is moved, never made |
| Expenses, recurring expenses (`expense`, `recurringExpense` services, `lib/recurrencePeriod.ts`) | expenses, schedules, runs | submit, approve, reject, pay, correct, attach, amend; sweep, claim, generate | overlapping sweeps, crashes, schedules amended meanwhile | one expense per period; paid expenses frozen |
| Authentication, sessions, codes, invitations (`auth`, `staffInvite`, `emailVerification` services, `lib/session.ts`, `lib/otp.ts`) | users, sessions, challenges, invites | sign up, log in, verify, refresh, log out, reset, accept | statements without a transaction, codes used twice, revocation against refresh | single use; revocation holds |
| Rate limits (`lib/rateLimitStore.ts`) | `rate_limit_counters` | count, sweep | windows ending, store outages | no more than the limit per window |
| Inbound mail (`resendInboundWebhook.*`) | event ids, messages, quarantine | webhook | repeated delivery, failure after acknowledgement | a mail becomes one message at most |
| Outbound e-mail, customers, master data, document numbers | rows with versions, logs, counters | create, edit, archive, send | unique indexes, versions | no duplicate, no lost edit |
| HTTP layer, rendering, storage | none | routing, formatting | none | not modelled |

How they interact. Every write that a client may repeat goes through an idempotency key; every
background task goes through a scheduled job. Sales move stock, debts, the status of receipts and,
when attributed, payroll adjustments. A purchase order is the root of deliveries, payments and
invoices on the owner's side, and of links, proposals, shipments and mails on the supplier's side.

## 2. Modules

| Module | Models |
|---|---|
| `OncePerWindow` | what an Idempotency-Key promises: work under a key is done at most once per window, and an answer is the answer of work that was done |
| `Idempotency` | the protocol of `lib/idempotency.ts` as the services use it; implements `OncePerWindow` |
| `ScheduledJob` | one row of `scheduled_job_runs` and the invocations of `runScheduledJob` that compete for it |
| `ReceiptDelivery` | `requestReceiptDelivery` and the recovery sweep over the attempt and the key |
| `BranchStock` | the stock rows of a branch, their locks, ledger, alerts and events |
| `Sales` | one sale from `createSale` to its last refund |
| `Debt` | one debt, its payments, interest and the cached balance |
| `Reminders` | extends `Debt`: the reminders sent beside everything else that happens to the debt |
| `PurchaseOrders` | one order from draft to settlement: deliveries, warehouse stock, invoices and corrections, payments |
| `SupplierPayments` | what is paid ahead of the goods: instructions, advances and reversals, and the payment status derived from all payments |
| `SupplierPortal` | the order as its supplier sees it: secure links, views, deadline, and the owner's steps that end a negotiation |
| `Shipments` | extends `SupplierPortal`: shipments, arrival windows, attachments, milestones |
| `Negotiation` | extends `Shipments`: proposals, agreements, messages and the derived status |
| `InboundMail` | extends `Negotiation`: the webhook that turns a supplier's mail into a message |
| `Payroll` | structures, attendance, a sale's commission, monthly records and the two ledgers that correct them |
| `Expenses` | the workflow, corrections, attachments and schedule of expenses |
| `RecurringExpenses` | extends `Expenses`: the worker that makes expenses of a schedule |
| `RateLimiter` | one counter of one limiter |
| `Access` | extends `RateLimiter`: one account, its sessions, codes, invitations and resets |
| `Sums` | the sum of a function over a finite set, as the modules add up money and quantities |
| `NoValue` | `None`, the absence of a row or of a value |
| `MC*` | the small instances TLC checks |
| `ClaimProofs` | theorems of `Idempotency`, `ScheduledJob`, and `RecurringExpenses` over `Expenses`: work is claimed by a row before it is done |
| `ReceiptPayrollProofs` | theorems of `ReceiptDelivery` and of `Payroll` |
| `StockProofs` | theorems of `BranchStock` and of `PurchaseOrders` |
| `MoneyProofs` | theorems of `Sales` and of `SupplierPayments` |
| `DebtProofs` | theorems of `Debt` and of `Reminders` |
| `NegotiationProofs` | theorems of the four modules from `SupplierPortal` to `InboundMail`, of their composition |
| `AccessProofs` | theorems of `Access` and of `RateLimiter` |
| `SumTheorems` | lemmas about `Sum`, which the modules that prove something about money or quantities extend |

Components that share a proof module share no state; it extends them together, which is why names
such as `supplierVars` and `SupplierSpec` tell the components apart.

How a model corresponds to the code:

* A request is a process with a `pc`. What a handler reads before its transaction is kept in a
  snapshot (`snap`, `seen`) and used later as the code uses it. An atomic action is one SQL
  statement, or one transaction when a row lock or a version makes its statements act as one; where
  unlocked reads, an external call, a second transaction or a publication come in between, there is
  an action for each (`FindRow`/`MoveLine`, `MarkSending`/`Send`/`Resolve`, `SweepRead`/`SweepWrite`,
  `Commit`/`Publish`).
* READ COMMITTED is modelled by `lock`: a write takes the lock of its row until the transaction
  ends, a read takes none and sees what is committed. A rollback undoes drafts, locks and claims.
  An UPDATE of several rows sees those committed as it starts: where that matters, finding the rows
  is an action of its own (`FindLinks`, `FindOthers`, `FindSessions`, `ClaimReset`), and what was
  found is written once nobody else holds it, if it is still what the WHERE asks for.
* A foreign key takes the row it refers to FOR KEY SHARE. That waits for a FOR UPDATE, and not for
  a plain UPDATE. Hence `OrderFree`: `recordPurchaseOrderPayment` holds the order FOR UPDATE from
  `Match` to `Pay`, and an invoice or a delivery, whose row refers to the order
  (`prisma/migrations`, the REFERENCES "purchase_orders" of `po_commercial_invoices`,
  `po_proforma_invoices` and `goods_received_notes`), cannot be inserted in between although
  `issueCommercialInvoice` takes no lock of its own. Hence also `ResetEndsAll` (section 4): a reset
  updates the users row, which does not keep a login from inserting a session.
* An optimistic guard (`updateMany ... where version`) is a guard on the committed version. Clients
  only send versions they can have been shown.
* A crash kills what the process was doing; PostgreSQL rolls its transactions back; committed rows
  stay.
* The procurement, payroll, expense and access modules share one form: `req[c]` is the request that
  caller `c` has in flight, with what was read for it. `Ask...` or `Compose` makes the checks a
  handler makes outside its transaction, the actions that follow commit, and `Abandon` is an early
  return, a lost race or a crash. `workload`, chosen in `Init` and never changed, says which
  operations a behaviour is about and how many requests there are; the code never reads it.
* Names are those of the source where TLA+ allows it. `PROJECT.json` maps each definition to lines.
* Each module that models code contains a few definitions commented `Bug:`: plausible mistakes in
  the definition that follows. With the definition replaced by the mistake, the property named
  beside it in `PROJECT.json` fails; nothing else uses them.

What the modules leave to each other: keys of sales, debts and payments are `Idempotency`'s, the
cron slots of sweeps are `ScheduledJob`'s; how sale lines lock stock is `BranchStock`'s, while `Sales`
has one transaction move all lines; receipt status is moved in `Sales`, receipts are delivered in
`ReceiptDelivery`; the sale of `Payroll` is one that `Sales` made; invoices are issued and settled by
the environment in `SupplierPayments` and by requests in `PurchaseOrders`.

## 3. Runs

| Run | Instance and bounds | Shows |
|---|---|---|
| `idempotency` | 2 requests, 2 keys (one transactional, one split), 2 payloads, TTL 1, clock to 2 | effects are spaced; every request settles; `OncePerWindow` is implemented |
| `scheduled_job` | 3 invocations, 2 attempts, lease 2, 2 crashes, 1 refused completion, unbounded time | one runner; final outcomes; the job ends |
| `receipt_delivery` | 2 requests (one may be slow), 3 keys, staleness 1, 2 crashes or aborted sweeps | one message per key; "unknown" said only of attempts whose sender is gone; nothing left sending |
| `branch_stock` | 2 jobs of 6 plans, 3 products, 2 openings of the alert levels, 1 edit, 1 crash | the ledger chains; alerts alternate; requests wait in a circle only when they list products in different orders |
| `sales` | 3 requests, 2 lines (2 and 1 units), versions 0 to 2 | nothing over-returned; status and stock explained |
| `debt` | 2 requests at a time, amounts 1 and 2, 4 versions, 3 days, both policies; or 2 senders, 3 calls and one payment | balances, reversals, interest, disputes; one message a day |
| `purchase_orders` | 2 callers, 4 requests, 2 lines, 2 orders, all eleven operations | paid is what the payments say; one correction each; what a payment was matched against stands when it commits |
| `supplier_payments` | 2 callers, 3 requests, 2 instructions, amounts 1 and 2, 2 days | advances and reversals stay within what they are of; what is revoked stays so |
| `payroll` | 2 callers, 2 employees, 2 periods of a day, 3 structures, 4 workloads of 3 or 4 requests | one structure per day; approved hours are paid; commission is conserved; reversals are bounded |
| `negotiation` | 2 callers, an order of 2 lines, 3 products, 4 offers, 3 mails, 9 workloads of 3 to 5 requests | terms confirmed as shown; submitted proposals fixed; one agreement each; histories chain; a mail is one message |
| `expenses` | 2 requests or sweeps at a time, 6 days, weeks and months of 2 days, 7 workloads | one expense per period; rolling schedules keep their anchor; paid expenses frozen |
| `access` | 2 requests at a time, 2 passwords, 1 device, lock after 2, 3 logins a window, 8 workloads of 5 to 7 requests | codes, links and refresh tokens used once; revocation holds; windows bounded |

Why the bounds are enough. Rows of different keys, jobs, sales or debts share nothing in these
components, so one of each is representative (two keys where kinds of endpoint differ; two or three
products where lock order matters). Every race here is between two parties over one row; the third
request or invocation is for what a winner and a loser leave to a newcomer. A TTL, a staleness
window or a lease of one or two ticks has all the cases of a longer one: before, at and after its
end. Four versions of a debt allow a payment, its reversal, a dispute and what follows them. A
workload names the operations that touch the same rows: two that share none cannot disturb each
other, and three to five requests, two at a time, let a third find what a winner and a loser left.
Two lines or products are needed for whole-transaction properties, two periods for what one month
does to the next, six days for two occurrences of a fortnightly schedule. Models end
in an explicit `Quiescent` step when every request is settled and bounds are reached, so that
TLC still reports every other deadlock. Bounds on the environment (`MaxTime`, `MaxCrashes`,
`MaxFaults`, `MaxEdits`, `MaxVersion`, `MaxDay`, `MaxRequests`, `MaxTries`, `MaxWindows`, `MaxOutages`,
the numbers of a workload) only stop ticks, faults, edits and new requests, never the code. `Narrow`
is the one bound on a composition: in the behaviours of `Reminders` in which reminders are sent, the
debt receives only payments, at most `MaxPayments`, one at a time; in the others it receives
everything. Symmetry is over callers and employees, in runs without liveness.

Fairness. `WF` of a request's own steps: Node runs the continuations of promises it holds and
PostgreSQL grants a free lock. `WF` of `Sweep`, `RunScheduledJob` and `Tick`: cron fires again and
time passes. Never of a lookup (clients need not come), of a failure or of a crash. `JobEnds` needs
the job to be invoked again; whether each scheduler does so is the schedulers' matter.

The modules from `PurchaseOrders` on claim no liveness: their requests are transactions that end by
themselves, and what should happen eventually (a slot sent, a run reclaimed, a mail kept) is exactly
what section 4 shows the code does not promise.

Assumptions a reader should question. `WorkFitsLease` (no job outlives its 5 minute lease) is a
constant, TRUE in `scheduled_job`. `Slow` names the requests that may take longer than the staleness
window: `UnknownMeansGone` is claimed of the others, the remaining properties of all.

Each run checks the few properties that are hardest to keep. The modules hold more: a type invariant
each, and properties that follow the same hazards (`RowsPaired`, `SuccessEarned`, `AlertsTruthful`,
`StatusExplained`, `StockExplained`, `StatusEarned`, `PaidStaysPaid`, `RecordsKept`, `ReadOnce`,
`AgreedWhole`, `ConclusionStays`, `TerminalFrozen`, `DecidedOnce`, `PostedAmountKnown` and others).
Those that have theorems are in section 5; the rest can be added to the configuration of their module
and hold on the same instances.

`Settled` treats an order of free goods as the code does: a unit cost may be 0
(`purchaseOrder.schema.ts:9`), such an order owes nothing from the start, and its status is still
"unpaid" as nothing was paid.

## 4. What the models disagree with

`PROJECT.json` lists forty-one disagreements between the code and what its comments, messages or schema
say, each with the line of both. Nearly all have one of six causes:

* a check made before the transaction and not repeated in it (`OneDraft`, `SubmittedFilesFixed`,
  `NotOverShipped`, `CancelledTakesNoFile`, `NoLinkAfterTerms`, `NegotiationOver`, `FilesWithinMax`,
  `StartFixed`, `OnePendingInvite`, `NotReused`, `LandsInTheOpen`, `NoneOncePaid`);
* a value computed from rows that nothing locks (`OneIssued`, `OneActiveLink`, `RevisionsUnique`,
  `TotalIsSum`, `FirstViewOnce`, `LockReached`, `PaidUntouched`, `EffectiveNonNegative`,
  `CollisionsSurvived`);
* an update by id where the neighbouring operations compare a status or version
  (`EndedStaysEnded`, `StaleActionRefused`, `RevokedNeverDefault`, `BackoffKept`);
* work claimed by a process that dies (`ClaimsEnd`, `NoOrphanSlot`, `RunsReclaimed`, `MailKept`) or
  two statements that should be one transaction (`InvalidatedTogether`, `NoTokenAfter`);
* rows that come while a statement is under way, which it does not see (`ResetEndsAll`: a login
  opens its session between a reset's UPDATE of the sessions and its COMMIT, and keeps it);
* a derived value left behind by one of its writers (`BalanceInSync`, `RemainingIsOwed`,
  `RefundNetsToZero`) or a rule that computes something else than it says (`IntervalKept`,
  `EndDayReached`, `DraftStays`, which holds where the comment expects a way out of draft).

Each names a definition kept, with a comment, in the module concerned. To see the counterexample, put
it as the only INVARIANT (or PROPERTY, where it is an action formula) into the configuration of that
module's MC. The instances are those of section 3 except: `EndedStaysEnded` needs
`WorkFitsLease = FALSE`; `RefundNetsToZero` needs a sale of one line of two units for one cent;
`IntervalKept` a daily schedule of interval 2 swept on days 4 and 5; `EndDayReached` a daily schedule
that ends on day 4 and one caller that sweeps on each of days 0 to 7 of 8; `StartFixed` an amendment of
`start` and a sweep. Two have
no definition because no state shows them: the attendance key that stores an empty payload and
compares the whole input, and a comment that calls shipments unbuilt.

Three properties that nothing in the code claims fail in the same ways: the windows of arrival of a
shipment need not chain (`WindowsChained`, the old window is read before the transaction), wrong codes
that overlap count past their maximum (`TriesBounded`), and a sale attributed anew between the
calculations of two employees counts in the commission of both (`SaleCountedOnce`).

Two more were met and are listed as hazards only: the sweep overwrites a key that a slow request
completed in between (`receiptDeliveryRecovery.ts:79-101`), and reversal rows stay with the former
salesperson when a partially refunded sale is attributed anew (`sale.service.ts:1030`).

## 5. Proofs

TLAPS proves the following for every value of the constants, under the named `ASSUME` of each module,
which TLC evaluates on the instances. Every safety property of every run, invariant or action property,
is among them.

* `Idempotency` (`ClaimProofs`): `TypeInvariant`; `ProtocolCorrect` (`[]ProtocolInvariant`); from it
  `EffectsAreSpaced`, `AnswersAreFaithful`, `EffectsAreRecorded`; and `Implementation`, that the
  protocol implements `OncePerWindow`. `EffectsSpaced` alone is not inductive: whoever is about to take
  effect must follow every earlier effect (`ClaimsFollow`), which rests on exclusive claims
  (`LocksHeld`, `Exclusive`) and on the row of an effect staying until it expires (`RowsKept`).
* `ScheduledJob` (`ClaimProofs`), assuming `WorkFitsLease`: `JobTypeInvariant`, `SingleRunner`,
  `AttemptsAccounted`, `OutcomeIsFinal`, `EndedForGood`, from `JobInvariant`: the live invocation owns a
  running row whose lease is not over, and every attempt but the owner's is accounted for by a crash or
  a refused completion.
* `ReceiptDelivery` (`ReceiptPayrollProofs`): `TypeInvariant`, `NoKeyIsSentTwice`, `ReviewMeansGone`,
  `RecordsAreTrue`, `NothingIsResolvedTwice`, for any number of requests, keys, crashes and sweeps.
  `OneSendPerKey` needs to know that an attempt exists only beside the key that names its request
  (`KeyOwned`, `Paired`), so that whoever writes both writes its own, and how far each request is
  (`Progress`); `UnknownMeansGone` needs that a request that is not `Slow` is gone before its attempt is
  stale, and that what the sweep read of an attempt is still so or the request has ended (`SweepOK`).
* `BranchStock` (`StockProofs`): `LedgerIsChained`, `EpisodesAlternateAlways`,
  `CirclesNeedTwoOrdersAlways` and `TypeInvariant` (no quantity is ever negative), for any number of jobs, products, lines, edits of levels, deadlocks and
  crashes. The ledger is a chain because every transaction adds one: `StockInvariant` says that what an
  open transaction has to enter leads from the committed rows to its drafts (`Entered`), and its events
  from the committed flags to the drafted ones (`Raising`). A lock keeps the rows in between as they
  are; the adjustment, which reads without one, relies on the version: a row is never drafted under one
  it has had (`Drafted`), so a snapshot of the version the row still has is the row (`Snapped`).
  `ChainsJoin` and `AlternationsJoin` are the lemmas about the logs that this rests on. Circles need
  that a lock held is that of a line already passed (`LocksAreLines`): of a circle whose requests
  agree on an order, take the one that waits for the highest row; the holder of that row has passed it
  and waits for one at least as high, which can only be the same row, and that row it holds itself.
* `Sales` (`MoneyProofs`): `NeverReturnedTwice`, `StatusIsExplained`, `ReceiptIsFaithful`,
  `StockIsExplained`, `FinalStatusStays`, `SpentIsExplained`, `TypeInvariant`, for any number of
  requests, lines and quantities. `SalesInvariant` adds that what a request read under its lock is still
  the row and its refund items (`LockHeld`), because every other commit waits for that lock. The
  customer's balance is a sum over the sellers.
* `Debt` and `Reminders` (`DebtProofs`): `TypeInvariant`, `MoneyIsConserved`, `StatusIsExplained`,
  `PaymentsReversedOnce`, `DisputesAreHeld`, `NoPeriodIsChargedTwice`, `PaidIsExplained`, for any
  number of callers, amounts, rates and days. They rest on `DebtInvariant`: a snapshot whose version is still current
  equals the debt, so that the guard on the version turns what was checked on the snapshot into a fact
  about the debt, and every payment that was reversed has left its version 0, so that it cannot be
  claimed again. `ChargeInvariant` adds what has been charged up to which day; the number of whole
  periods in two stretches of days is no more than in both together. `PaidInvariant` adds that what is
  paid is the sum of the payment rows and also of the payments that stand, those not reversed: hence it
  is never negative. Of `Reminders`:
  `RemindersLeaveTheDebt`, that the debt with its reminders implements the debt alone, so that every
  theorem about it still holds (`DebtIsSoundBesideReminders`); and `OneMessageADayHolds`. One message a
  day is not inductive: `ReminderInvariant` adds that two calls never hold the slot of the same day
  (`OneHolder`), and that while one does, its row is pending and the provider took a message for that
  day only if this very call has sent it (`Known`).
* `NegotiationProofs`, of an order with its links, proposals, shipments and mails together, for any
  callers, offers and workloads: `EachIsAgreedOnce`, `HistoriesAreChains`, `MailsCountOnce`,
  `WhatIsSubmittedStays`, `TermsAreThoseShown`, `TerminalStays`. Requests read, check and write in
  separate steps; `NegotiationInvariant` says what each may still rely on (`RequestsOK`): the rows its
  transaction holds are as it left them, and the terms it was shown are those of their version. Each
  operation is shown to leave that to the requests of the others (`OrderOnward`, `ProposalsOnward` and
  the like), so that the proof has one lemma per operation and none per pair of operations.
* `Access` and `RateLimiter` (`AccessProofs`): `TicketsServeOnce`, `RevocationIsFinal`,
  `LoginsAreBounded`, `AccessTypes`, for any number of requests at a time. `RevocationIsFinal` says of
  a reset what the code keeps: no access token stays current, and of the sessions only those live that
  were opened after the reset had looked for them. `AccessInvariant` adds that
  the account and the sessions a request found are still there and no older than it read them (`Holds`),
  and that no access token is ahead of the account (`Behind`); `LimiterInvariant` that a window lets
  through no more than its counter has counted.
* `RecurringExpenses` over `Expenses` (`ClaimProofs`), for any clients and sweeps at once:
  `RecurringInvariantHolds`, `OncePerPeriodHolds`, `PaidFrozenHolds`, `DecidedOnceHolds`,
  `PostedAmountKnownHolds`. A sweep reads a schedule, then claims a run for an occurrence, then makes
  the expense, in separate steps. `RecurringInvariant` says what each request may still rely on
  (`Relies`): an expense that still has the version a client was shown may still be edited, the run a
  worker claimed is still running, and nobody else holds it; every expense of a schedule has its run, so
  that a second claim of the period meets the first. `RollingAnchoredHolds` needs one hypothesis more,
  `DatesStay`: amendments leave interval, start and next occurrence alone, for the code lets an
  amendment change the start under occurrences already planned (`StartFixed`, section 4).
  `AnchorInvariant` then keeps every next occurrence, and what a sweep read of it, on the start plus a
  number of whole intervals. That a schedule is created with no next occurrence or with one of its own
  is part of the hypothesis; the instance satisfies both.
* `PurchaseOrders` (`StockProofs`), for any requests, lines, quantities and amounts: `SettledAlways`,
  `CorrectionsFormAChain`, `MatchStandsWhenPaid`. `PurchaseInvariant` adds what a request carries while
  it waits (`Carries`); that what a payment has matched still stands until it commits, because all that
  could change it waits for the order (`HolderVerified`); and that a corrected document is superseded,
  by one correction, while one document of each kind that was ever issued still is (`Corrected`): a
  correction starts from an issued document only, which the second of two no longer finds. What was paid is the sum over the payments, which each
  payment lengthens by one. The same invariant contains `StockExplained`: shelves and warehouse hold
  what the deliveries brought and the moves took (`ShelvesAreExplained`).
  `StatusIsEarned` needs one thing more (`EarnedInvariant`): a delivery in flight brings something.
  That an order has at least one line is an assumption, as src/src/validation/purchaseOrder.schema.ts:36
  demands.
* `SupplierPayments` (`MoneyProofs`): `WithinInvoiceHolds`, `RevokedForGood`. `SupplierInvariant` says
  that one request at a time holds the lock of an invoice, and that while it does the advances of that
  invoice, less what was taken back, come to no more than what it read: only reversals go on beside it,
  and they take back. `PaidAhead` states the sum over the rows of a table, so that appending a row or
  changing one moves it as `SumTheorems` says.
* `Payroll` (`ReceiptPayrollProofs`): `OneStructurePerDayHolds`, `ApprovedHoursPaidHolds`,
  `CommissionConservedHolds`, `ReversalsBoundedHolds`. `PayrollInvariant` says what a request holds
  stays true of tables that never lose a record, an approved day or a structure (`Kept`). A sale moved
  between employees adds a number to one record and its opposite to another, which leaves the sum over
  all. What a reversal read under its lock is what the record comes to until it commits (`LockedSum`),
  because other reversals, adjustments and attributions wait for that lock.
  `RecordsAreKept`: a record keeps the amount it was calculated with, and once paid stays paid with the
  receipt of that amount; every write makes a record, pays it, adds to its ledger or moves commission.
* `SumTheorems`: what the sum of a function over a finite set is when an element is taken out,
  a value changes or a row is appended. `Sum` is a fold, and induction over sets is out of reach as a
  theorem of the library: each lemma takes a smallest set for which it fails, subsets of a finite set
  being well founded, and shows that there is none.

The assumptions these proofs need of the constants say what the code takes for granted: that the values
meaning "nothing" are none of the rows (`NoneIs...`), that plans, asks and offers have the shape the
validators let through, that the opening quantities are numbers, that a behaviour starts with proposals
that are drafted or submitted but not resolved (`StartAssumption`), and that windows, limits and bounds
are numbers.

Only model-checked:

* liveness (`EveryRequestSettles`, `JobEnds`, `SendingEnds`), which is out of the prover's
  reach, as is `ENABLED`;
* what filters a sequence (`AllOrNothing` and `PublishedOnce` of `BranchStock`): `SelectSeq` is
  recursive in the library and beyond the provers. That is why the ledger and the alerts of
  `BranchStock` are stated through the latest entry of a product (`Latest`), which is a maximum over
  indices, and not through the filtered sequence.

## 6. Plan

Done, in this order, the most central first: `Idempotency` (every write goes through it),
`ScheduledJob` (every background task does), `ReceiptDelivery` (composes both kinds of recovery),
`BranchStock` and `Sales` (the program's purpose), `Debt` with `Reminders`; then procurement
(`PurchaseOrders`, `SupplierPayments`, and the supplier's side from `SupplierPortal` to `InboundMail`),
`Payroll`, `Expenses` with `RecurringExpenses`, and `Access` with `RateLimiter`.

Modules left: customers created by phone number at once and their lifecycle; outbound e-mail with its
retry and log; the order in which warehouse rows are locked (as `BranchStock` does for branches); the
subscriber that turns stock alerts into notifications.

Abstract specifications: `OncePerWindow` and, for `Reminders`, `Debt` itself (done); a versioned row
(change only what was seen), implemented by `Sales`, `Debt` and `Expenses`; a ledger whose entries
chain, implemented by `BranchStock`, shipments and the warehouse.

Theorems worth proving next: `StockExplained` across `Sales` and `BranchStock` together; that `Sales`,
`Debt` and `Expenses` each implement a versioned row.

## 7. Not modelled, and why

Formatting and rendering, pagination, audit rows, validation of shapes, time zone arithmetic, JWT
and password hashing (no state, or libraries); the providers for WhatsApp, e-mail and storage
(external: their answers are nondeterministic choices). Percentages and currencies are amounts in
cents. The business day is a two-valued flag in `Sales` and a counter in `Debt`, `Payroll` and
`RecurringExpenses`, where a week and a month are a fixed number of days. Events are followed to their
publication, not into their subscribers. Outbound e-mail is best effort, with one retry and a log
row that nothing reads back. Customers, branches, departments, positions, employees, tags, payment
methods and suppliers are rows with a version that are created, edited and archived; the pattern is
the one checked in `Sales` and `Expenses`. Document numbers are counters incremented inside the
transaction that uses them. Compensation policies are texts, each version replacing the
one before, with acknowledgements; the bulk endpoints
of payroll repeat the modelled operation per employee under keys that are `Idempotency`'s.
