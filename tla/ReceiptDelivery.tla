--------------------------- MODULE ReceiptDelivery ---------------------------
(***************************************************************************)
(* Delivery of one receipt: requestReceiptDelivery in                      *)
(* src/services/receipt.service.ts and the sweep of                        *)
(* src/lib/receiptDeliveryRecovery.ts over the same two rows, the delivery *)
(* attempt and the idempotency key of its request.                         *)
(* A request commits a claim and a "pending" attempt, marks the attempt    *)
(* "sending", calls the provider outside any transaction, then resolves    *)
(* both rows in one. The sweep resolves what stayed "sending" too long.    *)
(* Keys do not expire here: Idempotency has their life after resolution.   *)
(***************************************************************************)
EXTENDS NoValue, Integers, FiniteSets

CONSTANTS
  Requests,   \* POST /receipts/:id/deliver, retries included
  Keys,       \* (actor, Idempotency-Key) combinations
  PrintKeys,  \* the keys sent with channel pos_print; the others whatsapp
  Stale,      \* STALENESS_MS, in ticks
  Slow,       \* requests that may outlive STALENESS_MS; the others end in time
  CanCheck,   \* the provider implements checkDeliveryStatus
  MaxFaults   \* bound on crashes and aborted sweeps

ASSUME DeliveryAssumption ==
  /\ PrintKeys \subseteq Keys
  /\ Stale \in Nat
  /\ Slow \subseteq Requests
  /\ CanCheck \in BOOLEAN
  /\ MaxFaults \in Nat
  /\ None \notin Requests

Resolutions == {"success", "failed", "unknown"}
Attempt == [number: Nat, status: {"pending", "sending"} \cup Resolutions, age: 0..Stale + 1]
KeyRow  == [by: Requests, body: {"inflight"} \cup Resolutions]

ASSUME NoneIsNoRow == None \notin Attempt /\ None \notin KeyRow

VARIABLES
  ask,       \* ask[r]: the key r was sent with
  key,       \* key[k]: the row of idempotency_keys, or None
  lock,      \* lock[k]: the request whose open transaction wrote row k, or None
  attempt,   \* attempt[r]: the row of receipt_delivery_attempts r created, or None
  pc,        \* pc[r]: how far r is
  number,    \* number[r]: the attempt_number r computed
  provider,  \* provider[r]: what the provider did with r's message
  returned,  \* returned[r]: what send() told r
  sweep,     \* the recovery sweep
  faults     \* crashes and aborted sweeps so far

vars == <<ask, key, lock, attempt, pc, number, provider, returned, sweep, faults>>

Claiming == {"counted"}
Owning   == {"created", "sending", "sent", "resolved"}
Live     == {"missed"} \cup Claiming \cup Owning
Settled  == {"replied", "conflict", "collided", "failed", "crashed"}

KeyOf(r)    == ask[r]
Printed(r)  == KeyOf(r) \in PrintKeys
Attempts    == {r \in Requests : attempt[r] # None}
Goto(r, label) == pc' = [pc EXCEPT ![r] = label]

AtRest == [pc |-> "idle", todo |-> {}, cur |-> None, verdict |-> "unknown", inflight |-> FALSE]

WithStatus(a, s) == [number |-> a.number, status |-> s, age |-> a.age]

------------------------------------------------------------------------------
Init ==
  /\ ask \in [Requests -> Keys]
  /\ key = [k \in Keys |-> None]
  /\ lock = [k \in Keys |-> None]
  /\ attempt = [r \in Requests |-> None]
  /\ pc = [r \in Requests |-> "idle"]
  /\ number = [r \in Requests |-> 0]
  /\ provider = [r \in Requests |-> "none"]
  /\ returned = [r \in Requests |-> "nothing"]
  /\ sweep = AtRest
  /\ faults = 0

(* getReplayedResponse, in the controller.                                 *)
Lookup(r) ==
  /\ pc[r] = "idle"
  /\ \/ key[KeyOf(r)] = None /\ Goto(r, "missed")
     \/ /\ key[KeyOf(r)] # None
        /\ key[KeyOf(r)].body = "inflight"
        /\ Goto(r, "conflict")
     \/ /\ key[KeyOf(r)] # None
        /\ key[KeyOf(r)].body # "inflight"
        /\ Goto(r, "replied")
  /\ UNCHANGED <<ask, key, lock, attempt, number, provider, returned, sweep, faults>>

(* Bug: the attempt is created whoever holds the key.                      *)
FreeUnchecked(r) == TRUE

Free(r) == key[KeyOf(r)] = None

(* First transaction: claim the key, count the receipt's attempts.         *)
ClaimAndCount(r) ==
  /\ pc[r] = "missed"
  /\ lock[KeyOf(r)] = None
  /\ Free(r)
  /\ Goto(r, "counted")
  /\ lock' = [lock EXCEPT ![KeyOf(r)] = r]
  /\ number' = [number EXCEPT ![r] = Cardinality(Attempts) + 1]
  /\ UNCHANGED <<ask, key, attempt, provider, returned, sweep, faults>>

ClaimRefused(r) ==
  /\ pc[r] = "missed"
  /\ lock[KeyOf(r)] = None
  /\ ~Free(r)
  /\ Goto(r, "conflict")
  /\ UNCHANGED <<ask, key, lock, attempt, number, provider, returned, sweep, faults>>

NumberTaken(r) == \E s \in Attempts : attempt[s].number = number[r]

Unlock(r) == [k \in Keys |-> IF lock[k] = r THEN None ELSE lock[k]]

(* The attempt is inserted and the first transaction commits.              *)
Create(r) ==
  /\ pc[r] = "counted"
  /\ ~NumberTaken(r)
  /\ Goto(r, "created")
  /\ attempt' = [attempt EXCEPT ![r] = [number |-> number[r], status |-> "pending", age |-> 0]]
  /\ key' = [key EXCEPT ![KeyOf(r)] = [by |-> r, body |-> "inflight"]]
  /\ lock' = Unlock(r)
  /\ UNCHANGED <<ask, number, provider, returned, sweep, faults>>

(* @@unique([receipt_id, attempt_number]) refuses the insert. Postgres has *)
(* then aborted the transaction: the loop's next create is refused too,    *)
(* with another code, and that error is thrown.                            *)
CreateCollides(r) ==
  /\ pc[r] = "counted"
  /\ NumberTaken(r)
  /\ Goto(r, "collided")
  /\ lock' = Unlock(r)
  /\ UNCHANGED <<ask, key, attempt, number, provider, returned, sweep, faults>>

MarkSending(r) ==
  /\ pc[r] = "created"
  /\ ~Printed(r)
  /\ Goto(r, "sending")
  /\ attempt' = [attempt EXCEPT ![r] = WithStatus(attempt[r], "sending")]
  /\ UNCHANGED <<ask, key, lock, number, provider, returned, sweep, faults>>

(* The provider takes the message or refuses it, and its answer may be     *)
(* lost on the way: send() then throws although the message is out.        *)
Send(r) ==
  /\ pc[r] = "sending"
  /\ Goto(r, "sent")
  /\ \E did \in {"accepted", "refused"}, told \in {"ok", "error"} :
       /\ did = "refused" => told = "error"
       /\ provider' = [provider EXCEPT ![r] = did]
       /\ returned' = [returned EXCEPT ![r] = told]
  /\ UNCHANGED <<ask, key, lock, attempt, number, sweep, faults>>

(* Bugs: a status that is not in the enum; a swallowed provider error.     *)
FinalStatusMisspelt(r) == IF returned[r] = "error" THEN "failed" ELSE "delivered"
FinalStatusBlind(r)    == "success"

FinalStatus(r) == IF returned[r] = "error" THEN "failed" ELSE "success"

(* Bug: the attempt alone is resolved, the key is left to the controller.  *)
ResolveAttemptOnly(r, s) ==
  /\ attempt' = [attempt EXCEPT ![r] = WithStatus(attempt[r], s)]
  /\ UNCHANGED key

(* Both rows resolved in one transaction, which checks neither.            *)
ResolveBoth(r, s) ==
  /\ attempt' = [attempt EXCEPT ![r] = WithStatus(attempt[r], s)]
  /\ key' = [key EXCEPT ![KeyOf(r)] = [by |-> key[KeyOf(r)].by, body |-> s]]

(* Second transaction; a print has nothing to send and comes straight here.*)
Resolve(r) ==
  /\ \/ pc[r] = "sent"
     \/ pc[r] = "created" /\ Printed(r)
  /\ Goto(r, "resolved")
  /\ ResolveBoth(r, FinalStatus(r))
  /\ UNCHANGED <<ask, lock, number, provider, returned, sweep, faults>>

Respond(r) ==
  /\ pc[r] = "resolved"
  /\ Goto(r, "replied")
  /\ UNCHANGED <<ask, key, lock, attempt, number, provider, returned, sweep, faults>>

(* The request throws: no phone number to send to, a query that fails.     *)
Fail(r) ==
  /\ pc[r] \in Live
  /\ Goto(r, "failed")
  /\ lock' = Unlock(r)
  /\ UNCHANGED <<ask, key, attempt, number, provider, returned, sweep, faults>>

(* Bug: the sweep also takes attempts that are only pending or long done.  *)
StuckWhatever == {r \in Attempts : attempt[r].age > Stale}

(* Bug: the sweep looks for the status attempts are created with.          *)
StuckPending == {r \in Attempts : attempt[r].status = "pending" /\ attempt[r].age > Stale}

(* Bug: the sweep forgets its staleness window.                            *)
StuckAtOnce == {r \in Attempts : attempt[r].status = "sending"}

Stuck == {r \in Attempts : attempt[r].status = "sending" /\ attempt[r].age > Stale}

(* recoverStuckDeliveryAttempts reads its list once.                       *)
SweepStart ==
  /\ sweep.pc = "idle"
  /\ Stuck # {}
  /\ sweep' = [AtRest EXCEPT !.pc = "next", !.todo = Stuck]
  /\ UNCHANGED <<ask, key, lock, attempt, pc, number, provider, returned, faults>>

(* checkDeliveryStatus, by a provider that has it and remembers.           *)
Verdicts(r) ==
  {"unknown"} \cup
  (IF ~CanCheck \/ provider[r] = "none" THEN {}
   ELSE IF provider[r] = "accepted" THEN {"success"} ELSE {"failed"})

SweepCheck(r) ==
  /\ sweep.pc = "next"
  /\ r \in sweep.todo
  /\ \E v \in Verdicts(r) :
       sweep' = [sweep EXCEPT !.pc = "checked", !.cur = r, !.verdict = v, !.todo = @ \ {r}]
  /\ UNCHANGED <<ask, key, lock, attempt, pc, number, provider, returned, faults>>

(* resolveAttempt reads the paired key, outside any transaction.           *)
SweepRead ==
  /\ sweep.pc = "checked"
  /\ sweep' = [sweep EXCEPT !.pc = "read", !.inflight =
                 /\ key[KeyOf(sweep.cur)] # None
                 /\ key[KeyOf(sweep.cur)].body = "inflight"]
  /\ UNCHANGED <<ask, key, lock, attempt, pc, number, provider, returned, faults>>

(* It then writes both rows, or the attempt alone, and checks nothing more.*)
SweepWrite ==
  /\ sweep.pc = "read"
  /\ IF sweep.inflight
       THEN ResolveBoth(sweep.cur, sweep.verdict)
       ELSE /\ attempt' = [attempt EXCEPT ![sweep.cur] = WithStatus(attempt[sweep.cur], sweep.verdict)]
            /\ UNCHANGED key
  /\ sweep' = [AtRest EXCEPT !.pc = "next", !.todo = sweep.todo]
  /\ UNCHANGED <<ask, lock, pc, number, provider, returned, faults>>

SweepEnd ==
  /\ sweep.pc = "next"
  /\ sweep.todo = {}
  /\ sweep' = AtRest
  /\ UNCHANGED <<ask, key, lock, attempt, pc, number, provider, returned, faults>>

(* One query or one status check that throws ends the whole sweep.         *)
SweepAbort ==
  /\ faults < MaxFaults
  /\ sweep.pc # "idle"
  /\ sweep' = AtRest
  /\ faults' = faults + 1
  /\ UNCHANGED <<ask, key, lock, attempt, pc, number, provider, returned>>

(* The server process dies with every request and the sweep in it.         *)
Crash ==
  /\ faults < MaxFaults
  /\ \/ sweep.pc # "idle"
     \/ \E r \in Requests : pc[r] \in Live
  /\ pc' = [r \in Requests |-> IF pc[r] \in Live THEN "crashed" ELSE pc[r]]
  /\ lock' = [k \in Keys |-> None]
  /\ sweep' = AtRest
  /\ faults' = faults + 1
  /\ UNCHANGED <<ask, key, attempt, number, provider, returned>>

Older(a) == [number |-> a.number, status |-> a.status,
             age |-> IF a.age <= Stale THEN a.age + 1 ELSE a.age]

(* Time passes for requested_at.                                           *)
Tick ==
  /\ \E r \in Attempts : attempt[r].age <= Stale
  /\ \A r \in Attempts \ Slow : pc[r] \in Owning \ {"resolved"} => attempt[r].age < Stale
  /\ attempt' = [r \in Requests |-> IF attempt[r] = None THEN None ELSE Older(attempt[r])]
  /\ UNCHANGED <<ask, key, lock, pc, number, provider, returned, sweep, faults>>

(* Every request is settled and the sweep has nothing to do.               *)
Quiescent ==
  /\ \A r \in Requests : pc[r] \in Settled
  /\ UNCHANGED vars

Deliver(r) ==
  \/ ClaimAndCount(r) \/ ClaimRefused(r) \/ Create(r) \/ CreateCollides(r)
  \/ MarkSending(r) \/ Send(r) \/ Resolve(r) \/ Respond(r)

Sweep == SweepStart \/ (\E r \in Requests : SweepCheck(r)) \/ SweepRead \/ SweepWrite \/ SweepEnd

Next ==
  \/ \E r \in Requests : Lookup(r) \/ Deliver(r) \/ Fail(r)
  \/ Sweep
  \/ SweepAbort
  \/ Crash
  \/ Tick
  \/ Quiescent

Spec == Init /\ [][Next]_vars

(* Node runs the promises it started, cron starts the sweep every five     *)
(* minutes, time passes.                                                   *)
FairSpec ==
  /\ Spec
  /\ \A r \in Requests : WF_vars(Deliver(r))
  /\ WF_vars(Sweep)
  /\ WF_vars(Tick)

------------------------------------------------------------------------------
SweepState == [pc: {"idle", "next", "checked", "read"}, todo: SUBSET Requests,
               cur: Requests \cup {None}, verdict: Resolutions, inflight: BOOLEAN]

TypeOK ==
  /\ ask \in [Requests -> Keys]
  /\ key \in [Keys -> KeyRow \cup {None}]
  /\ lock \in [Keys -> Requests \cup {None}]
  /\ attempt \in [Requests -> Attempt \cup {None}]
  /\ pc \in [Requests -> {"idle"} \cup Live \cup Settled]
  /\ number \in [Requests -> Nat]
  /\ provider \in [Requests -> {"none", "accepted", "refused"}]
  /\ returned \in [Requests -> {"nothing", "ok", "error"}]
  /\ sweep \in SweepState
  /\ faults \in 0..MaxFaults

Resolved(r) == attempt[r] # None /\ attempt[r].status \in Resolutions

(* Whatever is retried, crashes or is swept, the provider is called at     *)
(* most once for a key: the customer is not messaged twice for one click.  *)
OneSendPerKey ==
  \A r, s \in Requests :
    provider[r] # "none" /\ provider[s] # "none" /\ KeyOf(r) = KeyOf(s) => r = s

(* A whatsapp attempt recorded as a success, and a key that will replay a  *)
(* success, stand for a message the provider did accept.                   *)
SuccessEarned ==
  /\ \A r \in Attempts : attempt[r].status = "success" /\ ~Printed(r) => provider[r] = "accepted"
  /\ \A k \in Keys \ PrintKeys :
       key[k] # None /\ key[k].body = "success" => provider[key[k].by] = "accepted"

(* The claim and the attempt are resolved together or not at all: no crash *)
(* between the writes of receipt.service.ts:579-588 or of the sweep leaves *)
(* one of the two rows dangling.                                           *)
RowsPaired ==
  \A r \in Attempts :
    /\ key[KeyOf(r)] # None
    /\ key[KeyOf(r)].by = r
    /\ Resolved(r) <=> key[KeyOf(r)].body # "inflight"

(* Manual review is asked for only when the request that sent is gone, and *)
(* what a retry is answered is what the attempt's row says. (Neither holds *)
(* of a slow request: the sweep and the request then overwrite each other.)*)
UnknownMeansGone ==
  \A r \in Attempts \ Slow :
    /\ attempt[r].status = "unknown" => pc[r] \in {"failed", "crashed"}
    /\ Resolved(r) => key[KeyOf(r)].body = attempt[r].status

(* What a request resolved in time is left alone afterwards: no attempt    *)
(* and no key of it is resolved twice, whenever the sweep looked.          *)
ResolvedOnce ==
  [][\A r \in Requests \ Slow : Resolved(r) =>
       /\ attempt'[r].status = attempt[r].status
       /\ key'[KeyOf(r)] = key[KeyOf(r)]]_vars

(* An attempt whose message may be out does not stay "sending" for ever.   *)
SendingEnds ==
  \A r \in Requests :
    (attempt[r] # None /\ attempt[r].status = "sending") ~> Resolved(r)

(* receipt.service.ts:385-402: the window in which a crash orphans the     *)
(* claim is closed: a key in flight is resolved in the end.                *)
ClaimsEnd ==
  \A k \in Keys :
    (key[k] # None /\ key[k].body = "inflight") ~> (key[k] # None /\ key[k].body # "inflight")

(* receipt.service.ts:466-471: two different keys that compute the same    *)
(* attempt number do not make one of the two requests fail.                *)
CollisionsSurvived == \A r \in Requests : pc[r] # "collided"
==============================================================================
