---------------------------- MODULE ScheduledJob -----------------------------
(***************************************************************************)
(* The durable job primitive of src/lib/scheduledJob.ts: one row of        *)
(* scheduled_job_runs (one job_key: an occurrence of one scheduler) and    *)
(* the invocations of runScheduledJob that compete for it, from cron       *)
(* ticks, boot-time catch-up and other processes. Rows share nothing, so   *)
(* one row is enough. Instants are kept as the time left until them, which *)
(* needs no bound on the clock: Elapsed is "leased_until < now()".         *)
(***************************************************************************)
EXTENDS NoValue, Integers

CONSTANTS
  Workers,       \* concurrent invocations of runScheduledJob for this key
  MaxAttempts,   \* max_attempts of the row
  Lease,         \* leaseMs, in ticks of the clock
  BackoffUnit,   \* the first backoff, 2 minutes in the code
  BackoffCap,    \* the largest backoff, 15 minutes in the code
  WorkFitsLease, \* TRUE: an invocation never outlives its lease
  MaxCrashes,    \* bound on process crashes
  MaxFaults      \* bound on database errors while completing

Elapsed == -1    \* a lease that is over, or none

Terminal == {"succeeded", "dead_letter"}

Status == {"pending", "running", "retry_wait"} \cup Terminal

ASSUME JobAssumption ==
  /\ MaxAttempts \in Nat \ {0}
  /\ Lease \in Nat \ {0}
  /\ BackoffUnit \in Nat \ {0}
  /\ BackoffCap \in 0..(8 * BackoffUnit)
  /\ WorkFitsLease \in BOOLEAN
  /\ MaxCrashes \in Nat
  /\ MaxFaults \in Nat
  /\ None \notin Status

VARIABLES
  status,    \* status of the row, None before the row exists
  attempts,  \* its attempts
  lease,     \* time left until leased_until, Elapsed once past or null
  wait,      \* time left until next_attempt_at
  stage,     \* stage[w]: where invocation w is
  seen,      \* seen[w]: attempts as read by completeJobFailure
  crashes,   \* processes that died inside an invocation
  faults,    \* completions the database refused
  done,      \* a work body ran to its end
  ended      \* the row once was succeeded or dead-lettered

jobVars == <<status, attempts, lease, wait, stage, seen, crashes, faults, done, ended>>

Live == {"working", "completing", "failing", "recording"}

Enter(w, label) == stage' = [stage EXCEPT ![w] = label]

(* computeBackoffMs: the unit doubled with every attempt, up to the cap,   *)
(* which is less than three doublings: 2, 4, 8 minutes, then flat 15.      *)
ComputeBackoff(n) ==
  LET b == CASE n <= 1 -> BackoffUnit
             [] n = 2  -> 2 * BackoffUnit
             [] n = 3  -> 4 * BackoffUnit
             [] n > 3  -> 8 * BackoffUnit
  IN  IF b < BackoffCap THEN b ELSE BackoffCap

------------------------------------------------------------------------------
JobInit ==
  /\ status = None
  /\ attempts = 0
  /\ lease = Elapsed
  /\ wait = 0
  /\ stage = [w \in Workers |-> "idle"]
  /\ seen = [w \in Workers |-> 0]
  /\ crashes = 0
  /\ faults = 0
  /\ done = FALSE
  /\ ended = FALSE

(* ensureJobRow: INSERT ... ON CONFLICT DO NOTHING.                        *)
EnsureJobRow(w) ==
  /\ stage[w] = "idle"
  /\ Enter(w, "ensured")
  /\ status' = IF status = None THEN "pending" ELSE status
  /\ UNCHANGED <<attempts, lease, wait, seen, crashes, faults, done, ended>>

(* Bugs: a lease nobody looks at; a crashed job that is never eligible,    *)
(* which scheduledJob.ts:30-33 warns of; a dead letter that is retried.    *)
EligibleLeased == status \in {"pending", "running"}
EligibleOnce   == status = "pending" \/ (status = "retry_wait" /\ wait = 0)
EligibleDead   == \/ status \in {"pending", "dead_letter"}
                  \/ status = "retry_wait" /\ wait = 0
                  \/ status = "running" /\ lease = Elapsed

Eligible ==
  \/ status = "pending"
  \/ status = "retry_wait" /\ wait = 0
  \/ status = "running" /\ lease = Elapsed

(* claimJob: one UPDATE ... WHERE eligible RETURNING id.                   *)
ClaimJob(w) ==
  /\ stage[w] = "ensured"
  /\ Eligible
  /\ Enter(w, "working")
  /\ status' = "running"
  /\ lease' = Lease
  /\ attempts' = attempts + 1
  /\ UNCHANGED <<wait, seen, crashes, faults, done, ended>>

ClaimMissed(w) ==
  /\ stage[w] = "ensured"
  /\ ~Eligible
  /\ Enter(w, "idle")
  /\ UNCHANGED <<status, attempts, lease, wait, seen, crashes, faults, done, ended>>

WorkReturns(w) ==
  /\ stage[w] = "working"
  /\ Enter(w, "completing")
  /\ done' = TRUE
  /\ UNCHANGED <<status, attempts, lease, wait, seen, crashes, faults, ended>>

WorkThrows(w) ==
  /\ stage[w] = "working"
  /\ Enter(w, "failing")
  /\ UNCHANGED <<status, attempts, lease, wait, seen, crashes, faults, done, ended>>

(* completeJobSuccess: an UPDATE by id, whatever the row has become.       *)
CompleteJobSuccess(w) ==
  /\ stage[w] = "completing"
  /\ Enter(w, "idle")
  /\ status' = "succeeded"
  /\ lease' = Elapsed
  /\ ended' = TRUE
  /\ UNCHANGED <<attempts, wait, seen, crashes, faults, done>>

(* It stands in the try block: when it throws, the catch block records a   *)
(* failure of work that was done.                                          *)
CompleteJobSuccessThrows(w) ==
  /\ stage[w] = "completing"
  /\ faults < MaxFaults
  /\ faults' = faults + 1
  /\ Enter(w, "failing")
  /\ UNCHANGED <<status, attempts, lease, wait, seen, crashes, done, ended>>

(* completeJobFailure reads the row, then updates it by id.                *)
ReadJob(w) ==
  /\ stage[w] = "failing"
  /\ Enter(w, "recording")
  /\ seen' = [seen EXCEPT ![w] = attempts]
  /\ UNCHANGED <<status, attempts, lease, wait, crashes, faults, done, ended>>

(* Bugs: the last attempt goes back to waiting; the first one is the last. *)
ExhaustedLate(w)  == seen[w] > MaxAttempts
ExhaustedEarly(w) == seen[w] >= MaxAttempts - 1

Exhausted(w) == seen[w] >= MaxAttempts

(* Bug: a status no query knows.                                           *)
DeadLetterMisspelt(w) ==
  /\ stage[w] = "recording"
  /\ Exhausted(w)
  /\ Enter(w, "idle")
  /\ status' = "failed"
  /\ lease' = Elapsed
  /\ ended' = TRUE
  /\ UNCHANGED <<attempts, wait, seen, crashes, faults, done>>

DeadLetter(w) ==
  /\ stage[w] = "recording"
  /\ Exhausted(w)
  /\ Enter(w, "idle")
  /\ status' = "dead_letter"
  /\ lease' = Elapsed
  /\ ended' = TRUE
  /\ UNCHANGED <<attempts, wait, seen, crashes, faults, done>>

RetryLater(w) ==
  /\ stage[w] = "recording"
  /\ ~Exhausted(w)
  /\ Enter(w, "idle")
  /\ status' = "retry_wait"
  /\ lease' = Elapsed
  /\ wait' = ComputeBackoff(seen[w])
  /\ UNCHANGED <<attempts, seen, crashes, faults, done, ended>>

(* completeJobFailure throws too: the caller logs it and the row is left.  *)
CompleteJobFailureThrows(w) ==
  /\ stage[w] \in {"failing", "recording"}
  /\ faults < MaxFaults
  /\ faults' = faults + 1
  /\ Enter(w, "idle")
  /\ UNCHANGED <<status, attempts, lease, wait, seen, crashes, done, ended>>

JobCrash(w) ==
  /\ stage[w] # "idle"
  /\ crashes < MaxCrashes
  /\ crashes' = crashes + 1
  /\ Enter(w, "idle")
  /\ UNCHANGED <<status, attempts, lease, wait, seen, faults, done, ended>>

(* Time passes. With WorkFitsLease no invocation is still at it when its   *)
(* lease ends: what the default lease of 5 minutes is chosen for.          *)
JobTick ==
  /\ WorkFitsLease => \A w \in Workers : stage[w] \in Live => lease > 0
  /\ lease' = IF lease >= 0 THEN lease - 1 ELSE Elapsed
  /\ wait' = IF wait > 0 THEN wait - 1 ELSE 0
  /\ UNCHANGED <<status, attempts, stage, seen, crashes, faults, done, ended>>

RunScheduledJob(w) ==
  \/ EnsureJobRow(w) \/ ClaimJob(w) \/ ClaimMissed(w)
  \/ WorkReturns(w) \/ WorkThrows(w)
  \/ CompleteJobSuccess(w) \/ CompleteJobSuccessThrows(w)
  \/ ReadJob(w) \/ DeadLetter(w) \/ RetryLater(w) \/ CompleteJobFailureThrows(w)

JobNext == (\E w \in Workers : RunScheduledJob(w) \/ JobCrash(w)) \/ JobTick

JobSpec == JobInit /\ [][JobNext]_jobVars

(* Catch-up and later ticks invoke the job again and again, the work       *)
(* settles, and time passes.                                               *)
FairJobSpec == /\ JobSpec
               /\ \A w \in Workers : WF_jobVars(RunScheduledJob(w))
               /\ WF_jobVars(JobTick)

------------------------------------------------------------------------------
JobTypes ==
  /\ status \in Status \cup {None}
  /\ attempts \in Nat
  /\ lease \in {Elapsed} \cup 0..Lease
  /\ wait \in Nat
  /\ stage \in [Workers -> {"idle", "ensured"} \cup Live]
  /\ seen \in [Workers -> Nat]
  /\ crashes \in 0..MaxCrashes
  /\ faults \in 0..MaxFaults
  /\ done \in BOOLEAN
  /\ ended \in BOOLEAN

(* One invocation at a time runs the work of an occurrence: the claim and  *)
(* the lease replace node-cron's in-memory guard (scheduledJob.ts:5-12).   *)
OneRunner ==
  \A v, w \in Workers : stage[v] \in Live /\ stage[w] \in Live => v = w

(* A row that succeeded or was dead-lettered keeps that outcome.           *)
TerminalIsFinal == [][(status \in Terminal) => (status' = status)]_jobVars

(* "dead_letter and succeeded are permanently excluded" from being claimed *)
(* (scheduledJob.ts:33-35): an occurrence that ended never runs again.     *)
EndedStaysEnded == ended => status # "running"

(* The attempts beyond max_attempts are those whose lease was abandoned by *)
(* a crash or by a completion the database refused: nothing else retries.  *)
AttemptsBounded == attempts <= MaxAttempts + crashes + faults

(* The outcome is true: success is only recorded of work that ran to its   *)
(* end, and a dead letter had all its attempts and lost no finished work,  *)
(* unless the database refused to record it or the process died on it.     *)
OutcomeEarned ==
  /\ status = "succeeded" => done
  /\ status = "dead_letter" =>
       attempts >= MaxAttempts /\ (done => crashes + faults > 0)

(* What the safety properties rest on, inductive when work fits its lease: *)
(* the live invocation owns the running row, and every attempt but the     *)
(* owner's is accounted for.                                               *)
JobInvariant ==
  /\ OneRunner
  /\ \A w \in Workers : stage[w] \in Live =>
       /\ status = "running"
       /\ lease >= 0
       /\ stage[w] = "recording" => seen[w] = attempts
       /\ stage[w] = "completing" => done
  /\ ended <=> status \in Terminal
  /\ status \in {None, "pending"} => attempts = 0
  /\ status = "retry_wait" => attempts < MaxAttempts
  /\ status = "running" /\ (\A w \in Workers : stage[w] \notin Live) =>
       attempts < MaxAttempts + crashes + faults
  /\ AttemptsBounded
  /\ OutcomeEarned
  /\ done /\ status \in {None, "pending", "retry_wait"} => faults + crashes > 0
  /\ done /\ status = "running" => \/ crashes + faults > 0
                                   \/ \E w \in Workers : stage[w] = "completing"

(* A job that is invoked again and again ends: an expired lease or an      *)
(* elapsed backoff never leaves the row where no claim can take it.        *)
JobEnds == <>(status \in Terminal)
==============================================================================
