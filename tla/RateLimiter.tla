---------------------------- MODULE RateLimiter -----------------------------
(***************************************************************************)
(* One key of one limiter (src/lib/rateLimitStore.ts under                 *)
(* src/middleware/rateLimit.ts): the rate_limit_counters row, counted up   *)
(* by a single upsert on every request, and the daily sweep of rows whose  *)
(* window is long over. Only the order of reset_at, now() and the sweep's  *)
(* day of grace matters, so the age of a row stands for the clock. The     *)
(* schedule of the sweep is that of ScheduledJob.tla.                      *)
(***************************************************************************)
EXTENDS Integers

CONSTANTS
  WindowMax,      \* max of the limiter
  PassOnError,    \* passOnStoreError
  MaxWindows,     \* bound: windows that end
  MaxOutages,     \* bound: increments that fail
  None

ASSUME LimiterAssumption ==
  /\ WindowMax \in Nat \ {0}
  /\ PassOnError \in BOOLEAN
  /\ MaxWindows \in Nat /\ MaxOutages \in Nat

(* "live": reset_at is ahead; "over": it has passed; "old": by a day.      *)
Ages == {"live", "over", "old"}

Counter == [count : Nat \ {0}, age : Ages]

ASSUME NoneIsNoCounter == None \notin Counter

VARIABLES
  counter,    \* the row, None when there is none
  admitted,   \* history: requests let through since a window last ended
  windows,
  outages

limiterVars == <<counter, admitted, windows, outages>>

LimiterTypeOK ==
  /\ counter \in Counter \cup {None}
  /\ admitted \in Nat /\ windows \in 0..MaxWindows /\ outages \in 0..MaxOutages

LimiterInit == counter = None /\ admitted = 0 /\ windows = 0 /\ outages = 0

(* INSERT ... ON CONFLICT DO UPDATE: a row whose window is over starts a   *)
(* new one, otherwise count + 1 and the same reset_at.                     *)
Upserted(row) ==
  IF row = None \/ row.age # "live" THEN [count |-> 1, age |-> "live"]
  ELSE [row EXCEPT !.count = @ + 1]

(* express-rate-limit: totalHits beyond max is answered 429.               *)
Refused(row) == row.count > WindowMax

Increment == counter' = Upserted(counter) /\ UNCHANGED <<windows, outages>>

(* What every request passes first.                                        *)
LetThrough ==
  \/ Increment /\ ~Refused(Upserted(counter)) /\ admitted' = admitted + 1
  \/ /\ PassOnError /\ outages < MaxOutages       \* the upsert threw
     /\ outages' = outages + 1
     /\ UNCHANGED <<counter, admitted, windows>>

(* 429; or the error of the store, where passOnStoreError is false. Bound: *)
(* refusals after the first in a window are not told apart.                *)
TurnedAway ==
  \/ /\ counter # None /\ counter.count <= WindowMax
     /\ Increment /\ Refused(Upserted(counter)) /\ UNCHANGED admitted
  \/ /\ ~PassOnError /\ outages < MaxOutages
     /\ outages' = outages + 1
     /\ UNCHANGED <<counter, admitted, windows>>

(* reset_at passes; then a day does.                                       *)
WindowEnds ==
  /\ counter # None /\ counter.age = "live" /\ windows < MaxWindows
  /\ counter' = [counter EXCEPT !.age = "over"]
  /\ admitted' = 0 /\ windows' = windows + 1
  /\ UNCHANGED outages

DayPasses ==
  /\ counter # None /\ counter.age = "over"
  /\ counter' = [counter EXCEPT !.age = "old"]
  /\ UNCHANGED <<admitted, windows, outages>>

(* Bug: the sweep takes every row it finds.                                *)
SweepableAny(row) == row # None

(* reset_at < now() - interval '1 day'.                                    *)
Sweepable(row) == row # None /\ row.age = "old"

(* cleanupExpiredRateLimitCounters.                                        *)
Cleanup ==
  /\ Sweepable(counter)
  /\ counter' = None
  /\ UNCHANGED <<admitted, windows, outages>>

(* A limiter lets through at most max requests in one window, whatever     *)
(* the sweep deletes in between; requests let through while the store is   *)
(* down are not counted (passOnStoreError).                                *)
WindowBounded == admitted <= WindowMax
==============================================================================
