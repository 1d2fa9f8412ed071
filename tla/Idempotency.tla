----------------------------- MODULE Idempotency -----------------------------
(***************************************************************************)
(* The Idempotency-Key protocol of src/lib/idempotency.ts as the services  *)
(* use it. A request first looks for a replay (no transaction), then runs  *)
(* its work in a Postgres transaction (READ COMMITTED) that claims the row *)
(* of its key, does the work, completes the row and commits. An endpoint   *)
(* of SplitKeys (receipt delivery) commits the claim alone, works outside  *)
(* any transaction and completes the row in a second transaction.          *)
(* A key stands for (business, actor, key, endpoint), the unique index of  *)
(* idempotency_keys. A retry is one more request with the same question.   *)
(***************************************************************************)
EXTENDS NoValue, Integers, FiniteSets

CONSTANTS
  Requests,   \* HTTP requests, retries included
  Keys,       \* (business, actor, key, endpoint) combinations
  SplitKeys,  \* the keys of endpoints that commit their claim before the work
  Payloads,   \* canonical hashes of request bodies
  TTL,        \* IDEMPOTENCY_KEY_TTL_HOURS, in ticks of the clock
  Skew,       \* Postgres clock minus Node clock
  MaxTime     \* bound on the clock

Question == [key: Keys, payload: Payloads]

InFlight  == 0     \* response_status of a claimed row
Completed == 201   \* any real HTTP status

Row == [id: Requests, status: {InFlight, Completed}, hash: Payloads,
        body: Requests \cup {None}, expires: Int]

ASSUME IdempotencyAssumption ==
  /\ SplitKeys \subseteq Keys
  /\ TTL \in Nat \ {0}
  /\ Skew \in Int
  /\ MaxTime \in Nat
  /\ None \notin Requests
  /\ None \notin Row

VARIABLES
  now,      \* the Node clock
  ask,      \* ask[r]: the key and payload r was sent with
  row,      \* row[k]: the committed row of idempotency_keys, or None
  lock,     \* lock[k]: the request whose open transaction wrote row k, or None
  pc,       \* pc[r]: how far r is
  begun,    \* begun[r]: start of r's transaction, which Postgres' now() returns
  called,   \* called[r]: Date.now() when r computed its expires_at
  won,      \* won[r]: when r's claim was granted
  effects,  \* the work that took effect (committed, or sent to the provider)
  answer    \* answer[r]: whose response body r was answered with, or None

vars == <<now, ask, row, lock, pc, begun, called, won, effects, answer>>

InTransaction == {"claimed", "completed"}
Detached      == {"parked", "performed"}
Refused       == {"conflict", "mismatch", "failed"}
Settled       == Refused \cup {"replied", "crashed"}
Working       == {"missed", "begun", "committed"} \cup InTransaction \cup Detached

KeyOf(r) == ask[r].key

Effect(r) == [req |-> r, key |-> KeyOf(r), payload |-> ask[r].payload,
              called |-> called[r], won |-> won[r], at |-> now]

(* Bug: a claim that forgets the TTL.                                      *)
ClaimedNoTTL(r) == [id |-> r, status |-> InFlight, hash |-> ask[r].payload,
                    body |-> None, expires |-> called[r]]

(* Bug: a claim that leaves expires_at null, as before the TTL existed.    *)
ClaimedForEver(r) == [id |-> r, status |-> InFlight, hash |-> ask[r].payload,
                      body |-> None, expires |-> None]

(* The row r's transaction holds: as claimed, and as completed.            *)
Claimed(r) == [id |-> r, status |-> InFlight, hash |-> ask[r].payload,
               body |-> None, expires |-> called[r] + TTL]

(* Bug: the row is left to be completed after the commit.                  *)
AnsweredLater(r) == Claimed(r)

Answered(r) == [id |-> r, status |-> Completed, hash |-> ask[r].payload,
                body |-> r, expires |-> called[r] + TTL]

Unlock(r) == [k \in Keys |-> IF lock[k] = r THEN None ELSE lock[k]]

Goto(r, label) == pc' = [pc EXCEPT ![r] = label]

(* Bugs: expiry that takes in-flight rows too; expiry a tick early.        *)
ExpiredAnyStatus(e, t) == e.expires < t
ExpiredOnTheDot(e, t)  == e.status # InFlight /\ e.expires <= t

(* A completed row past its expires_at, for a clock that shows t.          *)
Expired(e, t) == e.status # InFlight /\ e.expires < t

------------------------------------------------------------------------------
Init ==
  /\ now = 0
  /\ ask \in [Requests -> Question]
  /\ row = [k \in Keys |-> None]
  /\ lock = [k \in Keys |-> None]
  /\ pc = [r \in Requests |-> "idle"]
  /\ begun = [r \in Requests |-> 0]
  /\ called = [r \in Requests |-> 0]
  /\ won = [r \in Requests |-> 0]
  /\ effects = {}
  /\ answer = [r \in Requests |-> None]

(* getReplayedResponse: one read of the committed row, by the controller.  *)
LookupMiss(r) ==
  /\ pc[r] = "idle"
  /\ \/ row[KeyOf(r)] = None
     \/ row[KeyOf(r)] # None /\ Expired(row[KeyOf(r)], now)
  /\ Goto(r, "missed")
  /\ UNCHANGED <<now, ask, row, lock, begun, called, won, effects, answer>>

LookupInFlight(r) ==
  /\ pc[r] = "idle"
  /\ row[KeyOf(r)] # None
  /\ row[KeyOf(r)].status = InFlight
  /\ Goto(r, "conflict")
  /\ UNCHANGED <<now, ask, row, lock, begun, called, won, effects, answer>>

(* Bug: a key is replayed whatever it was used for.                        *)
SamePayloadUnchecked(r) == TRUE

SamePayload(r) == row[KeyOf(r)].hash = ask[r].payload

LookupMismatch(r) ==
  /\ pc[r] = "idle"
  /\ row[KeyOf(r)] # None
  /\ row[KeyOf(r)].status # InFlight
  /\ ~Expired(row[KeyOf(r)], now)
  /\ ~SamePayload(r)
  /\ Goto(r, "mismatch")
  /\ UNCHANGED <<now, ask, row, lock, begun, called, won, effects, answer>>

LookupReplay(r) ==
  /\ pc[r] = "idle"
  /\ row[KeyOf(r)] # None
  /\ row[KeyOf(r)].status # InFlight
  /\ ~Expired(row[KeyOf(r)], now)
  /\ SamePayload(r)
  /\ Goto(r, "replied")
  /\ answer' = [answer EXCEPT ![r] = row[KeyOf(r)].body]
  /\ UNCHANGED <<now, ask, row, lock, begun, called, won, effects>>

(* prisma.$transaction starts, after whatever the service reads before it. *)
Begin(r) ==
  /\ pc[r] = "missed"
  /\ Goto(r, "begun")
  /\ begun' = [begun EXCEPT ![r] = now]
  /\ UNCHANGED <<now, ask, row, lock, called, won, effects, answer>>

(* Bug: a claim that trusts the lookup before it and decides nothing.      *)
ClaimableUnchecked(r) == TRUE

Claimable(r) ==
  \/ row[KeyOf(r)] = None
  \/ row[KeyOf(r)] # None /\ Expired(row[KeyOf(r)], begun[r] + Skew)

(* claimIdempotencyKey: the INSERT ... ON CONFLICT waits while another     *)
(* open transaction holds the row, then decides on the committed row. The  *)
(* expires_at it writes was computed at c, before any wait.                *)
Claim(r, c) ==
  /\ pc[r] = "begun"
  /\ c \in begun[r]..now
  /\ lock[KeyOf(r)] = None
  /\ Claimable(r)
  /\ Goto(r, "claimed")
  /\ lock' = [lock EXCEPT ![KeyOf(r)] = r]
  /\ called' = [called EXCEPT ![r] = c]
  /\ won' = [won EXCEPT ![r] = now]
  /\ UNCHANGED <<now, ask, row, begun, effects, answer>>

ClaimRefused(r) ==
  /\ pc[r] = "begun"
  /\ lock[KeyOf(r)] = None
  /\ ~Claimable(r)
  /\ Goto(r, "conflict")
  /\ UNCHANGED <<now, ask, row, lock, begun, called, won, effects, answer>>

(* completeIdempotencyKey in the transaction that claimed, then COMMIT.    *)
Complete(r) ==
  /\ pc[r] = "claimed"
  /\ KeyOf(r) \notin SplitKeys
  /\ Goto(r, "completed")
  /\ UNCHANGED <<now, ask, row, lock, begun, called, won, effects, answer>>

Commit(r) ==
  /\ pc[r] = "completed"
  /\ Goto(r, "committed")
  /\ row' = [row EXCEPT ![KeyOf(r)] = Answered(r)]
  /\ lock' = Unlock(r)
  /\ effects' = effects \cup {Effect(r)}
  /\ UNCHANGED <<now, ask, begun, called, won, answer>>

(* A split endpoint: the claim commits alone, the work follows, then the   *)
(* row is completed by a transaction that checks nothing.                  *)
Park(r) ==
  /\ pc[r] = "claimed"
  /\ KeyOf(r) \in SplitKeys
  /\ Goto(r, "parked")
  /\ row' = [row EXCEPT ![KeyOf(r)] = Claimed(r)]
  /\ lock' = Unlock(r)
  /\ UNCHANGED <<now, ask, begun, called, won, effects, answer>>

PerformDetached(r) ==
  /\ pc[r] = "parked"
  /\ Goto(r, "performed")
  /\ effects' = effects \cup {Effect(r)}
  /\ UNCHANGED <<now, ask, row, lock, begun, called, won, answer>>

Filled(e, body) == [id |-> e.id, status |-> Completed, hash |-> e.hash,
                    body |-> body, expires |-> e.expires]

CompleteDetached(r) ==
  /\ pc[r] = "performed"
  /\ lock[KeyOf(r)] = None
  /\ row[KeyOf(r)] # None
  /\ Goto(r, "committed")
  /\ row' = [row EXCEPT ![KeyOf(r)] = Filled(row[KeyOf(r)], r)]
  /\ UNCHANGED <<now, ask, lock, begun, called, won, effects, answer>>

Respond(r) ==
  /\ pc[r] = "committed"
  /\ Goto(r, "replied")
  /\ answer' = [answer EXCEPT ![r] = r]
  /\ UNCHANGED <<now, ask, row, lock, begun, called, won, effects>>

(* Bug: a failed service leaves its transaction open.                      *)
FailOpen(r) ==
  /\ pc[r] \in {"missed", "begun"} \cup InTransaction
  /\ Goto(r, "failed")
  /\ UNCHANGED <<now, ask, row, lock, begun, called, won, effects, answer>>

(* The service throws: its transaction, and the claim in it, roll back.    *)
Fail(r) ==
  /\ pc[r] \in {"missed", "begun"} \cup InTransaction
  /\ Goto(r, "failed")
  /\ lock' = Unlock(r)
  /\ UNCHANGED <<now, ask, row, begun, called, won, effects, answer>>

(* The Node process dies: Postgres rolls its open transaction back.        *)
Crash(r) ==
  /\ pc[r] \in Working
  /\ Goto(r, "crashed")
  /\ lock' = Unlock(r)
  /\ UNCHANGED <<now, ask, row, begun, called, won, effects, answer>>

(* Bug: a sweep without its time condition.                                *)
CleanupCompleted(k) ==
  /\ lock[k] = None
  /\ row[k] # None
  /\ row[k].status # InFlight
  /\ row' = [row EXCEPT ![k] = None]
  /\ UNCHANGED <<now, ask, lock, pc, begun, called, won, effects, answer>>

(* cleanupExpiredIdempotencyKeys, one row of its DELETE.                   *)
Cleanup(k) ==
  /\ lock[k] = None
  /\ row[k] # None
  /\ Expired(row[k], now + Skew)
  /\ row' = [row EXCEPT ![k] = None]
  /\ UNCHANGED <<now, ask, lock, pc, begun, called, won, effects, answer>>

Tick ==
  /\ now < MaxTime
  /\ now' = now + 1
  /\ UNCHANGED <<ask, row, lock, pc, begun, called, won, effects, answer>>

(* Every request is settled: nothing more is asked of the server.          *)
Quiescent ==
  /\ \A r \in Requests : pc[r] \in Settled
  /\ UNCHANGED vars

Lookup(r) == LookupMiss(r) \/ LookupInFlight(r) \/ LookupMismatch(r) \/ LookupReplay(r)

TryClaim(r) == ClaimRefused(r) \/ \E c \in 0..MaxTime : Claim(r, c)

(* What r does by itself once it has been looked up.                       *)
Advance(r) ==
  \/ Begin(r) \/ TryClaim(r) \/ Complete(r) \/ Commit(r)
  \/ Park(r) \/ PerformDetached(r) \/ CompleteDetached(r) \/ Respond(r)

Next ==
  \/ \E r \in Requests : Lookup(r) \/ Advance(r) \/ Fail(r) \/ Crash(r)
  \/ \E k \in Keys : Cleanup(k)
  \/ Tick
  \/ Quiescent

Spec == Init /\ [][Next]_vars

(* Node runs every promise it started and Postgres grants a free lock.     *)
FairSpec == Spec /\ \A r \in Requests : WF_vars(Advance(r))

------------------------------------------------------------------------------
TypeOK ==
  /\ now \in 0..MaxTime
  /\ ask \in [Requests -> Question]
  /\ row \in [Keys -> Row \cup {None}]
  /\ lock \in [Keys -> Requests \cup {None}]
  /\ pc \in [Requests -> {"idle"} \cup Working \cup Settled]
  /\ begun \in [Requests -> 0..MaxTime]
  /\ called \in [Requests -> 0..MaxTime]
  /\ won \in [Requests -> 0..MaxTime]
  /\ effects \subseteq [req: Requests, key: Keys, payload: Payloads,
                        called: 0..MaxTime, won: 0..MaxTime, at: 0..MaxTime]
  /\ answer \in [Requests -> Requests \cup {None}]

(* f was granted its key after e took effect, and more than TTL (less the  *)
(* skew of the clocks) after e was called.                                 *)
Follows(f, e) == f.won >= e.at /\ f.won - e.called > TTL - Skew

(* Two effects under one key never overlap and are a TTL apart, whatever   *)
(* crashed, retried, expired or was swept in between: the claim of         *)
(* idempotency.ts:82-121 is what keeps a retry from being a second effect. *)
EffectsSpaced ==
  \A e, f \in effects : e.key = f.key /\ e # f => Follows(e, f) \/ Follows(f, e)

(* Nobody is answered with the outcome of another question: the body a     *)
(* request gets, replayed or fresh, is that of an effect performed for its *)
(* own key and its own payload.                                            *)
AnswersFaithful ==
  \A r \in Requests : answer[r] # None =>
    \E e \in effects : /\ e.req = answer[r]
                       /\ e.key = KeyOf(r)
                       /\ e.payload = ask[r].payload

(* No post-commit gap (idempotency.ts:14-18): as long as Postgres does not *)
(* see it expired, an effect has its row, with the hash it was made with,  *)
(* so that a retry is replayed or refused.                                 *)
EffectsRecorded ==
  \A e \in effects :
    e.called + TTL >= now + Skew =>
      /\ row[e.key] # None
      /\ row[e.key].id = e.req
      /\ row[e.key].hash = e.payload

(* An endpoint that claims and completes in one transaction never shows    *)
(* the in-flight sentinel to anyone: no failure leaves its key stuck.      *)
NoStuckClaim ==
  \A k \in Keys \ SplitKeys : row[k] # None => row[k].status # InFlight

(* The facts the safety properties rest on, together inductive.            *)
LocksHeld ==   \* a row is locked by the transaction that claimed it, and no other
  /\ \A k \in Keys : lock[k] # None => pc[lock[k]] \in InTransaction /\ KeyOf(lock[k]) = k
  /\ \A r \in Requests : pc[r] \in InTransaction => lock[KeyOf(r)] = r

Exclusive ==   \* a claim is granted over no row or a completed one, never a parked one
  \A r \in Requests :
    /\ pc[r] \in InTransaction /\ row[KeyOf(r)] # None => row[KeyOf(r)].status # InFlight
    /\ pc[r] \in Detached => KeyOf(r) \in SplitKeys /\ row[KeyOf(r)] = Claimed(r)

ClaimsFollow ==   \* whoever is about to take effect follows every earlier effect
  \A r \in Requests : pc[r] \in InTransaction \cup {"parked"} =>
    \A e \in effects : e.key = KeyOf(r) =>
      won[r] >= e.at /\ won[r] + Skew > e.called + TTL

PastOnly ==   \* nothing is stamped with a time to come
  /\ \A r \in Requests : begun[r] <= now /\ called[r] <= now /\ won[r] <= now
  /\ \A e \in effects : e.at <= now

RowsKept ==   \* the row of an effect stays, unchanged but for its completion, until it expires
  \A e \in effects : e.called + TTL >= now + Skew =>
    /\ row[e.key] # None
    /\ row[e.key].id = e.req
    /\ row[e.key].hash = e.payload
    /\ row[e.key].expires = e.called + TTL

BodiesTrue ==   \* a completed row, and a response about to be sent, have their effect
  /\ \A k \in Keys : row[k] # None /\ row[k].status # InFlight =>
       \E e \in effects : e.req = row[k].body /\ e.key = k /\ e.payload = row[k].hash
  /\ \A r \in Requests : pc[r] \in {"performed", "committed"} =>
       \E e \in effects : e.req = r /\ e.key = KeyOf(r) /\ e.payload = ask[r].payload

(* A claim, granted or parked, excludes every other claim of its key, and  *)
(* a row outlives its effect until it expires: the inductive invariant.    *)
ProtocolInvariant ==
  /\ LocksHeld
  /\ Exclusive
  /\ ClaimsFollow
  /\ PastOnly
  /\ RowsKept
  /\ BodiesTrue
  /\ EffectsSpaced
  /\ AnswersFaithful
  /\ NoStuckClaim

(* A request that started is answered, refused or dead in the end: waiting *)
(* for the lock of a claim in flight never lasts for ever.                 *)
EveryRequestSettles ==
  \A r \in Requests : (pc[r] \in Working) ~> (pc[r] \in Settled)

(* The promise, with what the protocol did as what was done.               *)
Promise == INSTANCE OncePerWindow WITH
             done <- effects, told <- answer, Window <- TTL - Skew

ImplementsPromise == Promise!Spec
==============================================================================
