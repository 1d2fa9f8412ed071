----------------------------- MODULE ClaimProofs ------------------------------
(***************************************************************************)
(* Proofs about work that is claimed by a row before it is done:           *)
(* Idempotency, for any requests, keys, payloads, TTL and skew;            *)
(* ScheduledJob, for any number of invocations, attempts, crashes and      *)
(* faults, when an invocation never outlives its lease; RecurringExpenses  *)
(* over Expenses, for any clients and sweeps at once, any amounts, lawful  *)
(* schedules and amendments.                                               *)
(***************************************************************************)
EXTENDS Idempotency, ScheduledJob, RecurringExpenses, SequenceTheorems, WellFoundedInduction, TLAPS

USE DEF InFlight, Completed, Elapsed

(* Releasing locks leaves every key with one holder or none.               *)
LEMMA UnlockType ==
  ASSUME TypeOK, NEW r \in Requests
  PROVE  Unlock(r) \in [Keys -> Requests \cup {None}]
BY DEF TypeOK, Unlock

(* Every variable keeps its type: what the rows, the locks and the         *)
(* requests can hold (prisma model idempotency_keys).                      *)
THEOREM TypeInvariant == Spec => []TypeOK
<1> USE IdempotencyAssumption DEF TypeOK, Question
<1>1. Init => TypeOK
  BY DEF Init, Working, Settled
<1>2. TypeOK /\ [Next]_vars => TypeOK'
  <2> SUFFICES ASSUME TypeOK, [Next]_vars PROVE TypeOK'
    OBVIOUS
  <2> USE DEF Goto, KeyOf, Working, Settled, Refused, InTransaction, Detached
  <2>1. ASSUME NEW r \in Requests, Lookup(r) PROVE TypeOK'
    <3>1. CASE LookupMiss(r)
      BY <3>1 DEF LookupMiss
    <3>2. CASE LookupInFlight(r)
      BY <3>2 DEF LookupInFlight
    <3>3. CASE LookupMismatch(r)
      BY <3>3 DEF LookupMismatch
    <3>4. CASE LookupReplay(r)
      BY <3>4 DEF LookupReplay, Row
    <3> QED BY <2>1, <3>1, <3>2, <3>3, <3>4 DEF Lookup
  <2>2. ASSUME NEW r \in Requests, Advance(r) PROVE TypeOK'
    <3>1. CASE Begin(r)
      BY <3>1 DEF Begin
    <3>7. CASE ClaimRefused(r)
      BY <3>7 DEF ClaimRefused
    <3>8. CASE Complete(r)
      BY <3>8 DEF Complete
    <3>9. CASE Respond(r)
      BY <3>9 DEF Respond
    <3>2. CASE \E c \in 0..MaxTime : Claim(r, c)
      BY <3>2 DEF Claim
    <3>3. CASE Commit(r)
      <4>1. Effect(r) \in [req: Requests, key: Keys, payload: Payloads,
                           called: 0..MaxTime, won: 0..MaxTime, at: 0..MaxTime]
        BY DEF Effect
      <4>2. Answered(r) \in Row
        BY DEF Answered, Claimed, Row
      <4> QED BY <3>3, <4>1, <4>2, UnlockType DEF Commit
    <3>4. CASE Park(r)
      <4>1. Claimed(r) \in Row
        BY DEF Claimed, Row
      <4> QED BY <3>4, <4>1, UnlockType DEF Park
    <3>5. CASE PerformDetached(r)
      <4>1. Effect(r) \in [req: Requests, key: Keys, payload: Payloads,
                           called: 0..MaxTime, won: 0..MaxTime, at: 0..MaxTime]
        BY DEF Effect
      <4> QED BY <3>5, <4>1 DEF PerformDetached
    <3>6. CASE CompleteDetached(r)
      BY <3>6 DEF CompleteDetached, Filled, Row
    <3> QED BY <2>2, <3>1, <3>2, <3>3, <3>4, <3>5, <3>6, <3>7, <3>8, <3>9
        DEF Advance, TryClaim
  <2>3. ASSUME NEW r \in Requests, Fail(r) \/ Crash(r) PROVE TypeOK'
    BY <2>3, UnlockType DEF Fail, Crash
  <2>4. ASSUME NEW k \in Keys, Cleanup(k) PROVE TypeOK'
    BY <2>4 DEF Cleanup
  <2>5. CASE Tick
    BY <2>5 DEF Tick
  <2>6. CASE UNCHANGED vars
    BY <2>6 DEF vars
  <2> QED BY <2>1, <2>2, <2>3, <2>4, <2>5, <2>6 DEF Next, Quiescent
<1> QED BY <1>1, <1>2, PTL DEF Spec

------------------------------------------------------------------------------
(* A row that is claimable belongs to no unexpired effect.                 *)
LEMMA ClaimableIsFree ==
  ASSUME TypeOK, ProtocolInvariant, NEW r \in Requests, pc[r] = "begun", Claimable(r)
  PROVE  \A e \in effects : e.key = KeyOf(r) =>
           now >= e.at /\ now + Skew > e.called + TTL
<1> USE IdempotencyAssumption DEF TypeOK
<1> SUFFICES ASSUME NEW e \in effects, e.key = KeyOf(r)
             PROVE  now >= e.at /\ now + Skew > e.called + TTL
  OBVIOUS
<1>1. now >= e.at
  BY DEF ProtocolInvariant, PastOnly
<1>2. now \in Int /\ e.called \in Int /\ begun[r] \in Int /\ TTL \in Int /\ Skew \in Int
  OBVIOUS
<1>3. ~(e.called + TTL >= now + Skew)
  <2> SUFFICES ASSUME e.called + TTL >= now + Skew PROVE FALSE
    OBVIOUS
  <2>1. row[KeyOf(r)] # None /\ row[KeyOf(r)].expires = e.called + TTL
    BY DEF ProtocolInvariant, RowsKept
  <2>2. row[KeyOf(r)].expires < begun[r] + Skew
    BY <2>1 DEF Claimable, Expired
  <2>3. begun[r] <= now
    BY DEF ProtocolInvariant, PastOnly
  <2> QED BY <1>2, <2>1, <2>2, <2>3
<1> QED BY <1>1, <1>2, <1>3

(* Steps that touch neither rows, locks, effects nor claims.               *)
LEMMA QuietStep ==
  ASSUME TypeOK, TypeOK', ProtocolInvariant,
         NEW r \in Requests, NEW label,
         label \notin InTransaction \cup Detached \cup {"committed"},
         pc[r] \notin InTransaction,
         pc' = [pc EXCEPT ![r] = label],
         UNCHANGED <<now, ask, row, lock, called, won, effects>>,
         PastOnly', AnswersFaithful'
  PROVE  ProtocolInvariant'
<1> USE DEF TypeOK, ProtocolInvariant, KeyOf, InTransaction, Detached
<1>1. LocksHeld'
  BY DEF LocksHeld
<1>2. Exclusive'
  BY DEF Exclusive, Claimed
<1>3. ClaimsFollow'
  BY DEF ClaimsFollow
<1>4. RowsKept'
  BY DEF RowsKept
<1>5. BodiesTrue'
  BY DEF BodiesTrue
<1>6. EffectsSpaced' /\ NoStuckClaim'
  BY DEF EffectsSpaced, Follows, NoStuckClaim
<1> QED BY <1>1, <1>2, <1>3, <1>4, <1>5, <1>6

(* Steps that write neither rows nor effects.                              *)
LEMMA QuietSteps ==
  ASSUME TypeOK, TypeOK', ProtocolInvariant, NEW r \in Requests,
         \/ Lookup(r) \/ Begin(r) \/ ClaimRefused(r) \/ Respond(r)
  PROVE  ProtocolInvariant'
<1> USE DEF TypeOK, InTransaction, Detached, Goto
<1>1. CASE LookupMiss(r) \/ LookupInFlight(r) \/ LookupMismatch(r) \/ ClaimRefused(r)
  <2>1. PastOnly' /\ AnswersFaithful'
    BY <1>1 DEF ProtocolInvariant, PastOnly, AnswersFaithful, KeyOf,
                LookupMiss, LookupInFlight, LookupMismatch, ClaimRefused
  <2> QED BY <1>1, <2>1, QuietStep DEF LookupMiss, LookupInFlight, LookupMismatch, ClaimRefused
<1>2. CASE Begin(r)
  <2>1. PastOnly' /\ AnswersFaithful'
    BY <1>2 DEF ProtocolInvariant, PastOnly, AnswersFaithful, KeyOf, Begin
  <2> QED BY <1>2, <2>1, QuietStep DEF Begin
<1>3. CASE LookupReplay(r)
  <2>1. KeyOf(r) \in Keys
    BY DEF KeyOf, Question
  <2>2. PICK e \in effects : /\ e.req = row[KeyOf(r)].body
                             /\ e.key = KeyOf(r)
                             /\ e.payload = row[KeyOf(r)].hash
    BY <1>3, <2>1 DEF ProtocolInvariant, BodiesTrue, LookupReplay
  <2>3. PastOnly' /\ AnswersFaithful'
    BY <1>3, <2>2 DEF ProtocolInvariant, PastOnly, AnswersFaithful, KeyOf,
                      LookupReplay, SamePayload
  <2> QED BY <1>3, <2>3, QuietStep DEF LookupReplay
<1>4. CASE Respond(r)
  <2>1. PICK e \in effects : e.req = r /\ e.key = KeyOf(r) /\ e.payload = ask[r].payload
    BY <1>4 DEF ProtocolInvariant, BodiesTrue, Respond
  <2>2. PastOnly' /\ AnswersFaithful'
    BY <1>4, <2>1 DEF ProtocolInvariant, PastOnly, AnswersFaithful, KeyOf, Respond
  <2> QED BY <1>4, <2>2, QuietStep DEF Respond
<1> QED BY <1>1, <1>2, <1>3, <1>4 DEF Lookup

(* Claim takes the lock of a row that is absent or expired.                *)
LEMMA ClaimStep ==
  ASSUME TypeOK, TypeOK', ProtocolInvariant, NEW r \in Requests, NEW c \in 0..MaxTime,
         Claim(r, c)
  PROVE  ProtocolInvariant'
<1> USE DEF TypeOK, ProtocolInvariant, KeyOf, InTransaction, Detached, Goto, Claim
<1>0. KeyOf(r) \in Keys /\ r # None
  BY IdempotencyAssumption DEF Question
<1>1. LocksHeld'
  <2>1. ASSUME NEW k \in Keys, lock'[k] # None
        PROVE  pc'[lock'[k]] \in InTransaction /\ ask'[lock'[k]].key = k
    BY <1>0, <2>1 DEF LocksHeld
  <2>2. ASSUME NEW q \in Requests, pc'[q] \in InTransaction
        PROVE  lock'[ask'[q].key] = q
    BY <1>0, <2>2, IdempotencyAssumption DEF LocksHeld, Question
  <2> QED BY <2>1, <2>2 DEF LocksHeld
<1>2. Exclusive'
  BY <1>0 DEF Exclusive, Claimed, Claimable, Expired
<1>3. ClaimsFollow'
  BY <1>0, ClaimableIsFree DEF ClaimsFollow
<1>4. PastOnly'
  BY IdempotencyAssumption DEF PastOnly
<1>5. RowsKept' /\ BodiesTrue'
  BY DEF RowsKept, BodiesTrue
<1>6. EffectsSpaced' /\ NoStuckClaim' /\ AnswersFaithful'
  BY DEF EffectsSpaced, Follows, NoStuckClaim, AnswersFaithful
<1> QED BY <1>1, <1>2, <1>3, <1>4, <1>5, <1>6

(* Complete does not leave the transaction.                                *)
LEMMA CompleteStep ==
  ASSUME TypeOK, TypeOK', ProtocolInvariant, NEW r \in Requests, Complete(r)
  PROVE  ProtocolInvariant'
<1> USE DEF TypeOK, ProtocolInvariant, KeyOf, InTransaction, Detached, Goto, Complete
<1>1. LocksHeld'
  BY DEF LocksHeld
<1>2. Exclusive'
  BY DEF Exclusive, Claimed
<1>3. ClaimsFollow' /\ PastOnly'
  BY DEF ClaimsFollow, PastOnly
<1>4. RowsKept' /\ BodiesTrue'
  BY DEF RowsKept, BodiesTrue
<1>5. EffectsSpaced' /\ NoStuckClaim' /\ AnswersFaithful'
  BY DEF EffectsSpaced, Follows, NoStuckClaim, AnswersFaithful
<1> QED BY <1>1, <1>2, <1>3, <1>4, <1>5

(* What leaving a transaction does to the locks: r's is released and the   *)
(* others stay with their owners.                                          *)
LEMMA UnlockStep ==
  ASSUME TypeOK, LocksHeld, NEW r \in Requests, NEW label,
         label \notin InTransaction,
         pc' = [pc EXCEPT ![r] = label], lock' = Unlock(r), UNCHANGED ask
  PROVE  LocksHeld'
<1> USE DEF TypeOK, KeyOf, Unlock
<1>1. ASSUME NEW k \in Keys, lock'[k] # None
      PROVE  pc'[lock'[k]] \in InTransaction /\ ask'[lock'[k]].key = k
  BY <1>1 DEF LocksHeld
<1>2. ASSUME NEW q \in Requests, pc'[q] \in InTransaction
      PROVE  lock'[ask'[q].key] = q
  BY <1>2 DEF LocksHeld, Question
<1> QED BY <1>1, <1>2 DEF LocksHeld

(* A rollback leaves nothing behind but the released lock.                 *)
LEMMA RollbackStep ==
  ASSUME TypeOK, TypeOK', ProtocolInvariant, NEW r \in Requests, Fail(r) \/ Crash(r)
  PROVE  ProtocolInvariant'
<1> USE DEF TypeOK, ProtocolInvariant, KeyOf, InTransaction, Detached, Goto
<1>0. /\ \E label \in {"failed", "crashed"} : pc' = [pc EXCEPT ![r] = label]
      /\ lock' = Unlock(r)
      /\ UNCHANGED <<now, ask, row, begun, called, won, effects, answer>>
  BY DEF Fail, Crash
<1>1. LocksHeld'
  BY <1>0, UnlockStep
<1>2. Exclusive'
  BY <1>0 DEF Exclusive, Claimed
<1>3. ClaimsFollow' /\ PastOnly'
  BY <1>0 DEF ClaimsFollow, PastOnly
<1>4. RowsKept' /\ BodiesTrue'
  BY <1>0 DEF RowsKept, BodiesTrue
<1>5. EffectsSpaced' /\ NoStuckClaim' /\ AnswersFaithful'
  BY <1>0 DEF EffectsSpaced, Follows, NoStuckClaim, AnswersFaithful
<1> QED BY <1>1, <1>2, <1>3, <1>4, <1>5

(* Time and the sweep only make effects expire.                            *)
LEMMA TickStep ==
  ASSUME TypeOK, TypeOK', ProtocolInvariant, Tick
  PROVE  ProtocolInvariant'
<1> USE DEF TypeOK, ProtocolInvariant, KeyOf, InTransaction, Detached, Tick
<1>1. LocksHeld'
  BY DEF LocksHeld
<1>2. Exclusive'
  BY DEF Exclusive, Claimed
<1>3. ClaimsFollow' /\ PastOnly'
  BY IdempotencyAssumption DEF ClaimsFollow, PastOnly
<1>4. RowsKept'
  BY IdempotencyAssumption DEF RowsKept
<1>5. BodiesTrue'
  BY DEF BodiesTrue
<1>6. EffectsSpaced' /\ NoStuckClaim' /\ AnswersFaithful'
  BY DEF EffectsSpaced, Follows, NoStuckClaim, AnswersFaithful
<1> QED BY <1>1, <1>2, <1>3, <1>4, <1>5, <1>6

(* The sweep removes a row whose time is over.                             *)
LEMMA CleanupStep ==
  ASSUME TypeOK, TypeOK', ProtocolInvariant, NEW k \in Keys, Cleanup(k)
  PROVE  ProtocolInvariant'
<1> USE DEF TypeOK, ProtocolInvariant, KeyOf, InTransaction, Detached, Cleanup, Expired
<1>1. LocksHeld'
  BY DEF LocksHeld
<1>2. Exclusive'
  BY DEF Exclusive, Claimed, Question
<1>3. ClaimsFollow' /\ PastOnly'
  BY DEF ClaimsFollow, PastOnly
<1>4. RowsKept'
  <2> SUFFICES ASSUME NEW e \in effects, e.called + TTL >= now + Skew
               PROVE  row'[e.key] = row[e.key]
    BY DEF RowsKept
  <2>1. row[e.key].expires = e.called + TTL
    BY DEF RowsKept
  <2>2. row[k].expires < now + Skew
    OBVIOUS
  <2>3. /\ e.called \in Int /\ now \in Int
        /\ TTL \in Int /\ Skew \in Int
    BY IdempotencyAssumption
  <2>4. e.key # k
    BY <2>1, <2>2, <2>3
  <2> QED BY <2>4
<1>5. BodiesTrue'
  BY DEF BodiesTrue
<1>6. EffectsSpaced' /\ NoStuckClaim' /\ AnswersFaithful'
  BY DEF EffectsSpaced, Follows, NoStuckClaim, AnswersFaithful
<1> QED BY <1>1, <1>2, <1>3, <1>4, <1>5, <1>6

(* A transaction that claimed is alone with its key.                       *)
LEMMA Alone ==
  ASSUME TypeOK, LocksHeld, Exclusive, NEW r \in Requests, pc[r] \in InTransaction,
         NEW q \in Requests, q # r, pc[q] \in InTransaction \cup Detached
  PROVE  KeyOf(q) # KeyOf(r)
<1> USE DEF TypeOK, KeyOf
<1>1. lock[KeyOf(r)] = r
  BY DEF LocksHeld
<1>2. CASE pc[q] \in InTransaction
  BY <1>1, <1>2 DEF LocksHeld
<1>3. CASE pc[q] \in Detached
  <2>1. row[KeyOf(q)] = Claimed(q)
    BY <1>3 DEF Exclusive
  <2>2. Claimed(q).status = InFlight /\ Claimed(q) \in Row
    BY IdempotencyAssumption DEF Claimed, Row, Question
  <2>3. row[KeyOf(q)] # None /\ row[KeyOf(q)].status = InFlight
    BY <2>1, <2>2, IdempotencyAssumption
  <2> QED BY <2>3 DEF Exclusive
<1> QED BY <1>2, <1>3

(* What an effect records of the request it is of.                         *)
LEMMA EffectFields ==
  ASSUME NEW r \in Requests
  PROVE  /\ Effect(r).req = r
         /\ Effect(r).key = KeyOf(r)
         /\ Effect(r).payload = ask[r].payload
BY DEF Effect

(* The effect about to be added follows every effect of its key.           *)
LEMMA NewEffectSpaced ==
  ASSUME TypeOK, TypeOK', ProtocolInvariant, NEW r \in Requests,
         pc[r] \in InTransaction \cup {"parked"},
         effects' = effects \cup {Effect(r)}
  PROVE  EffectsSpaced'
<1> USE IdempotencyAssumption DEF TypeOK
<1>1. ASSUME NEW e \in effects, e.key = KeyOf(r) PROVE Follows(Effect(r), e)
  <2>1. won[r] >= e.at /\ won[r] + Skew > e.called + TTL
    BY <1>1 DEF ProtocolInvariant, ClaimsFollow
  <2>2. won[r] \in Int /\ e.called \in Int /\ TTL \in Int /\ Skew \in Int
    OBVIOUS
  <2>3. Effect(r).won = won[r]
    BY DEF Effect
  <2> QED BY <2>1, <2>2, <2>3 DEF Follows
<1>2. Effect(r).key = KeyOf(r)
  BY DEF Effect
<1> QED BY <1>1, <1>2 DEF ProtocolInvariant, EffectsSpaced

(* The transaction commits the effect with the row that answers for it.    *)
LEMMA CommitStep ==
  ASSUME TypeOK, TypeOK', ProtocolInvariant, NEW r \in Requests, Commit(r)
  PROVE  ProtocolInvariant'
<1> USE DEF TypeOK, ProtocolInvariant
<1>0. /\ pc[r] \in InTransaction
      /\ pc' = [pc EXCEPT ![r] = "committed"]
      /\ row' = [row EXCEPT ![KeyOf(r)] = Answered(r)]
      /\ lock' = Unlock(r)
      /\ effects' = effects \cup {Effect(r)}
      /\ UNCHANGED <<now, ask, begun, called, won, answer>>
      /\ KeyOf(r) \in Keys
  BY DEF Commit, Goto, InTransaction, KeyOf, Question
<1>1. LocksHeld'
  BY <1>0, UnlockStep DEF InTransaction
<1>2. Exclusive'
  <2>1. ASSUME NEW q \in Requests, pc'[q] \in InTransaction \cup Detached
        PROVE  q # r /\ pc'[q] = pc[q] /\ row'[ask'[q].key] = row[KeyOf(q)]
    BY <1>0, <2>1, Alone DEF InTransaction, Detached, KeyOf, Question
  <2> QED BY <1>0, <2>1 DEF Exclusive, KeyOf, Claimed
<1>3. ClaimsFollow'
  <2>1. ASSUME NEW q \in Requests, pc'[q] \in InTransaction \cup {"parked"}
        PROVE  q # r /\ pc'[q] = pc[q] /\ KeyOf(q) # KeyOf(r)
    BY <1>0, <2>1, Alone DEF InTransaction, Detached
  <2> QED BY <1>0, <2>1 DEF ClaimsFollow, KeyOf, Effect
<1>4. PastOnly'
  BY <1>0 DEF PastOnly, Effect
<1>5. RowsKept'
  <2> SUFFICES ASSUME NEW e \in effects', e.called + TTL >= now + Skew
               PROVE  /\ row'[e.key] # None
                      /\ row'[e.key].id = e.req
                      /\ row'[e.key].hash = e.payload
                      /\ row'[e.key].expires = e.called + TTL
    BY <1>0 DEF RowsKept
  <2>1. CASE e = Effect(r)
    <3>1. Answered(r) # None
      BY IdempotencyAssumption DEF Answered, Row, Question
    <3> QED BY <1>0, <2>1, <3>1 DEF Effect, Answered
  <2>2. CASE e \in effects
    <3>1. e.key # KeyOf(r)
      <4> SUFFICES ASSUME e.key = KeyOf(r) PROVE FALSE
        OBVIOUS
      <4>1. won[r] + Skew > e.called + TTL /\ won[r] <= now
        BY <1>0, <2>2 DEF ClaimsFollow, PastOnly
      <4>2. /\ won[r] \in Int /\ now \in Int /\ e.called \in Int
            /\ TTL \in Int /\ Skew \in Int
        BY <2>2, IdempotencyAssumption
      <4> QED BY <4>1, <4>2
    <3> QED BY <1>0, <2>2, <3>1 DEF RowsKept
  <2> QED BY <1>0, <2>1, <2>2
<1>6. BodiesTrue'
  <2>1. ASSUME NEW k \in Keys, row'[k] # None, row'[k].status # InFlight
        PROVE  \E e \in effects' : e.req = row'[k].body /\ e.key = k /\ e.payload = row'[k].hash
    <3>1. CASE k = KeyOf(r)
      BY <1>0, <3>1, EffectFields DEF Answered
    <3>2. CASE k # KeyOf(r)
      BY <1>0, <2>1, <3>2 DEF BodiesTrue
    <3> QED BY <3>1, <3>2
  <2>2. ASSUME NEW q \in Requests, pc'[q] \in {"performed", "committed"}
        PROVE  \E e \in effects' : e.req = q /\ e.key = ask'[q].key /\ e.payload = ask'[q].payload
    <3>1. CASE q = r
      BY <1>0, <3>1, EffectFields DEF KeyOf
    <3>2. CASE q # r
      BY <1>0, <2>2, <3>2 DEF BodiesTrue, KeyOf
    <3> QED BY <3>1, <3>2
  <2> QED BY <2>1, <2>2 DEF BodiesTrue, KeyOf
<1>7. EffectsSpaced'
  BY <1>0, NewEffectSpaced
<1>8. NoStuckClaim' /\ AnswersFaithful'
  BY <1>0 DEF NoStuckClaim, AnswersFaithful, Answered, KeyOf
<1> QED BY <1>1, <1>2, <1>3, <1>4, <1>5, <1>6, <1>7, <1>8

(* A request parks its row before it works outside a transaction.          *)
LEMMA ParkStep ==
  ASSUME TypeOK, TypeOK', ProtocolInvariant, NEW r \in Requests, Park(r)
  PROVE  ProtocolInvariant'
<1> USE DEF TypeOK, ProtocolInvariant
<1>0. /\ pc[r] \in InTransaction
      /\ pc' = [pc EXCEPT ![r] = "parked"]
      /\ row' = [row EXCEPT ![KeyOf(r)] = Claimed(r)]
      /\ lock' = Unlock(r)
      /\ UNCHANGED <<now, ask, begun, called, won, effects, answer>>
      /\ KeyOf(r) \in SplitKeys /\ KeyOf(r) \in Keys
  BY IdempotencyAssumption DEF Park, Goto, InTransaction
<1>1. LocksHeld'
  BY <1>0, UnlockStep DEF InTransaction
<1>2. Exclusive'
  <2>1. ASSUME NEW q \in Requests, q # r, pc'[q] \in InTransaction \cup Detached
        PROVE  pc'[q] = pc[q] /\ row'[ask'[q].key] = row[KeyOf(q)]
    BY <1>0, <2>1, Alone DEF InTransaction, Detached, KeyOf, Question
  <2>2. row'[ask'[r].key] = Claimed(r) /\ pc'[r] \notin InTransaction
    BY <1>0 DEF KeyOf, InTransaction
  <2> QED BY <1>0, <2>1, <2>2 DEF Exclusive, KeyOf, Claimed
<1>3. ClaimsFollow' /\ PastOnly'
  BY <1>0 DEF ClaimsFollow, PastOnly, KeyOf
<1>4. RowsKept'
  <2> SUFFICES ASSUME NEW e \in effects, e.called + TTL >= now + Skew
               PROVE  e.key # KeyOf(r)
    BY <1>0 DEF RowsKept
  <2> SUFFICES ASSUME e.key = KeyOf(r) PROVE FALSE
    OBVIOUS
  <2>1. won[r] + Skew > e.called + TTL /\ won[r] <= now
    BY <1>0 DEF ClaimsFollow, PastOnly
  <2>2. /\ won[r] \in Int /\ now \in Int /\ e.called \in Int
        /\ TTL \in Int /\ Skew \in Int
    BY IdempotencyAssumption
  <2> QED BY <2>1, <2>2
<1>5. BodiesTrue'
  BY <1>0 DEF BodiesTrue, KeyOf, Claimed
<1>6. EffectsSpaced' /\ NoStuckClaim' /\ AnswersFaithful'
  BY <1>0 DEF EffectsSpaced, Follows, NoStuckClaim, AnswersFaithful, KeyOf
<1> QED BY <1>1, <1>2, <1>3, <1>4, <1>5, <1>6

(* A parked request is alone with its key too.                             *)
LEMMA ParkedAlone ==
  ASSUME TypeOK, LocksHeld, Exclusive, NEW r \in Requests, pc[r] \in Detached,
         NEW q \in Requests, q # r, pc[q] \in InTransaction \cup Detached
  PROVE  KeyOf(q) # KeyOf(r)
<1>1. CASE pc[q] \in InTransaction
  BY <1>1, Alone
<1>2. CASE pc[q] \in Detached
  <2>1. row[KeyOf(q)] = Claimed(q) /\ row[KeyOf(r)] = Claimed(r)
    BY <1>2 DEF Exclusive
  <2>2. Claimed(q).id = q /\ Claimed(r).id = r
    BY DEF Claimed
  <2> QED BY <2>1, <2>2
<1> QED BY <1>1, <1>2

(* The work outside a transaction takes effect.                            *)
LEMMA PerformDetachedStep ==
  ASSUME TypeOK, TypeOK', ProtocolInvariant, NEW r \in Requests, PerformDetached(r)
  PROVE  ProtocolInvariant'
<1> USE DEF TypeOK, ProtocolInvariant
<1>0. /\ pc[r] = "parked"
      /\ pc' = [pc EXCEPT ![r] = "performed"]
      /\ effects' = effects \cup {Effect(r)}
      /\ UNCHANGED <<now, ask, row, lock, begun, called, won, answer>>
  BY DEF PerformDetached, Goto
<1>1. LocksHeld'
  BY <1>0 DEF LocksHeld, KeyOf, InTransaction
<1>2. Exclusive'
  BY <1>0 DEF Exclusive, KeyOf, Claimed, InTransaction, Detached
<1>3. ClaimsFollow'
  <2>1. ASSUME NEW q \in Requests, pc'[q] \in InTransaction \cup {"parked"}
        PROVE  q # r /\ pc'[q] = pc[q] /\ KeyOf(q) # KeyOf(r)
    BY <1>0, <2>1, ParkedAlone DEF InTransaction, Detached
  <2> QED BY <1>0, <2>1 DEF ClaimsFollow, KeyOf, Effect
<1>4. PastOnly'
  BY <1>0 DEF PastOnly, Effect
<1>5. RowsKept'
  <2>1. row[KeyOf(r)] = Claimed(r)
    BY <1>0 DEF Exclusive, Detached
  <2>2. Claimed(r) # None
    BY IdempotencyAssumption DEF Claimed, Row, Question
  <2> QED BY <1>0, <2>1, <2>2 DEF RowsKept, Effect, Claimed
<1>6. BodiesTrue'
  <2>1. ASSUME NEW q \in Requests, pc'[q] \in {"performed", "committed"}
        PROVE  \E e \in effects' : e.req = q /\ e.key = ask'[q].key /\ e.payload = ask'[q].payload
    <3>1. CASE q = r
      BY <1>0, <3>1, EffectFields DEF KeyOf
    <3>2. CASE q # r
      BY <1>0, <2>1, <3>2 DEF BodiesTrue, KeyOf
    <3> QED BY <3>1, <3>2
  <2> QED BY <1>0, <2>1 DEF BodiesTrue, KeyOf
<1>7. EffectsSpaced'
  BY <1>0, NewEffectSpaced
<1>8. NoStuckClaim' /\ AnswersFaithful'
  BY <1>0 DEF NoStuckClaim, AnswersFaithful, KeyOf
<1> QED BY <1>1, <1>2, <1>3, <1>4, <1>5, <1>6, <1>7, <1>8

(* The row of work outside a transaction is completed.                     *)
LEMMA CompleteDetachedStep ==
  ASSUME TypeOK, TypeOK', ProtocolInvariant, NEW r \in Requests, CompleteDetached(r)
  PROVE  ProtocolInvariant'
<1> USE DEF TypeOK, ProtocolInvariant
<1>0. /\ pc[r] = "performed"
      /\ pc' = [pc EXCEPT ![r] = "committed"]
      /\ row' = [row EXCEPT ![KeyOf(r)] = Answered(r)]
      /\ UNCHANGED <<now, ask, lock, begun, called, won, effects, answer>>
      /\ KeyOf(r) \in Keys
      /\ row[KeyOf(r)] = Claimed(r)
  <2>0. pc[r] \in Detached
    BY DEF CompleteDetached, Detached
  <2>1. row[KeyOf(r)] = Claimed(r) /\ KeyOf(r) \in Keys
    BY <2>0 DEF Exclusive, KeyOf, Question
  <2>2. Filled(Claimed(r), r) = Answered(r)
    BY DEF Filled, Claimed, Answered
  <2> QED BY <2>1, <2>2 DEF CompleteDetached, Goto
<1>1. LocksHeld'
  BY <1>0 DEF LocksHeld, KeyOf, InTransaction
<1>2. Exclusive'
  <2>1. ASSUME NEW q \in Requests, pc'[q] \in InTransaction \cup Detached
        PROVE  q # r /\ pc'[q] = pc[q] /\ row'[ask'[q].key] = row[KeyOf(q)]
    BY <1>0, <2>1, ParkedAlone DEF InTransaction, Detached, KeyOf, Question
  <2> QED BY <1>0, <2>1 DEF Exclusive, KeyOf, Claimed
<1>3. ClaimsFollow' /\ PastOnly'
  BY <1>0 DEF ClaimsFollow, PastOnly, KeyOf, InTransaction
<1>4. RowsKept'
  <2>1. Answered(r) # None
    BY IdempotencyAssumption DEF Answered, Row, Question
  <2> QED BY <1>0, <2>1 DEF RowsKept, Claimed, Answered
<1>5. BodiesTrue'
  <2>1. \E e \in effects : e.req = r /\ e.key = KeyOf(r) /\ e.payload = ask[r].payload
    BY <1>0 DEF BodiesTrue
  <2>2. ASSUME NEW k \in Keys, row'[k] # None, row'[k].status # InFlight
        PROVE  \E e \in effects : e.req = row'[k].body /\ e.key = k /\ e.payload = row'[k].hash
    <3>1. CASE k = KeyOf(r)
      BY <1>0, <2>1, <3>1 DEF Answered
    <3>2. CASE k # KeyOf(r)
      BY <1>0, <2>2, <3>2 DEF BodiesTrue
    <3> QED BY <3>1, <3>2
  <2> QED BY <1>0, <2>1, <2>2 DEF BodiesTrue, KeyOf
<1>6. EffectsSpaced' /\ NoStuckClaim' /\ AnswersFaithful'
  BY <1>0 DEF EffectsSpaced, Follows, NoStuckClaim, AnswersFaithful, KeyOf, Answered
<1> QED BY <1>1, <1>2, <1>3, <1>4, <1>5, <1>6

(* The protocol invariant: claims exclude each other and rows outlive      *)
(* their effects (idempotency.ts:82-155).                                  *)
THEOREM ProtocolCorrect == Spec => []ProtocolInvariant
<1>1. Init => ProtocolInvariant
  BY IdempotencyAssumption
     DEF Init, ProtocolInvariant, LocksHeld, Exclusive, ClaimsFollow, PastOnly, RowsKept,
         BodiesTrue, EffectsSpaced, AnswersFaithful, NoStuckClaim, InTransaction, Detached
<1>2. TypeOK /\ TypeOK' /\ ProtocolInvariant /\ [Next]_vars => ProtocolInvariant'
  <2> SUFFICES ASSUME TypeOK, TypeOK', ProtocolInvariant, [Next]_vars
               PROVE  ProtocolInvariant'
    OBVIOUS
  <2>1. ASSUME NEW r \in Requests, Lookup(r) PROVE ProtocolInvariant'
    BY <2>1, QuietSteps
  <2>2. ASSUME NEW r \in Requests, Advance(r) PROVE ProtocolInvariant'
    BY <2>2, QuietSteps, ClaimStep, CompleteStep, CommitStep, ParkStep,
       PerformDetachedStep, CompleteDetachedStep DEF Advance, TryClaim
  <2>3. ASSUME NEW r \in Requests, Fail(r) \/ Crash(r) PROVE ProtocolInvariant'
    BY <2>3, RollbackStep
  <2>4. ASSUME NEW k \in Keys, Cleanup(k) PROVE ProtocolInvariant'
    BY <2>4, CleanupStep
  <2>5. CASE Tick
    BY <2>5, TickStep
  <2>6. CASE UNCHANGED vars
    BY <2>6 DEF vars, ProtocolInvariant, LocksHeld, Exclusive, ClaimsFollow, PastOnly,
                RowsKept, BodiesTrue, EffectsSpaced, AnswersFaithful, NoStuckClaim,
                Follows, KeyOf, Claimed
  <2> QED BY <2>1, <2>2, <2>3, <2>4, <2>5, <2>6 DEF Next, Quiescent
<1> QED BY <1>1, <1>2, TypeInvariant, PTL DEF Spec

(* No retry, crash, expiry or sweep makes two effects of one key overlap   *)
(* or come closer than the TTL (idempotency.ts:82-121).                    *)
THEOREM EffectsAreSpaced == Spec => []EffectsSpaced
<1>1. ProtocolInvariant => EffectsSpaced
  BY DEF ProtocolInvariant
<1> QED BY <1>1, ProtocolCorrect, PTL

(* A replayed or fresh response is that of an effect performed for the     *)
(* same key and payload (idempotency.ts:50-80).                            *)
THEOREM AnswersAreFaithful == Spec => []AnswersFaithful
<1>1. ProtocolInvariant => AnswersFaithful
  BY DEF ProtocolInvariant
<1> QED BY <1>1, ProtocolCorrect, PTL

(* An effect keeps its row until it expires (idempotency.ts:14-18).        *)
THEOREM EffectsAreRecorded == Spec => []EffectsRecorded
<1>1. ProtocolInvariant => EffectsRecorded
  BY DEF ProtocolInvariant, RowsKept, EffectsRecorded
<1> QED BY <1>1, ProtocolCorrect, PTL

(* The detailed protocol keeps the abstract promise: every step performs,  *)
(* tells, or changes nothing the promise speaks of.                        *)
THEOREM Implementation == Spec => ImplementsPromise
<1>1. Init => Promise!Init
  BY DEF Init, Promise!Init, Question, Promise!Question
<1>2. TypeOK /\ ProtocolInvariant /\ ProtocolInvariant' /\ [Next]_vars
        => [Promise!Next]_<<ask, effects, answer>>
  <2> SUFFICES ASSUME TypeOK, ProtocolInvariant, ProtocolInvariant', [Next]_vars,
                      ~ UNCHANGED <<ask, effects, answer>>
               PROVE  Promise!Next
    OBVIOUS
  <2>1. ASSUME NEW r \in Requests, Commit(r) \/ PerformDetached(r)
        PROVE  Promise!Next
    <3>1. /\ pc[r] \in InTransaction \cup {"parked"}
          /\ effects' = effects \cup {Effect(r)}
          /\ UNCHANGED <<ask, answer>>
      BY <2>1 DEF Commit, PerformDetached, InTransaction
    <3>2. /\ called[r] \in 0..MaxTime /\ won[r] \in 0..MaxTime /\ now \in 0..MaxTime
      BY DEF TypeOK
    <3>3. ASSUME NEW e \in effects, e.key = KeyOf(r)
          PROVE  won[r] >= e.at /\ won[r] - e.called > TTL - Skew
      <4>1. won[r] >= e.at /\ won[r] + Skew > e.called + TTL
        BY <3>1, <3>3 DEF ProtocolInvariant, ClaimsFollow
      <4>2. won[r] \in Int /\ e.called \in Int /\ TTL \in Int /\ Skew \in Int
        BY IdempotencyAssumption DEF TypeOK
      <4> QED BY <4>1, <4>2
    <3>4. Promise!Perform(r, called[r], won[r], now)
      BY <3>1, <3>3 DEF Promise!Perform, Effect, KeyOf
    <3> QED BY <3>2, <3>4 DEF Promise!Next
  <2>2. ASSUME NEW r \in Requests, Respond(r) \/ LookupReplay(r)
        PROVE  Promise!Next
    <3>1. PICK e \in effects : /\ e.req = answer'[r]
                               /\ e.key = KeyOf(r)
                               /\ e.payload = ask[r].payload
      <4>1. CASE Respond(r)
        BY <4>1 DEF ProtocolInvariant, BodiesTrue, Respond, TypeOK
      <4>2. CASE LookupReplay(r)
        BY <4>2 DEF ProtocolInvariant, BodiesTrue, LookupReplay, SamePayload, TypeOK,
                    KeyOf, Question
      <4> QED BY <2>2, <4>1, <4>2
    <3>2. answer' = [answer EXCEPT ![r] = e.req] /\ UNCHANGED <<ask, effects>>
      BY <2>2, <3>1 DEF Respond, LookupReplay, TypeOK
    <3>3. Promise!Tell(r, e)
      BY <3>1, <3>2 DEF Promise!Tell, KeyOf
    <3> QED BY <3>3 DEF Promise!Next
  <2>3. ASSUME NEW r \in Requests, Lookup(r) PROVE Promise!Next
    BY <2>2, <2>3 DEF Lookup, LookupMiss, LookupInFlight, LookupMismatch
  <2>4. ASSUME NEW r \in Requests, Advance(r) PROVE Promise!Next
    BY <2>1, <2>2, <2>4 DEF Advance, TryClaim, Begin, Claim, ClaimRefused, Complete, Park,
                            CompleteDetached
  <2>5. CASE Tick \/ Quiescent \/ UNCHANGED vars
    BY <2>5 DEF Tick, Quiescent, vars
  <2>6. ASSUME NEW r \in Requests, Fail(r) \/ Crash(r) PROVE Promise!Next
    BY <2>6 DEF Fail, Crash
  <2>7. ASSUME NEW k \in Keys, Cleanup(k) PROVE Promise!Next
    BY <2>7 DEF Cleanup
  <2> QED BY <2>3, <2>4, <2>5, <2>6, <2>7 DEF Next
<1> QED BY <1>1, <1>2, TypeInvariant, ProtocolCorrect, PTL
     DEF Spec, ImplementsPromise, Promise!Spec, Promise!abstractVars

------------------------------------------------------------------------------
(* The time until the next attempt is a natural number.                    *)
LEMMA BackoffType ==
  ASSUME NEW n \in Nat
  PROVE  ComputeBackoff(n) \in Nat
<1> DEFINE b == CASE n <= 1 -> BackoffUnit
                  [] n = 2  -> 2 * BackoffUnit
                  [] n = 3  -> 4 * BackoffUnit
                  [] n > 3  -> 8 * BackoffUnit
<1>1. b \in Nat
  BY JobAssumption
<1> HIDE DEF b
<1>2. ComputeBackoff(n) = IF b < BackoffCap THEN b ELSE BackoffCap
  BY DEF ComputeBackoff, b
<1>3. BackoffCap \in Nat
  BY JobAssumption
<1> QED BY <1>1, <1>2, <1>3

(* Every variable keeps its type (prisma model scheduled_job_runs).        *)
THEOREM JobTypeInvariant == JobSpec => []JobTypes
<1> USE JobAssumption DEF JobTypes, Status, Terminal, Live
<1>1. JobInit => JobTypes
  <2> SUFFICES ASSUME JobInit PROVE JobTypes
    OBVIOUS
  <2>1. /\ status \in Status \cup {None} /\ attempts \in Nat /\ wait \in Nat
        /\ lease \in {Elapsed} \cup 0..Lease
        /\ done \in BOOLEAN /\ ended \in BOOLEAN
    BY DEF JobInit
  <2>2. crashes \in 0..MaxCrashes /\ faults \in 0..MaxFaults
    BY DEF JobInit
  <2>3. /\ stage \in [Workers -> {"idle", "ensured"} \cup Live]
        /\ seen \in [Workers -> Nat]
    BY DEF JobInit
  <2> QED BY <2>1, <2>2, <2>3
<1>2. JobTypes /\ [JobNext]_jobVars => JobTypes'
  <2> SUFFICES ASSUME JobTypes, [JobNext]_jobVars PROVE JobTypes'
    OBVIOUS
  <2> USE DEF Enter
  <2>1. ASSUME NEW w \in Workers, EnsureJobRow(w) PROVE JobTypes'
    BY <2>1 DEF EnsureJobRow
  <2>2. ASSUME NEW w \in Workers, ClaimJob(w) PROVE JobTypes'
    BY <2>2 DEF ClaimJob
  <2>3. ASSUME NEW w \in Workers, ClaimMissed(w) PROVE JobTypes'
    BY <2>3 DEF ClaimMissed
  <2>4. ASSUME NEW w \in Workers, WorkReturns(w) PROVE JobTypes'
    BY <2>4 DEF WorkReturns
  <2>5. ASSUME NEW w \in Workers, WorkThrows(w) PROVE JobTypes'
    BY <2>5 DEF WorkThrows
  <2>6. ASSUME NEW w \in Workers, CompleteJobSuccess(w) PROVE JobTypes'
    BY <2>6 DEF CompleteJobSuccess
  <2>7. ASSUME NEW w \in Workers, CompleteJobSuccessThrows(w) PROVE JobTypes'
    BY <2>7 DEF CompleteJobSuccessThrows
  <2>8. ASSUME NEW w \in Workers, ReadJob(w) PROVE JobTypes'
    BY <2>8 DEF ReadJob
  <2>9. ASSUME NEW w \in Workers, DeadLetter(w) PROVE JobTypes'
    BY <2>9 DEF DeadLetter
  <2>10. ASSUME NEW w \in Workers, RetryLater(w) PROVE JobTypes'
    <3>1. ComputeBackoff(seen[w]) \in Nat
      BY BackoffType
    <3> QED BY <2>10, <3>1 DEF RetryLater
  <2>11. ASSUME NEW w \in Workers, CompleteJobFailureThrows(w) PROVE JobTypes'
    BY <2>11 DEF CompleteJobFailureThrows
  <2>12. ASSUME NEW w \in Workers, JobCrash(w) PROVE JobTypes'
    BY <2>12 DEF JobCrash
  <2>13. CASE JobTick
    BY <2>13 DEF JobTick
  <2>14. CASE UNCHANGED jobVars
    BY <2>14 DEF jobVars
  <2> QED BY <2>1, <2>2, <2>3, <2>4, <2>5, <2>6, <2>7, <2>8, <2>9, <2>10, <2>11,
             <2>12, <2>13, <2>14 DEF JobNext, RunScheduledJob
<1> QED BY <1>1, <1>2, PTL DEF JobSpec

(* The inductive invariant: the live invocation owns the running row.      *)
LEMMA JobInvariantStep ==
  ASSUME WorkFitsLease, JobTypes, JobTypes', JobInvariant, [JobNext]_jobVars
  PROVE  JobInvariant'
<1> USE JobAssumption
    DEF JobTypes, Status, Terminal, Live, Enter, JobInvariant, OneRunner, AttemptsBounded, OutcomeEarned
<1>1. ASSUME NEW w \in Workers, EnsureJobRow(w) PROVE JobInvariant'
  BY <1>1 DEF EnsureJobRow
<1>2. ASSUME NEW w \in Workers, ClaimJob(w) PROVE JobInvariant'
  <2>1. \A v \in Workers : stage[v] \notin Live
    BY <1>2 DEF ClaimJob, Eligible
  <2>2. attempts + 1 <= MaxAttempts + crashes + faults
    BY <1>2, <2>1 DEF ClaimJob, Eligible
  <2>3. done => crashes + faults > 0
    BY <1>2, <2>1 DEF ClaimJob, Eligible
  <2>4. /\ status' = "running" /\ lease' = Lease /\ attempts' = attempts + 1
        /\ stage' = [stage EXCEPT ![w] = "working"]
        /\ UNCHANGED <<seen, crashes, faults, done, ended>>
    BY <1>2 DEF ClaimJob
  <2>5. \A v \in Workers : stage'[v] \in Live => v = w /\ stage'[v] = "working"
    BY <2>1, <2>4
  <2>6. w \in Workers /\ stage'[w] \in Live
    BY <2>4
  <2>7. ~ended
    BY <1>2 DEF ClaimJob, Eligible
  <2>8. OneRunner' /\ AttemptsBounded' /\ OutcomeEarned'
    BY <2>2, <2>4, <2>5
  <2>9. \A v \in Workers : stage'[v] \in Live =>
          /\ status' = "running"
          /\ lease' >= 0
          /\ stage'[v] = "recording" => seen'[v] = attempts'
          /\ stage'[v] = "completing" => done'
    BY <2>4, <2>5
  <2> QED BY <2>3, <2>4, <2>6, <2>7, <2>8, <2>9
<1>3. ASSUME NEW w \in Workers, ClaimMissed(w) PROVE JobInvariant'
  BY <1>3 DEF ClaimMissed
<1>4. ASSUME NEW w \in Workers, WorkReturns(w) PROVE JobInvariant'
  BY <1>4 DEF WorkReturns
<1>5. ASSUME NEW w \in Workers, WorkThrows(w) PROVE JobInvariant'
  BY <1>5 DEF WorkThrows
<1>6. ASSUME NEW w \in Workers, CompleteJobSuccess(w) PROVE JobInvariant'
  BY <1>6 DEF CompleteJobSuccess
<1>7. ASSUME NEW w \in Workers, CompleteJobSuccessThrows(w) PROVE JobInvariant'
  BY <1>7 DEF CompleteJobSuccessThrows
<1>8. ASSUME NEW w \in Workers, ReadJob(w) PROVE JobInvariant'
  BY <1>8 DEF ReadJob
<1>9. ASSUME NEW w \in Workers, DeadLetter(w) PROVE JobInvariant'
  BY <1>9 DEF DeadLetter, Exhausted
<1>10. ASSUME NEW w \in Workers, RetryLater(w) PROVE JobInvariant'
  BY <1>10 DEF RetryLater, Exhausted
<1>11. ASSUME NEW w \in Workers, CompleteJobFailureThrows(w) PROVE JobInvariant'
  BY <1>11 DEF CompleteJobFailureThrows
<1>12. ASSUME NEW w \in Workers, JobCrash(w) PROVE JobInvariant'
  BY <1>12 DEF JobCrash
<1>13. CASE JobTick
  BY <1>13 DEF JobTick
<1>14. CASE UNCHANGED jobVars
  BY <1>14 DEF jobVars
<1> QED BY <1>1, <1>2, <1>3, <1>4, <1>5, <1>6, <1>7, <1>8, <1>9, <1>10, <1>11, <1>12,
           <1>13, <1>14 DEF JobNext, RunScheduledJob

(* A lease is held by one worker as long as its work fits it.              *)
LEMMA JobCorrect == ASSUME WorkFitsLease PROVE JobSpec => []JobInvariant
<1>1. JobInit => JobInvariant
  BY JobAssumption DEF JobInit, JobInvariant, OneRunner, AttemptsBounded, OutcomeEarned, Live,
                       Status, Terminal
<1>2. JobTypes /\ JobTypes' /\ JobInvariant /\ [JobNext]_jobVars => JobInvariant'
  BY JobInvariantStep
<1> QED BY <1>1, <1>2, JobTypeInvariant, PTL DEF JobSpec

(* At most one invocation of an occurrence is between its claim and its    *)
(* completion (scheduledJob.ts:36-50).                                     *)
THEOREM SingleRunner == ASSUME WorkFitsLease PROVE JobSpec => []OneRunner
<1>1. JobInvariant => OneRunner
  BY DEF JobInvariant
<1> QED BY <1>1, JobCorrect, PTL

(* An occurrence that succeeded or was dead-lettered never runs again      *)
(* (scheduledJob.ts:33-35).                                                *)
THEOREM EndedForGood == ASSUME WorkFitsLease PROVE JobSpec => []EndedStaysEnded
<1>1. JobInvariant => EndedStaysEnded
  BY DEF JobInvariant, EndedStaysEnded, Terminal
<1> QED BY <1>1, JobCorrect, PTL

(* Only abandoned leases add to max_attempts (scheduledJob.ts:67-85).      *)
THEOREM AttemptsAccounted == ASSUME WorkFitsLease PROVE JobSpec => []AttemptsBounded
<1>1. JobInvariant => AttemptsBounded
  BY DEF JobInvariant
<1> QED BY <1>1, JobCorrect, PTL

(* The recorded outcome never changes: only the owner of a running row     *)
(* writes it (scheduledJob.ts:52-85).                                      *)
THEOREM OutcomeIsFinal == ASSUME WorkFitsLease PROVE JobSpec => TerminalIsFinal
<1>1. JobTypes /\ JobInvariant /\ [JobNext]_jobVars
        => [(status \in Terminal) => (status' = status)]_jobVars
  <2> SUFFICES ASSUME JobTypes, JobInvariant, [JobNext]_jobVars, status \in Terminal
               PROVE  status' = status
    OBVIOUS
  <2>1. status # "running" /\ \A w \in Workers : stage[w] \notin Live
    BY DEF JobInvariant, Terminal
  <2>2. ASSUME NEW w \in Workers, RunScheduledJob(w) PROVE status' = status
    BY <2>1, <2>2, JobAssumption
       DEF RunScheduledJob, EnsureJobRow, ClaimJob, ClaimMissed, WorkReturns, WorkThrows,
           CompleteJobSuccess, CompleteJobSuccessThrows, ReadJob, DeadLetter, RetryLater,
           CompleteJobFailureThrows, Eligible, Live, Terminal, Status
  <2>3. ASSUME NEW w \in Workers, JobCrash(w) PROVE status' = status
    BY <2>3 DEF JobCrash
  <2>4. CASE JobTick \/ UNCHANGED jobVars
    BY <2>4 DEF JobTick, jobVars
  <2> QED BY <2>2, <2>3, <2>4 DEF JobNext
<1> QED BY <1>1, JobTypeInvariant, JobCorrect, PTL DEF JobSpec, TerminalIsFinal

------------------------------------------------------------------------------
(* The operations of clients, and the requests and sweeps in flight.       *)
ClientOperations == {"update", "annotate", "archive", "restore", "attach", "detach", "approve",
                     "reject", "pay", "correct", "amend"}

ExpenseRequest ==
  [pc : {"idle", "checked", "sweep", "claimed", "generating"},
   op : ClientOperations \cup {"sweep", None}, on : Nat, shown : Nat, sum : Sums \cup {None},
   change : Amendments \cup {None}, todo : SUBSET Nat, snap : Schedule \cup {None}]

(* What is decided of one expense; a placeholder is a draft.               *)
Decided(e) ==
  /\ ~(e.approved /\ e.rejected)
  /\ e.workflow = "rejected" <=> e.rejected
  /\ e.workflow \in {"approved", "paid"} <=> e.approved
  /\ e.amount = 0 => e.workflow = "draft"

Sweeping(r) == r.pc \in {"sweep", "claimed", "generating"}
Holding(r) == r.pc \in {"claimed", "generating"}

(* What r relies on in the rows x, the schedule s and the runs w. A client *)
(* was shown a version of its expense: as long as that is the version,     *)
(* what was checked of it is still so. A worker holds the run it claimed   *)
(* and generates from a lawful schedule.                                   *)
Relies(r, x, s, w) ==
  /\ r.pc = "checked" /\ r.op # "amend" =>
       /\ r.on \in DOMAIN x /\ r.sum \in Sums
       /\ r.shown <= x[r.on].version
       /\ r.shown = x[r.on].version /\ r.op = "update" =>
            ~x[r.on].archived /\ x[r.on].workflow # "paid"
  /\ r.pc = "checked" /\ r.op = "amend" => s # None /\ r.change \in Amendments
  /\ Sweeping(r) => s # None /\ r.todo \subseteq Days
  /\ Holding(r) => r.on \in Days /\ w[r.on] # None /\ w[r.on].status = "running"
  /\ r.pc = "generating" => r.snap \in Schedule /\ Lawful(r.snap)

RecurringInvariant ==
  /\ expenses \in Seq(Expense) /\ schedule \in Schedule \cup {None}
  /\ run \in [Days -> Run \cup {None}] /\ req \in [Callers -> ExpenseRequest]
  /\ asked \in Nat /\ workload \in Workloads /\ today \in Days
  /\ schedule # None => Lawful(schedule) /\ expenses # <<>>
  /\ schedule = None => \A p \in Days : run[p] = None
  /\ \A e \in DOMAIN expenses : Decided(expenses[e])
  /\ \A c \in Callers : Relies(req[c], expenses, schedule, run)
  /\ \A c, d \in Callers : Holding(req[c]) /\ Holding(req[d]) /\ req[c].on = req[d].on => c = d
  /\ \A e \in Occurrences : expenses[e].period \in Days /\ run[expenses[e].period] # None
  /\ OncePerPeriod

(* The least of a set of days is one of them.                              *)
LEMMA LeastNatural ==
  ASSUME NEW S \in SUBSET Nat, S # {}
  PROVE  Min(S) \in S
<1>1. PICK x \in S : \A y \in S : ~(<<y, x>> \in OpToRel(<, Nat))
  BY WFMin, NatLessThanWellFounded, Zenon
<1>2. ASSUME NEW y \in S PROVE x <= y
  <2>1. ~(<<y, x>> \in OpToRel(<, Nat))
    BY <1>1
  <2>2. x \in Nat /\ y \in Nat
    OBVIOUS
  <2>3. ~(y < x)
    BY <2>1, <2>2 DEF OpToRel
  <2> QED BY <2>2, <2>3
<1> QED BY <1>2 DEF Min

(* The calendar, in numbers.                                               *)
LEMMA DaysAre == Days \subseteq Nat /\ None \notin Days /\ 0 \in Days /\ None \notin Sums
<1>1. MaxDay \in Nat
  BY RecurrenceAssumption
<1>2. Sums \subseteq Nat /\ None \notin Nat
  BY ExpenseAssumption
<1>3. Days \subseteq Nat /\ 0 \in Days
  BY <1>1 DEF Days
<1> QED BY <1>2, <1>3

(* Before the first expense there is nothing in hand.                      *)
LEMMA RecurringInvariantInit == RecurringInit => RecurringInvariant
<1> SUFFICES ASSUME RecurringInit PROVE RecurringInvariant
  OBVIOUS
<1>1. Idle \in ExpenseRequest /\ Idle.pc = "idle"
  BY DEF Idle, ExpenseRequest
<1>2. req \in [Callers -> ExpenseRequest] /\ \A c \in Callers : req[c].pc = "idle"
  BY <1>1 DEF RecurringInit
<1>3. \A c \in Callers : Relies(req[c], expenses, schedule, run) /\ ~Holding(req[c])
  BY <1>2 DEF Relies, Sweeping, Holding
<1>4. expenses = <<>> /\ DOMAIN expenses = {}
  BY DEF RecurringInit
<1>5. Occurrences = {}
  BY <1>4 DEF Occurrences
<1>6. run \in [Days -> Run \cup {None}] /\ \A p \in Days : run[p] = None
  BY DEF RecurringInit
<1>7. OncePerPeriod
  BY <1>5, <1>6 DEF OncePerPeriod
<1> QED
  BY <1>2, <1>3, <1>4, <1>5, <1>6, <1>7, DaysAre DEF RecurringInit, RecurringInvariant

(* A step that leaves the tables alone and puts one request in place.      *)
LEMMA RequestStep ==
  ASSUME RecurringInvariant, NEW c \in Callers, NEW r \in ExpenseRequest,
         req' = [req EXCEPT ![c] = r], UNCHANGED <<expenses, schedule, run, workload, today>>,
         asked' \in Nat, Relies(r, expenses, schedule, run),
         Holding(r) => Holding(req[c]) /\ r.on = req[c].on
  PROVE  RecurringInvariant'
<1>1. req' \in [Callers -> ExpenseRequest] /\ \A d \in Callers : req'[d] = IF d = c THEN r ELSE req[d]
  BY DEF RecurringInvariant
<1>2. \A d \in Callers : Relies(req'[d], expenses, schedule, run)
  BY <1>1 DEF RecurringInvariant
<1>3. \A d, e \in Callers : Holding(req'[d]) /\ Holding(req'[e]) /\ req'[d].on = req'[e].on => d = e
  BY <1>1 DEF RecurringInvariant
<1> QED
  BY <1>1, <1>2, <1>3 DEF RecurringInvariant, Occurrences, OncePerPeriod

(* A request that ends relies on nothing.                                  *)
LEMMA IdleRelies ==
  /\ Idle \in ExpenseRequest /\ ~Holding(Idle)
  /\ \A x, s, w : Relies(Idle, x, s, w)
BY DEF Idle, ExpenseRequest, Relies, Sweeping, Holding

------------------------------------------------------------------------------
(* What a write of an expense keeps: its period and its decisions; a paid  *)
(* one stays paid, of the same amount, and an archived one keeps its       *)
(* amount. The version tells whether the workflow or the archive moved.    *)
Grows(x, y) ==
  /\ y.period = x.period /\ Decided(y) /\ x.version <= y.version
  /\ y.version = x.version => y.workflow = x.workflow /\ y.archived = x.archived
  /\ x.workflow = "paid" => y.workflow = "paid" /\ y.amount = x.amount
  /\ x.archived => y.amount = x.amount

ExpenseRow(x, w, a, v, n, p, q, f, k) ==
  [workflow |-> w, archived |-> a, version |-> v, amount |-> n, approved |-> p, rejected |-> q,
   files |-> f, corrections |-> k, period |-> x.period]

(* A new version of an expense, column by column.                          *)
LEMMA NextVersion ==
  ASSUME NEW x \in Expense
  PROVE  /\ Next1(x) = ExpenseRow(x, x.workflow, x.archived, x.version + 1, x.amount, x.approved, x.rejected,
                                  x.files, x.corrections)
         /\ Next1(x) \in Expense /\ x.version \in Nat
<1>1. x.version + 1 \in Nat /\ x.version \in Nat
  BY DEF Expense
<1>2. Next1(x) = ExpenseRow(x, x.workflow, x.archived, x.version + 1, x.amount, x.approved, x.rejected,
                            x.files, x.corrections)
  BY DEF Next1, Expense, ExpenseRow
<1>3. Next1(x) \in Expense
  BY <1>1, <1>2 DEF Expense, ExpenseRow
<1> QED BY <1>1, <1>2, <1>3

(* The rows the writes of clients leave.                                   *)
Edited(x, n) == [Next1(x) EXCEPT !.amount = n]
Filed(x) == [Next1(x) EXCEPT !.archived = ~@]
ApprovedRow(x) == [Next1(x) EXCEPT !.workflow = "approved", !.approved = TRUE]
RejectedRow(x) == [Next1(x) EXCEPT !.workflow = "rejected", !.rejected = TRUE]
PaidOff(x) == [Next1(x) EXCEPT !.workflow = "paid"]
CorrectedRow(x, n) == [x EXCEPT !.corrections = Append(@, n)]
WithFiles(x, f) == [x EXCEPT !.files = @ \cup f]
WithoutFiles(x, f) == [x EXCEPT !.files = @ \ f]

(* Each, column by column.                                                 *)
LEMMA VersionedWrites ==
  ASSUME NEW x \in Expense, NEW n
  PROVE  LET R(w, a, m, p, q) == ExpenseRow(x, w, a, x.version + 1, m, p, q, x.files, x.corrections) IN
         /\ Edited(x, n) = R(x.workflow, x.archived, n, x.approved, x.rejected)
         /\ Filed(x) = R(x.workflow, ~x.archived, x.amount, x.approved, x.rejected)
         /\ ApprovedRow(x) = R("approved", x.archived, x.amount, TRUE, x.rejected)
         /\ RejectedRow(x) = R("rejected", x.archived, x.amount, x.approved, TRUE)
         /\ PaidOff(x) = R("paid", x.archived, x.amount, x.approved, x.rejected)
<1> DEFINE R(w, a, m, p, q) == ExpenseRow(x, w, a, x.version + 1, m, p, q, x.files, x.corrections)
<1>1. PICK z : z = Next1(x)
  OBVIOUS
<1>2. z = R(x.workflow, x.archived, x.amount, x.approved, x.rejected)
  BY <1>1, NextVersion
<1>3. [z EXCEPT !.amount = n] = R(x.workflow, x.archived, n, x.approved, x.rejected)
  BY <1>2 DEF ExpenseRow
<1>4. [z EXCEPT !.archived = ~@] = R(x.workflow, ~x.archived, x.amount, x.approved, x.rejected)
  BY <1>2 DEF ExpenseRow
<1>5. [z EXCEPT !.workflow = "approved", !.approved = TRUE]
        = R("approved", x.archived, x.amount, TRUE, x.rejected)
  <2> DEFINE z1 == R("approved", x.archived, x.amount, x.approved, x.rejected)
             z2 == R("approved", x.archived, x.amount, TRUE, x.rejected)
  <2>1. [z EXCEPT !.workflow = "approved"] = z1
    BY <1>2 DEF ExpenseRow
  <2>2. ASSUME NEW b PROVE [z1 EXCEPT !.approved = b] = R("approved", x.archived, x.amount, b, x.rejected)
    BY DEF ExpenseRow
  <2>3. [z1 EXCEPT !.approved = TRUE] = z2
    BY <2>2, Zenon
  <2> HIDE DEF z1, z2, R
  <2>4. [z EXCEPT !.workflow = "approved", !.approved = TRUE] = z2
    BY <2>1, <2>3
  <2> QED BY <2>4 DEF z2
<1>6. [z EXCEPT !.workflow = "rejected", !.rejected = TRUE]
        = R("rejected", x.archived, x.amount, x.approved, TRUE)
  <2> DEFINE z1 == R("rejected", x.archived, x.amount, x.approved, x.rejected)
             z2 == R("rejected", x.archived, x.amount, x.approved, TRUE)
  <2>1. [z EXCEPT !.workflow = "rejected"] = z1
    BY <1>2 DEF ExpenseRow
  <2>2. ASSUME NEW b PROVE [z1 EXCEPT !.rejected = b] = R("rejected", x.archived, x.amount, x.approved, b)
    BY DEF ExpenseRow
  <2>3. [z1 EXCEPT !.rejected = TRUE] = z2
    BY <2>2, Zenon
  <2> HIDE DEF z1, z2, R
  <2>4. [z EXCEPT !.workflow = "rejected", !.rejected = TRUE] = z2
    BY <2>1, <2>3
  <2> QED BY <2>4 DEF z2
<1>7. [z EXCEPT !.workflow = "paid"] = R("paid", x.archived, x.amount, x.approved, x.rejected)
  BY <1>2 DEF ExpenseRow
<1> HIDE DEF R
<1> QED BY <1>1, <1>3, <1>4, <1>5, <1>6, <1>7 DEF Edited, Filed, ApprovedRow, RejectedRow, PaidOff, R

(* The writes that leave the version alone, column by column.              *)
LEMMA PlainWrites ==
  ASSUME NEW x \in Expense, NEW n, NEW f
  PROVE  LET R(g, k) == ExpenseRow(x, x.workflow, x.archived, x.version, x.amount, x.approved, x.rejected, g, k) IN
         /\ CorrectedRow(x, n) = R(x.files, Append(x.corrections, n))
         /\ WithFiles(x, f) = R(x.files \cup f, x.corrections)
         /\ WithoutFiles(x, f) = R(x.files \ f, x.corrections)
<1> DEFINE R(g, k) == ExpenseRow(x, x.workflow, x.archived, x.version, x.amount, x.approved, x.rejected, g, k)
<1>1. ASSUME NEW k PROVE [x EXCEPT !.corrections = k] = R(x.files, k)
  BY DEF Expense, ExpenseRow
<1>2. ASSUME NEW g PROVE [x EXCEPT !.files = g] = R(g, x.corrections)
  BY DEF Expense, ExpenseRow
<1> HIDE DEF R
<1>3. /\ CorrectedRow(x, n) = R(x.files, Append(x.corrections, n))
      /\ WithFiles(x, f) = R(x.files \cup f, x.corrections)
      /\ WithoutFiles(x, f) = R(x.files \ f, x.corrections)
  BY <1>1, <1>2 DEF CorrectedRow, WithFiles, WithoutFiles
<1> QED BY <1>3 DEF R

(* A row of the columns of x but for those a write replaces.               *)
LEMMA RowGrows ==
  ASSUME NEW x \in Expense, NEW w \in Workflow, NEW a \in BOOLEAN, NEW v \in Nat, NEW n \in Nat,
         NEW p \in BOOLEAN, NEW q \in BOOLEAN, NEW f \in SUBSET Nat, NEW k \in Seq(Sums),
         ~(p /\ q), w = "rejected" <=> q, w \in {"approved", "paid"} <=> p, n = 0 => w = "draft",
         x.version <= v, v = x.version => w = x.workflow /\ a = x.archived,
         x.workflow = "paid" => w = "paid" /\ n = x.amount, x.archived => n = x.amount
  PROVE  /\ ExpenseRow(x, w, a, v, n, p, q, f, k) \in Expense
         /\ Grows(x, ExpenseRow(x, w, a, v, n, p, q, f, k))
<1>1. x.period \in Nat \cup {None}
  BY DEF Expense
<1>2. ExpenseRow(x, w, a, v, n, p, q, f, k) \in Expense
  BY <1>1 DEF Expense, ExpenseRow
<1>3. PICK y : y = ExpenseRow(x, w, a, v, n, p, q, f, k)
  OBVIOUS
<1>4. /\ y.workflow = w /\ y.archived = a /\ y.version = v /\ y.amount = n /\ y.period = x.period
      /\ y.approved = p /\ y.rejected = q
  BY <1>3 DEF ExpenseRow
<1>5. Decided(y)
  BY <1>4, Zenon DEF Decided
<1>6. Grows(x, y)
  BY <1>4, <1>5 DEF Grows
<1> QED BY <1>2, <1>3, <1>6

(* What each write keeps, where the code allows the write.                 *)
LEMMA WritesGrow ==
  ASSUME NEW x \in Expense, Decided(x)
  PROVE  /\ Next1(x) \in Expense /\ Grows(x, Next1(x))
         /\ \A n \in Sums : ~x.archived /\ x.workflow # "paid" =>
              Edited(x, n) \in Expense /\ Grows(x, Edited(x, n))
         /\ Filed(x) \in Expense /\ Grows(x, Filed(x))
         /\ x.workflow = "pending" => /\ ApprovedRow(x) \in Expense /\ Grows(x, ApprovedRow(x))
                                      /\ RejectedRow(x) \in Expense /\ Grows(x, RejectedRow(x))
         /\ x.workflow = "approved" => PaidOff(x) \in Expense /\ Grows(x, PaidOff(x))
         /\ \A n \in Sums : CorrectedRow(x, n) \in Expense /\ Grows(x, CorrectedRow(x, n))
         /\ \A f \in SUBSET Nat : /\ WithFiles(x, f) \in Expense /\ Grows(x, WithFiles(x, f))
                                  /\ WithoutFiles(x, f) \in Expense /\ Grows(x, WithoutFiles(x, f))
<1>1. /\ x.workflow \in Workflow /\ x.archived \in BOOLEAN /\ x.version \in Nat /\ x.amount \in Nat
      /\ x.approved \in BOOLEAN /\ x.rejected \in BOOLEAN /\ x.files \in SUBSET Nat
      /\ x.corrections \in Seq(Sums)
  BY DEF Expense
<1>2. /\ ~(x.approved /\ x.rejected) /\ (x.workflow = "rejected" <=> x.rejected)
      /\ (x.workflow \in {"approved", "paid"} <=> x.approved) /\ (x.amount = 0 => x.workflow = "draft")
  BY DEF Decided
<1>3. PICK v : v = x.version + 1
  OBVIOUS
<1>4. v \in Nat /\ x.version <= v /\ v # x.version /\ x.version <= x.version
  BY <1>1, <1>3
<1> DEFINE R(w, a, m, p, q) == ExpenseRow(x, w, a, v, m, p, q, x.files, x.corrections)
           S(g, k) == ExpenseRow(x, x.workflow, x.archived, x.version, x.amount, x.approved, x.rejected, g, k)
<1>5. Next1(x) = R(x.workflow, x.archived, x.amount, x.approved, x.rejected)
  BY <1>3, NextVersion
<1>6. ASSUME NEW n
      PROVE  /\ Edited(x, n) = R(x.workflow, x.archived, n, x.approved, x.rejected)
             /\ Filed(x) = R(x.workflow, ~x.archived, x.amount, x.approved, x.rejected)
             /\ ApprovedRow(x) = R("approved", x.archived, x.amount, TRUE, x.rejected)
             /\ RejectedRow(x) = R("rejected", x.archived, x.amount, x.approved, TRUE)
             /\ PaidOff(x) = R("paid", x.archived, x.amount, x.approved, x.rejected)
  BY <1>3, VersionedWrites
<1>15. PICK p \in BOOLEAN, q \in BOOLEAN : p = x.approved /\ q = x.rejected
  BY <1>1
<1>16. ~(p /\ q) /\ (x.workflow = "rejected" <=> q) /\ (x.workflow \in {"approved", "paid"} <=> p)
  BY <1>2, <1>15, Zenon
<1>17. ASSUME NEW a \in BOOLEAN, NEW n \in Nat, n = 0 => x.workflow = "draft",
              x.workflow = "paid" => n = x.amount, x.archived => n = x.amount
       PROVE  /\ R(x.workflow, a, n, p, q) \in Expense
              /\ Grows(x, R(x.workflow, a, n, p, q))
  BY <1>1, <1>4, <1>16, <1>17, RowGrows
<1>7. Next1(x) \in Expense /\ Grows(x, Next1(x))
  <2> HIDE DEF R
  <2> QED BY <1>1, <1>2, <1>5, <1>15, <1>17
<1>8. ASSUME NEW n \in Sums, ~x.archived, x.workflow # "paid"
      PROVE  Edited(x, n) \in Expense /\ Grows(x, Edited(x, n))
  <2>1. n \in Nat /\ n # 0
    BY ExpenseAssumption
  <2> HIDE DEF R
  <2> QED BY <1>1, <1>6, <1>8, <1>15, <1>17, <2>1
<1>9. Filed(x) \in Expense /\ Grows(x, Filed(x))
  <2>1. PICK a \in BOOLEAN : a = ~x.archived
    OBVIOUS
  <2> HIDE DEF R
  <2> QED BY <1>1, <1>2, <1>6, <1>15, <1>17, <2>1
<1>10. ASSUME x.workflow = "pending"
       PROVE  /\ ApprovedRow(x) \in Expense /\ Grows(x, ApprovedRow(x))
              /\ RejectedRow(x) \in Expense /\ Grows(x, RejectedRow(x))
  <2>1. "approved" \in Workflow /\ "rejected" \in Workflow /\ x.amount # 0 /\ ~x.approved /\ ~x.rejected
    BY <1>2, <1>10 DEF Workflow
  <2>2. /\ R("approved", x.archived, x.amount, TRUE, x.rejected) \in Expense
        /\ Grows(x, R("approved", x.archived, x.amount, TRUE, x.rejected))
    BY <1>1, <1>4, <1>10, <2>1, RowGrows
  <2>3. /\ R("rejected", x.archived, x.amount, x.approved, TRUE) \in Expense
        /\ Grows(x, R("rejected", x.archived, x.amount, x.approved, TRUE))
    BY <1>1, <1>4, <1>10, <2>1, RowGrows
  <2> QED BY <1>6, <2>2, <2>3
<1>11. ASSUME x.workflow = "approved"
       PROVE  PaidOff(x) \in Expense /\ Grows(x, PaidOff(x))
  <2>1. "paid" \in Workflow /\ x.amount # 0 /\ x.approved /\ ~x.rejected
    BY <1>2, <1>11 DEF Workflow
  <2>2. /\ R("paid", x.archived, x.amount, x.approved, x.rejected) \in Expense
        /\ Grows(x, R("paid", x.archived, x.amount, x.approved, x.rejected))
    BY <1>1, <1>4, <1>11, <2>1, RowGrows
  <2> QED BY <1>6, <2>2
<1>12. ASSUME NEW g \in SUBSET Nat, NEW k \in Seq(Sums) PROVE S(g, k) \in Expense /\ Grows(x, S(g, k))
  BY <1>1, <1>2, <1>4, RowGrows
<1>13. ASSUME NEW n \in Sums PROVE CorrectedRow(x, n) \in Expense /\ Grows(x, CorrectedRow(x, n))
  <2>1. CorrectedRow(x, n) = S(x.files, Append(x.corrections, n))
    BY PlainWrites
  <2>2. Append(x.corrections, n) \in Seq(Sums)
    BY <1>1
  <2> HIDE DEF S
  <2> QED BY <1>1, <1>12, <2>1, <2>2
<1>14. ASSUME NEW f \in SUBSET Nat
       PROVE  /\ WithFiles(x, f) \in Expense /\ Grows(x, WithFiles(x, f))
              /\ WithoutFiles(x, f) \in Expense /\ Grows(x, WithoutFiles(x, f))
  <2>1. WithFiles(x, f) = S(x.files \cup f, x.corrections) /\ WithoutFiles(x, f) = S(x.files \ f, x.corrections)
    BY PlainWrites
  <2>2. x.files \cup f \in SUBSET Nat /\ x.files \ f \in SUBSET Nat
    BY <1>1
  <2> HIDE DEF S
  <2> QED BY <1>1, <1>12, <2>1, <2>2
<1> QED BY <1>7, <1>8, <1>9, <1>10, <1>11, <1>13, <1>14

(* One write of the expense of a client's request, which ends with it.     *)
WriteOf(c, y) ==
  /\ y \in Expense /\ Grows(expenses[req[c].on], y)
  /\ expenses' = [expenses EXCEPT ![req[c].on] = y]
  /\ req' = [req EXCEPT ![c] = Idle]
  /\ UNCHANGED <<schedule, run, asked, workload>>

Writing(c) ==
  \/ Update(c) \/ Archive(c) \/ Approve(c) \/ Reject(c) \/ MarkPaid(c) \/ Correct(c)
  \/ AddAttachment(c) \/ DeleteAttachment(c)

(* Every operation on an expense is such a write of one that exists.       *)
LEMMA ClientWrites ==
  ASSUME RecurringInvariant, NEW c \in Callers, Writing(c)
  PROVE  req[c].on \in DOMAIN expenses /\ \E y : WriteOf(c, y)
<1> DEFINE r == req[c]  x == expenses[r.on]
<1>1. /\ r.pc = "checked" /\ r.op # "amend"
      /\ Writing(c) => Doing(c, {"update", "annotate", "archive", "restore", "approve", "reject", "pay",
                                 "correct", "attach", "detach"})
  BY DEF Writing, Update, Archive, Approve, Reject, MarkPaid, Correct, AddAttachment, DeleteAttachment, Doing
<1>2. /\ r.on \in DOMAIN expenses /\ r.sum \in Sums
      /\ r.shown = x.version /\ r.op = "update" => ~x.archived /\ x.workflow # "paid"
  BY <1>1 DEF RecurringInvariant, Relies
<1>3. x \in Expense /\ Decided(x) /\ r.todo \in SUBSET Nat
  <2>1. expenses \in Seq(Expense) /\ req[c] \in ExpenseRequest
    BY DEF RecurringInvariant
  <2>2. x \in Expense
    BY <1>2, <2>1, LenProperties, ElementOfSeq
  <2>3. r.todo \in SUBSET Nat
    BY <2>1 DEF ExpenseRequest
  <2> QED BY <1>2, <2>2, <2>3 DEF RecurringInvariant
<1>4. ASSUME NEW y, Change(c, y), y \in Expense, Grows(x, y) PROVE WriteOf(c, y)
  BY <1>4 DEF Change, Done, WriteOf
<1>6. Writing(c) =>
        \/ Change(c, Next1(x))
        \/ r.op = "update" /\ r.shown = x.version /\ Change(c, Edited(x, r.sum))
        \/ Change(c, Filed(x))
        \/ x.workflow = "pending" /\ (Change(c, ApprovedRow(x)) \/ Change(c, RejectedRow(x)))
        \/ x.workflow = "approved" /\ Change(c, PaidOff(x))
        \/ Change(c, CorrectedRow(x, r.sum))
        \/ Change(c, WithFiles(x, r.todo))
        \/ Change(c, WithoutFiles(x, r.todo))
  BY DEF Writing, Update, Archive, Approve, Reject, MarkPaid, Correct, AddAttachment, DeleteAttachment,
     Fresh, StillIn, Edited, Filed, ApprovedRow, RejectedRow, PaidOff, CorrectedRow, WithFiles, WithoutFiles
<1> HIDE DEF x
<1>7. ASSUME x.workflow = "pending", Change(c, ApprovedRow(x)) \/ Change(c, RejectedRow(x))
      PROVE  \E y : WriteOf(c, y)
  BY <1>3, <1>4, <1>7, WritesGrow
<1>8. ASSUME r.op = "update", r.shown = x.version, Change(c, Edited(x, r.sum))
      PROVE  \E y : WriteOf(c, y)
  BY <1>2, <1>3, <1>4, <1>8, WritesGrow
<1>9. ASSUME x.workflow = "approved", Change(c, PaidOff(x)) PROVE \E y : WriteOf(c, y)
  BY <1>3, <1>4, <1>9, WritesGrow
<1>10. ASSUME Change(c, Next1(x)) \/ Change(c, Filed(x)) PROVE \E y : WriteOf(c, y)
  BY <1>3, <1>4, <1>10, WritesGrow
<1>11. ASSUME \/ Change(c, CorrectedRow(x, r.sum)) \/ Change(c, WithFiles(x, r.todo))
              \/ Change(c, WithoutFiles(x, r.todo))
       PROVE  \E y : WriteOf(c, y)
  BY <1>2, <1>3, <1>4, <1>11, WritesGrow
<1> QED BY <1>2, <1>6, <1>7, <1>8, <1>9, <1>10, <1>11

(* Rows that keep their periods say the same of every run.                 *)
LEMMA SamePeriods ==
  ASSUME RecurringInvariant, run' = run, DOMAIN expenses' = DOMAIN expenses,
         \A e \in DOMAIN expenses : expenses'[e].period = expenses[e].period
  PROVE  /\ OncePerPeriod'
         /\ (\A e \in Occurrences : expenses[e].period \in Days /\ run[expenses[e].period] # None)'
<1>1. Occurrences' = Occurrences /\ Occurrences \subseteq DOMAIN expenses
  BY DEF Occurrences
<1>2. /\ \A e \in Occurrences : expenses[e].period \in Days /\ run[expenses[e].period] # None
      /\ OncePerPeriod
  BY DEF RecurringInvariant
<1> QED BY <1>1, <1>2 DEF OncePerPeriod

(* One write of an expense by a client.                                    *)
LEMMA WriteStep ==
  ASSUME RecurringInvariant, NEW c \in Callers, NEW y, req[c].on \in DOMAIN expenses, WriteOf(c, y),
         today' = today
  PROVE  RecurringInvariant'
<1> DEFINE i == req[c].on
<1>1. /\ y \in Expense /\ Grows(expenses[i], y) /\ expenses' = [expenses EXCEPT ![i] = y]
      /\ req' = [req EXCEPT ![c] = Idle]
      /\ schedule' = schedule /\ run' = run /\ asked' = asked /\ workload' = workload
  BY DEF WriteOf
<1>2. expenses \in Seq(Expense) /\ req \in [Callers -> ExpenseRequest] /\ i \in DOMAIN expenses
  BY DEF RecurringInvariant
<1> HIDE DEF i
<1>3. /\ expenses' \in Seq(Expense) /\ DOMAIN expenses' = DOMAIN expenses /\ expenses' # <<>>
      /\ \A e \in DOMAIN expenses : expenses'[e] = IF e = i THEN y ELSE expenses[e]
  <2>1. PICK n \in Nat : expenses \in [1..n -> Expense]
    BY <1>2, SeqDef
  <2>2. expenses' \in [1..n -> Expense]
    BY <1>1, <2>1
  <2>3. expenses' \in Seq(Expense)
    BY <2>2, SeqDef
  <2>4. i \in DOMAIN expenses'
    BY <1>2, <2>1, <2>2
  <2>5. expenses' # <<>>
    BY <2>4
  <2> QED BY <1>1, <1>2, <2>1, <2>2, <2>3, <2>5
<1>4. \A e \in DOMAIN expenses' : Decided(expenses'[e])
  BY <1>1, <1>3 DEF RecurringInvariant, Grows
<1>5. \A e \in DOMAIN expenses : expenses'[e].period = expenses[e].period
  BY <1>1, <1>3 DEF Grows
<1>6. req' \in [Callers -> ExpenseRequest] /\ \A d \in Callers : req'[d] = IF d = c THEN Idle ELSE req[d]
  BY <1>1, <1>2, IdleRelies
<1>7. ASSUME NEW d \in Callers PROVE Relies(req'[d], expenses', schedule, run)
  <2>1. CASE d = c
    BY <1>6, <2>1, IdleRelies
  <2>2. CASE d # c
    <3>1. Relies(req[d], expenses, schedule, run) /\ req'[d] = req[d]
      BY <1>6, <2>2 DEF RecurringInvariant
    <3>2. \A e \in DOMAIN expenses : expenses[e].version \in Nat /\ expenses'[e].version \in Nat
      <4>1. \A e \in DOMAIN expenses : expenses[e] \in Expense
        BY <1>2, LenProperties, ElementOfSeq
      <4>2. \A e \in DOMAIN expenses : expenses'[e] \in Expense
        BY <1>1, <1>3, <4>1
      <4>3. \A x \in Expense : x.version \in Nat
        BY DEF Expense
      <4> QED BY <4>1, <4>2, <4>3
    <3>3. req[d].shown \in Nat
      BY <1>2 DEF ExpenseRequest
    <3>4. \A e \in DOMAIN expenses :
            /\ expenses[e].version <= expenses'[e].version
            /\ expenses'[e].version = expenses[e].version =>
                 /\ expenses'[e].workflow = expenses[e].workflow
                 /\ expenses'[e].archived = expenses[e].archived
      <4>1. Grows(expenses[i], y)
        BY <1>1
      <4>2. ASSUME NEW e \in DOMAIN expenses, e # i
            PROVE  /\ expenses[e].version <= expenses'[e].version
                   /\ expenses'[e].workflow = expenses[e].workflow
                   /\ expenses'[e].archived = expenses[e].archived
        <5>1. expenses'[e] = expenses[e] /\ expenses[e].version \in Nat
          BY <1>3, <3>2, <4>2
        <5>2. expenses[e].version <= expenses[e].version
          BY <5>1
        <5> QED BY <5>1, <5>2
      <4>3. expenses'[i] = y
        BY <1>2, <1>3
      <4> QED BY <4>1, <4>2, <4>3 DEF Grows
    <3>5. ASSUME req[d].pc = "checked", req[d].op # "amend"
          PROVE  LET e == req[d].on IN
                 /\ e \in DOMAIN expenses' /\ req[d].sum \in Sums /\ req[d].shown <= expenses'[e].version
                 /\ req[d].shown = expenses'[e].version /\ req[d].op = "update" =>
                      ~expenses'[e].archived /\ expenses'[e].workflow # "paid"
      <4>1. PICK e : e = req[d].on
        OBVIOUS
      <4>2. /\ e \in DOMAIN expenses /\ req[d].sum \in Sums /\ req[d].shown <= expenses[e].version
            /\ req[d].shown = expenses[e].version /\ req[d].op = "update" =>
                 ~expenses[e].archived /\ expenses[e].workflow # "paid"
        BY <3>1, <3>5, <4>1 DEF Relies
      <4>3. PICK v \in Nat, w \in Nat, s \in Nat :
              v = expenses[e].version /\ w = expenses'[e].version /\ s = req[d].shown
        BY <3>2, <3>3, <4>2
      <4>4. v <= w /\ s <= v /\ (s = w => v = w)
        BY <3>4, <4>2, <4>3
      <4> QED BY <1>3, <3>4, <4>1, <4>2, <4>3, <4>4
    <3> QED BY <3>1, <3>5 DEF Relies
  <2> QED BY <2>1, <2>2
<1>8. \A d, e \in Callers : Holding(req'[d]) /\ Holding(req'[e]) /\ req'[d].on = req'[e].on => d = e
  BY <1>6, IdleRelies DEF RecurringInvariant
<1>9. /\ OncePerPeriod'
      /\ (\A e \in Occurrences : expenses[e].period \in Days /\ run[expenses[e].period] # None)'
  BY <1>1, <1>3, <1>5, SamePeriods
<1> QED
  BY <1>1, <1>3, <1>4, <1>6, <1>7, <1>8, <1>9 DEF RecurringInvariant

(* A new expense row, of a client or generated.                            *)
LEMMA NewRow ==
  ASSUME NEW n \in Nat, NEW w \in {"draft", "pending"}, NEW p \in Nat \cup {None}, n = 0 => w = "draft"
  PROVE  /\ NewExpense(n, w, p) \in Expense /\ Decided(NewExpense(n, w, p))
         /\ NewExpense(n, w, p).period = p /\ NewExpense(n, w, p).version = 0
<1>1. PICK b \in BOOLEAN : b = (w = "paid")
  OBVIOUS
<1>2. b = FALSE
  BY <1>1
<1>3. PICK y : y = NewExpense(n, w, p)
  OBVIOUS
<1>4. y = [workflow |-> w, archived |-> FALSE, version |-> 0, amount |-> n, approved |-> b, rejected |-> FALSE,
           files |-> {}, corrections |-> <<>>, period |-> p]
  BY <1>1, <1>3 DEF NewExpense
<1>5. w \in Workflow /\ <<>> \in Seq(Sums)
  BY DEF Workflow
<1>6. y \in Expense
  BY <1>4, <1>5 DEF Expense
<1>7. y.workflow = w /\ y.approved = b /\ y.rejected = FALSE /\ y.amount = n /\ y.period = p /\ y.version = 0
  BY <1>4
<1>8. Decided(y)
  <2>1. ~y.approved /\ ~y.rejected
    BY <1>2, <1>7
  <2> QED BY <1>7, <2>1 DEF Decided
<1> QED BY <1>3, <1>6, <1>7, <1>8

(* An appended row leaves the others, and what requests rely on, as it was.*)
LEMMA RowAppended ==
  ASSUME RecurringInvariant, NEW y \in Expense, expenses' = Append(expenses, y)
  PROVE  /\ expenses' \in Seq(Expense) /\ expenses' # <<>>
         /\ DOMAIN expenses' = DOMAIN expenses \cup {Len(expenses) + 1}
         /\ Len(expenses) + 1 \notin DOMAIN expenses
         /\ expenses'[Len(expenses) + 1] = y
         /\ \A e \in DOMAIN expenses : expenses'[e] = expenses[e]
         /\ \A r, s, w : Relies(r, expenses, s, w) => Relies(r, expenses', s, w)
<1>1. expenses \in Seq(Expense)
  BY DEF RecurringInvariant
<1>2. /\ expenses' \in Seq(Expense) /\ expenses' # <<>> /\ Len(expenses') = Len(expenses) + 1
      /\ \A e \in 1..Len(expenses) : expenses'[e] = expenses[e]
      /\ expenses'[Len(expenses) + 1] = y
  BY <1>1, AppendProperties
<1>3. /\ DOMAIN expenses = 1..Len(expenses) /\ Len(expenses) \in Nat
      /\ DOMAIN expenses' = 1..(Len(expenses) + 1)
  BY <1>1, <1>2, LenProperties
<1>4. /\ DOMAIN expenses' = DOMAIN expenses \cup {Len(expenses) + 1}
      /\ Len(expenses) + 1 \notin DOMAIN expenses
  BY <1>3
<1>5. \A e \in DOMAIN expenses : expenses'[e] = expenses[e]
  BY <1>2, <1>3
<1>6. ASSUME NEW r, NEW s, NEW w, Relies(r, expenses, s, w) PROVE Relies(r, expenses', s, w)
  BY <1>4, <1>5, <1>6 DEF Relies
<1> QED BY <1>2, <1>4, <1>5, <1>6

(* A client creates an expense, with a lawful schedule or without one.     *)
LEMMA CreateStep ==
  ASSUME RecurringInvariant, CreateExpense, today' = today
  PROVE  RecurringInvariant'
<1>1. PICK amount \in Sums : expenses' = Append(expenses, NewExpense(amount, "pending", None))
  BY DEF CreateExpense
<1>2. PICK y : y = NewExpense(amount, "pending", None)
  OBVIOUS
<1>3. y \in Expense /\ Decided(y) /\ y.period = None
  <2>1. amount \in Nat /\ amount # 0
    BY ExpenseAssumption
  <2> QED BY <1>2, <2>1, NewRow
<1>4. expenses' = Append(expenses, y)
  BY <1>1, <1>2
<1>5. /\ expenses' \in Seq(Expense) /\ expenses' # <<>>
      /\ DOMAIN expenses' = DOMAIN expenses \cup {Len(expenses) + 1}
      /\ Len(expenses) + 1 \notin DOMAIN expenses
      /\ expenses'[Len(expenses) + 1] = y
      /\ \A e \in DOMAIN expenses : expenses'[e] = expenses[e]
  BY <1>3, <1>4, RowAppended
<1>6. \A r, s, w : Relies(r, expenses, s, w) => Relies(r, expenses', s, w)
  BY <1>3, <1>4, RowAppended
<1>7. run' = run /\ req' = req /\ asked' = asked /\ workload' = workload
  BY DEF CreateExpense
<1>8. \/ schedule' = schedule
      \/ /\ schedule = None /\ schedule' \in workload.schedules
         /\ schedule' # None => Lawful(schedule')
  BY DEF CreateExpense, RecurringInvariant
<1>9. schedule' \in Schedule \cup {None} /\ (schedule' # None => Lawful(schedule'))
      /\ (schedule' = None => \A p \in Days : run'[p] = None)
  <2>1. CASE schedule' = schedule
    BY <1>7, <2>1 DEF RecurringInvariant
  <2>2. CASE schedule = None /\ schedule' \in workload.schedules /\ (schedule' # None => Lawful(schedule'))
    <3>1. workload \in Workloads
      BY DEF RecurringInvariant
    <3>2. workload.schedules \subseteq Schedule \cup {None}
      BY <3>1, RecurrenceAssumption
    <3> QED BY <1>7, <2>2, <3>2 DEF RecurringInvariant
  <2> QED BY <1>8, <2>1, <2>2
<1>10. \A c \in Callers : Relies(req'[c], expenses', schedule', run')
  <2> SUFFICES ASSUME NEW c \in Callers PROVE Relies(req[c], expenses', schedule', run)
    BY <1>7
  <2>1. Relies(req[c], expenses', schedule, run)
    BY <1>6 DEF RecurringInvariant
  <2>2. schedule # None => schedule' # None
    BY <1>8
  <2> QED BY <2>1, <2>2 DEF Relies
<1>11. Occurrences' = Occurrences
  BY <1>3, <1>5 DEF Occurrences
<1>12. \A e \in Occurrences : e \in DOMAIN expenses /\ expenses'[e] = expenses[e]
  BY <1>5 DEF Occurrences
<1>13. OncePerPeriod' /\ \A e \in Occurrences' : expenses'[e].period \in Days /\ run'[expenses'[e].period] # None
  BY <1>7, <1>11, <1>12 DEF OncePerPeriod, RecurringInvariant
<1>14. \A e \in DOMAIN expenses' : Decided(expenses'[e])
  BY <1>3, <1>5 DEF RecurringInvariant
<1> QED
  BY <1>5, <1>7, <1>9, <1>10, <1>13, <1>14 DEF RecurringInvariant

(* A quotient, rounded down.                                               *)
LEMMA Quotient ==
  ASSUME NEW a \in Nat, NEW b \in Nat \ {0}
  PROVE  a \div b \in Nat /\ b * (a \div b) <= a
<1>1. a \div b \in Int /\ a % b \in 0..(b - 1) /\ a = b * (a \div b) + (a % b)
  OBVIOUS
<1>2. PICK q \in Int, r \in 0..(b - 1) : q = a \div b /\ a = b * q + r
  BY <1>1
<1>3. q >= 0
  <2>1. SUFFICES ASSUME q <= -1 PROVE FALSE
    BY <1>2
  <2>2. b * q <= -b
    BY <2>1
  <2> QED BY <1>2, <2>2
<1> QED BY <1>2, <1>3

(* A multiple leaves no remainder.                                         *)
LEMMA Multiple ==
  ASSUME NEW m \in Nat \ {0}, NEW k \in Nat
  PROVE  (m * k) % m = 0
<1>1. PICK q \in Int, r \in 0..(m - 1) : q = (m * k) \div m /\ r = (m * k) % m /\ m * k = m * q + r
  OBVIOUS
<1>2. m * (k - q) = r
  BY <1>1
<1>3. PICK j \in Int : j = k - q /\ m * j = r
  BY <1>2
<1>4. ~(j >= 1)
  <2>1. SUFFICES ASSUME j >= 1 PROVE FALSE
    OBVIOUS
  <2>2. m * j >= m
    BY <2>1
  <2> QED BY <1>3, <2>2
<1>5. ~(j <= -1)
  <2>1. SUFFICES ASSUME j <= -1 PROVE FALSE
    OBVIOUS
  <2>2. m * j <= -m
    BY <2>1
  <2> QED BY <1>3, <2>2
<1>6. j = 0
  BY <1>4, <1>5
<1> QED BY <1>1, <1>3, <1>6

(* An instant at midnight is twice its day.                                *)
LEMMA HalfOf == \A j \in Nat : (2 * j) \div 2 = j
OBVIOUS

(* What a schedule is due are days of the calendar up to today; of a       *)
(* rolling one they are whole intervals after its next run, or its start.  *)
LEMMA DueAre ==
  ASSUME NEW s \in Schedule, today \in Days
  PROVE  /\ DuePeriods(s) \subseteq Days
         /\ s.frequency = "weekly" => \A p \in DuePeriods(s) :
              \E k \in Nat : p = (IF s.next = None THEN s.start ELSE s.next) + (Week * s.interval) * k
<1> DEFINE u == EffectiveWindowStart(s)  f == FirstCursor(s)  d == DaysIn(s.frequency)
           n == IF s.next = None THEN s.start ELSE s.next
           top == IF s.frequency = "monthly" THEN MonthStart(2 * today) ELSE 2 * today
           m == Week * s.interval
<1>1. /\ s.frequency \in Frequencies /\ s.interval \in Nat \ {0} /\ s.start \in Nat /\ n \in Nat
      /\ Week \in Nat \ {0} /\ Month \in Nat \ {0} /\ Onboarded \in Nat /\ today \in Nat /\ MaxDay \in Nat
      /\ today <= MaxDay
  BY RecurrenceAssumption DEF Schedule, Days
<1>2. d \in Nat \ {0} /\ (s.frequency = "weekly" => d = Week)
  BY <1>1 DEF DaysIn, Frequencies
<1>3. u \in Nat
  <2>1. PICK y : y = WindowStart(s)
    OBVIOUS
  <2>2. y \in Int
    <3>1. PICK x : x = d
      OBVIOUS
    <3>2. y = 2 * today + 1 - 2 * x * (IF s.frequency = "daily" THEN 3 ELSE 2)
      BY <2>1, <3>1 DEF WindowStart
    <3> HIDE DEF d
    <3> QED BY <1>1, <1>2, <3>1, <3>2
  <2>3. PICK x : x = 2 * Latest(Onboarded, s.start)
    OBVIOUS
  <2>4. x \in Nat
    BY <1>1, <2>3 DEF Latest
  <2>5. u = Latest(y, x)
    BY <2>1, <2>3 DEF EffectiveWindowStart
  <2> HIDE DEF u
  <2> QED BY <2>2, <2>4, <2>5 DEF Latest
<1>4. ASSUME NEW i \in Nat PROVE MonthStart(i) \in Nat /\ MonthStart(i) <= i
  <2>1. PICK b \in Nat \ {0} : b = 2 * Month
    BY <1>1
  <2>2. i \div b \in Nat /\ b * (i \div b) <= i
    BY <2>1, Quotient
  <2>3. PICK q \in Nat : q = i \div b /\ b * q <= i
    BY <2>2
  <2>4. MonthStart(i) = q * 2 * Month
    BY <2>1, <2>3 DEF MonthStart
  <2>5. q * 2 * Month = b * q
    BY <1>1, <2>1
  <2> QED BY <2>3, <2>4, <2>5
<1>5. /\ f \in Nat
      /\ s.frequency = "weekly" => \E q \in Nat : f = 2 * (n + m * q)
  <2> HIDE DEF u
  <2>1. CASE s.frequency = "daily"
    <3>1. f = IF u > 2 * today THEN 2 * today ELSE u
      BY <2>1 DEF FirstCursor, u
    <3> QED BY <1>1, <1>3, <2>1, <3>1
  <2>2. CASE s.frequency = "monthly"
    <3>1. f = MonthStart(IF u > 2 * today THEN 2 * today ELSE u)
      BY <2>2 DEF FirstCursor, u
    <3>2. (IF u > 2 * today THEN 2 * today ELSE u) \in Nat
      BY <1>1, <1>3
    <3> QED BY <1>4, <2>2, <3>1, <3>2
  <2>3. CASE s.frequency = "weekly"
    <3>1. f = SkipTo(2 * n, 2 * Week * s.interval, u)
      BY <2>3 DEF FirstCursor, u
    <3>2. PICK b \in Nat \ {0} : b = 2 * Week * s.interval /\ b = 2 * m
      BY <1>1
    <3> HIDE DEF m, n
    <3>3. f = IF 2 * n >= u THEN 2 * n ELSE 2 * n + b * ((u - 2 * n + b - 1) \div b)
      BY <3>1, <3>2 DEF SkipTo
    <3>4. CASE 2 * n >= u
      <4>1. m \in Nat
        BY <1>1 DEF m
      <4>2. f = 2 * (n + m * 0)
        BY <1>1, <3>3, <3>4, <4>1
      <4> QED BY <1>1, <4>1, <4>2
    <3>5. CASE ~(2 * n >= u)
      <4>1. PICK a \in Nat : a = u - 2 * n + b - 1
        BY <1>1, <1>3, <3>2, <3>5
      <4>2. a \div b \in Nat
        BY <3>2, Quotient
      <4>3. PICK q \in Nat : q = a \div b
        BY <4>2
      <4>4. f = 2 * n + b * q
        BY <3>3, <3>5, <4>1, <4>3
      <4>5. m \in Nat
        BY <1>1 DEF m
      <4>6. b * q = 2 * (m * q)
        BY <3>2, <4>5
      <4>7. m * q \in Nat
        BY <4>5
      <4>8. f = 2 * (n + m * q)
        BY <1>1, <4>4, <4>6, <4>7
      <4> QED BY <1>1, <4>7, <4>8
    <3> QED BY <3>4, <3>5
  <2> QED BY <1>1, <2>1, <2>2, <2>3 DEF Frequencies
<1>6. top \in Nat /\ top <= 2 * today
  BY <1>1, <1>4
<1>7. ASSUME NEW p \in DuePeriods(s)
      PROVE  \E i, k \in Nat : p = i \div 2 /\ i <= top /\ i = f + 2 * d * s.interval * k
  <2>1. PICK i : /\ i \in {f + 2 * d * s.interval * k : k \in 0..(MaxOccurrences - 1)}
                 /\ i <= top /\ p = i \div 2
    BY DEF DuePeriods
  <2>2. MaxOccurrences = 3
    BY DEF MaxOccurrences
  <2> HIDE DEF f, d, top
  <2>3. PICK k \in 0..2 : i = f + 2 * d * s.interval * k
    BY <2>1, <2>2
  <2>4. 2 * d * s.interval * k \in Nat
    BY <1>1, <1>2
  <2>5. i \in Nat /\ k \in Nat
    BY <1>5, <2>3, <2>4
  <2> QED BY <2>1, <2>3, <2>5
<1> HIDE DEF f, d, top, u
<1>8. ASSUME NEW p \in DuePeriods(s) PROVE p \in Days
  <2>1. PICK i \in Nat : p = i \div 2 /\ i <= top
    BY <1>7
  <2>2. i \div 2 \in Nat /\ 2 * (i \div 2) <= i
    BY Quotient
  <2>3. PICK h \in Nat : h = p /\ 2 * h <= i
    BY <2>1, <2>2
  <2>4. h <= MaxDay
    BY <1>1, <1>6, <2>1, <2>3
  <2> QED BY <1>1, <2>3, <2>4 DEF Days
<1>9. ASSUME s.frequency = "weekly", NEW p \in DuePeriods(s)
      PROVE  \E k \in Nat : p = n + m * k
  <2>1. PICK i \in Nat, k \in Nat : p = i \div 2 /\ i = f + 2 * d * s.interval * k
    BY <1>7
  <2>2. PICK q \in Nat : f = 2 * (n + m * q)
    BY <1>5, <1>9
  <2>3. 2 * d * s.interval = 2 * m /\ m \in Nat
    BY <1>1, <1>2, <1>9
  <2>4. PICK e \in Nat : e = m
    BY <2>3
  <2> HIDE DEF m, n
  <2>5. i = f + (2 * e) * k
    BY <2>1, <2>3, <2>4
  <2>6. f = 2 * (n + e * q)
    BY <2>2, <2>4
  <2>7. i = 2 * (n + e * (q + k))
    BY <1>1, <2>5, <2>6
  <2>8. n + e * (q + k) \in Nat
    BY <1>1
  <2>9. p = n + e * (q + k)
    BY <2>1, <2>7, <2>8, HalfOf
  <2> QED BY <2>4, <2>9
<1> QED BY <1>8, <1>9

(* A request, field by field.                                              *)
RequestOf(at, op, on, v, n, ch, t, s) ==
  [pc |-> at, op |-> op, on |-> on, shown |-> v, sum |-> n, change |-> ch, todo |-> t, snap |-> s]

(* The request of a client that checked its expense.                       *)
CheckOf(at, op, on, v, n, t) ==
  [Idle EXCEPT !.pc = at, !.op = op, !.on = on, !.sum = n, !.shown = v, !.todo = t]

(* The requests that start.                                                *)
LEMMA NewCheck ==
  ASSUME NEW at, NEW op, NEW on, NEW v, NEW n, NEW t
  PROVE  CheckOf(at, op, on, v, n, t) = RequestOf(at, op, on, v, n, None, t, None)
<1>1. PICK x, idle : x = Idle /\ idle = "idle"
  OBVIOUS
<1>2. x = RequestOf(idle, None, 0, 0, None, None, {}, None)
  BY <1>1 DEF Idle, RequestOf
<1>3. PICK a : a = [x EXCEPT !.pc = at]
  OBVIOUS
<1>4. a = RequestOf(at, None, 0, 0, None, None, {}, None)
  BY <1>2, <1>3 DEF RequestOf
<1>5. PICK b : b = [a EXCEPT !.op = op]
  OBVIOUS
<1>6. b = RequestOf(at, op, 0, 0, None, None, {}, None)
  BY <1>4, <1>5 DEF RequestOf
<1>7. PICK d : d = [b EXCEPT !.on = on]
  OBVIOUS
<1>8. d = RequestOf(at, op, on, 0, None, None, {}, None)
  BY <1>6, <1>7 DEF RequestOf
<1>9. PICK e : e = [d EXCEPT !.sum = n]
  OBVIOUS
<1>10. e = RequestOf(at, op, on, 0, n, None, {}, None)
  BY <1>8, <1>9 DEF RequestOf
<1>11. PICK f : f = [e EXCEPT !.shown = v]
  OBVIOUS
<1>12. f = RequestOf(at, op, on, v, n, None, {}, None)
  BY <1>10, <1>11 DEF RequestOf
<1>13. [f EXCEPT !.todo = t] = RequestOf(at, op, on, v, n, None, t, None)
  BY <1>12 DEF RequestOf
<1> QED BY <1>1, <1>3, <1>5, <1>7, <1>9, <1>11, <1>13 DEF CheckOf

(* One more field of a request replaced.                                   *)
LEMMA NewRequest ==
  ASSUME NEW at, NEW op, NEW z
  PROVE  /\ [Idle EXCEPT !.pc = at, !.op = op, !.change = z] = RequestOf(at, op, 0, 0, None, z, {}, None)
         /\ [Idle EXCEPT !.pc = at, !.op = op, !.todo = z] = RequestOf(at, op, 0, 0, None, None, z, None)
<1>1. PICK x, idle : x = Idle /\ idle = "idle"
  OBVIOUS
<1>2. x = RequestOf(idle, None, 0, 0, None, None, {}, None)
  BY <1>1 DEF Idle, RequestOf
<1>3. PICK a : a = [x EXCEPT !.pc = at]
  OBVIOUS
<1>4. a = RequestOf(at, None, 0, 0, None, None, {}, None)
  BY <1>2, <1>3 DEF RequestOf
<1>5. PICK b : b = [a EXCEPT !.op = op]
  OBVIOUS
<1>6. b = RequestOf(at, op, 0, 0, None, None, {}, None)
  BY <1>4, <1>5 DEF RequestOf
<1>7. /\ [b EXCEPT !.change = z] = RequestOf(at, op, 0, 0, None, z, {}, None)
      /\ [b EXCEPT !.todo = z] = RequestOf(at, op, 0, 0, None, None, z, None)
  BY <1>6 DEF RequestOf
<1> QED BY <1>1, <1>3, <1>5, <1>7

(* A client's request that was checked on the rows as they are.            *)
LEMMA AskRequest ==
  ASSUME NEW c \in Callers, Ask(c)
  PROVE  /\ \E op \in workload.ops : \E e \in DOMAIN expenses : \E n \in Sums :
              /\ Admissible(op, expenses[e])
              /\ \E file \in IF op = "detach" THEN expenses[e].files ELSE {asked} :
                   req' = [req EXCEPT ![c] = RequestOf("checked", op, e, expenses[e].version, n, None,
                                                       {file}, None)]
         /\ asked' = asked + 1 /\ workload' = workload /\ UNCHANGED <<expenses, schedule, run>>
<1>1. PICK op \in workload.ops : \E e \in DOMAIN expenses, n \in Sums :
        /\ Admissible(op, expenses[e])
        /\ \E file \in IF op = "detach" THEN expenses[e].files ELSE {asked} :
             Compose(c, [Idle EXCEPT !.pc = "checked", !.op = op, !.on = e, !.sum = n,
                                     !.shown = expenses[e].version, !.todo = {file}])
  BY DEF Ask
<1>2. PICK e \in DOMAIN expenses : \E n \in Sums :
        /\ Admissible(op, expenses[e])
        /\ \E file \in IF op = "detach" THEN expenses[e].files ELSE {asked} :
             Compose(c, [Idle EXCEPT !.pc = "checked", !.op = op, !.on = e, !.sum = n,
                                     !.shown = expenses[e].version, !.todo = {file}])
  BY <1>1
<1>3. PICK n \in Sums :
        /\ Admissible(op, expenses[e])
        /\ \E file \in IF op = "detach" THEN expenses[e].files ELSE {asked} :
             Compose(c, [Idle EXCEPT !.pc = "checked", !.op = op, !.on = e, !.sum = n,
                                     !.shown = expenses[e].version, !.todo = {file}])
  BY <1>2
<1>4. PICK file \in IF op = "detach" THEN expenses[e].files ELSE {asked} :
        Compose(c, [Idle EXCEPT !.pc = "checked", !.op = op, !.on = e, !.sum = n,
                                !.shown = expenses[e].version, !.todo = {file}])
  BY <1>3
<1>5. PICK v, t : v = expenses[e].version /\ t = {file}
  OBVIOUS
<1>6. CheckOf("checked", op, e, v, n, t) = RequestOf("checked", op, e, v, n, None, t, None)
  BY NewCheck
<1>7. [Idle EXCEPT !.pc = "checked", !.op = op, !.on = e, !.sum = n, !.shown = v, !.todo = t]
        = CheckOf("checked", op, e, v, n, t)
  BY Zenon DEF CheckOf
<1>8. PICK r : r = RequestOf("checked", op, e, v, n, None, t, None)
  OBVIOUS
<1>9. [Idle EXCEPT !.pc = "checked", !.op = op, !.on = e, !.sum = n, !.shown = expenses[e].version,
                   !.todo = {file}] = r
  BY <1>5, <1>6, <1>7, <1>8
<1>10. req' = [req EXCEPT ![c] = r] /\ asked' = asked + 1 /\ workload' = workload
       /\ UNCHANGED <<expenses, schedule, run>>
  BY <1>4, <1>9 DEF Compose, Ask
<1> QED BY <1>3, <1>5, <1>8, <1>10

(* A client reads its expense and checks it.                               *)
LEMMA AskStep ==
  ASSUME RecurringInvariant, NEW c \in Callers, Ask(c), today' = today
  PROVE  RecurringInvariant'
<1>1. PICK op \in workload.ops : \E e \in DOMAIN expenses : \E n \in Sums :
        /\ Admissible(op, expenses[e])
        /\ \E file \in IF op = "detach" THEN expenses[e].files ELSE {asked} :
             req' = [req EXCEPT ![c] = RequestOf("checked", op, e, expenses[e].version, n, None,
                                                 {file}, None)]
  BY AskRequest
<1>2. PICK e \in DOMAIN expenses : \E n \in Sums :
        /\ Admissible(op, expenses[e])
        /\ \E file \in IF op = "detach" THEN expenses[e].files ELSE {asked} :
             req' = [req EXCEPT ![c] = RequestOf("checked", op, e, expenses[e].version, n, None,
                                                 {file}, None)]
  BY <1>1
<1>3. PICK n \in Sums :
        /\ Admissible(op, expenses[e])
        /\ \E file \in IF op = "detach" THEN expenses[e].files ELSE {asked} :
             req' = [req EXCEPT ![c] = RequestOf("checked", op, e, expenses[e].version, n, None,
                                                 {file}, None)]
  BY <1>2
<1>4. PICK file \in IF op = "detach" THEN expenses[e].files ELSE {asked} :
        req' = [req EXCEPT ![c] = RequestOf("checked", op, e, expenses[e].version, n, None, {file}, None)]
  BY <1>3
<1>5. PICK r : r = [pc |-> "checked", op |-> op, on |-> e, shown |-> expenses[e].version, sum |-> n,
                    change |-> None, todo |-> {file}, snap |-> None]
  OBVIOUS
<1>6. r = RequestOf("checked", op, e, expenses[e].version, n, None, {file}, None)
  BY <1>5 DEF RequestOf
<1>7. req' = [req EXCEPT ![c] = r] /\ asked' = asked + 1 /\ workload' = workload
      /\ UNCHANGED <<expenses, schedule, run>>
  BY <1>4, <1>6, AskRequest
<1>8. /\ expenses \in Seq(Expense) /\ asked \in Nat
  BY DEF RecurringInvariant
<1>9. PICK x \in Expense : x = expenses[e]
  BY <1>8, LenProperties, ElementOfSeq
<1>10. e \in Nat /\ x.version \in Nat /\ file \in Nat
  <2>1. x.version \in Nat /\ x.files \in SUBSET Nat
    BY DEF Expense
  <2> QED BY <1>8, <1>9, <2>1, LenProperties
<1>11. op \in ClientOperations /\ op # "amend" /\ (op = "update" => ~x.archived /\ x.workflow # "paid")
  <2>1. Admissible(op, x)
    BY <1>3, <1>9
  <2> QED BY <2>1 DEF Admissible, ClientOperations
<1>12. r \in ExpenseRequest
  BY <1>5, <1>9, <1>10, <1>11 DEF ExpenseRequest
<1>13. r.pc = "checked" /\ r.op = op /\ r.on = e /\ r.shown = x.version /\ r.sum = n
  BY <1>5, <1>9
<1>14. Relies(r, expenses, schedule, run) /\ ~Holding(r)
  <2>1. x.version <= x.version
    BY <1>10
  <2> QED BY <1>9, <1>11, <1>13, <2>1 DEF Relies, Sweeping, Holding
<1>15. asked' \in Nat
  BY <1>7, <1>8
<1> QED BY <1>7, <1>12, <1>14, <1>15, RequestStep

(* A client reads the schedule and checks the one it would make of it.     *)
LEMMA AskAmendStep ==
  ASSUME RecurringInvariant, NEW c \in Callers, AskAmend(c), today' = today
  PROVE  RecurringInvariant' /\ \E r : req' = [req EXCEPT ![c] = r] /\ r.pc = "checked"
<1>1. PICK change \in Amendments :
        Compose(c, [Idle EXCEPT !.pc = "checked", !.op = "amend", !.change = change])
  BY DEF AskAmend
<1>2. PICK r : r = [pc |-> "checked", op |-> "amend", on |-> 0, shown |-> 0, sum |-> None,
                    change |-> change, todo |-> {}, snap |-> None]
  OBVIOUS
<1>3. [Idle EXCEPT !.pc = "checked", !.op = "amend", !.change = change] = r
  <2>1. r = RequestOf("checked", "amend", 0, 0, None, change, {}, None)
    BY <1>2 DEF RequestOf
  <2> QED BY <2>1, NewRequest, Zenon
<1>4. req' = [req EXCEPT ![c] = r] /\ asked' = asked + 1 /\ workload' = workload
      /\ UNCHANGED <<expenses, schedule, run>> /\ schedule # None
  BY <1>1, <1>3 DEF Compose, AskAmend
<1>5. r \in ExpenseRequest /\ Relies(r, expenses, schedule, run) /\ ~Holding(r) /\ r.pc = "checked"
  BY <1>2, <1>4 DEF ExpenseRequest, ClientOperations, Relies, Sweeping, Holding
<1>6. asked' \in Nat
  BY <1>4 DEF RecurringInvariant
<1> QED BY <1>4, <1>5, <1>6, RequestStep

(* A request is refused or lost, a worker dies or is done.                 *)
LEMMA ExpenseAbandonStep ==
  ASSUME RecurringInvariant, NEW c \in Callers, Abandon(c) \/ EndSweep(c), today' = today
  PROVE  RecurringInvariant'
<1>1. req' = [req EXCEPT ![c] = Idle] /\ UNCHANGED <<expenses, schedule, run, asked, workload>>
  BY DEF Abandon, EndSweep, Done
<1>2. asked' \in Nat
  BY <1>1 DEF RecurringInvariant
<1> QED BY <1>1, <1>2, IdleRelies, RequestStep

(* A schedule of the types of its columns keeps them when it is amended.   *)
LEMMA MergeTypes ==
  ASSUME NEW s \in Schedule, NEW change \in Amendments
  PROVE  /\ Merge(s, change) \in Schedule
         /\ Merge(s, change).frequency = s.frequency
<1> DEFINE y == Merge(s, change)
           K == {"frequency", "interval", "mode", "type", "configured", "start", "end", "confirmed",
                 "next", "last", "active"}
<1>1. DOMAIN s = K
  BY DEF Schedule
<1>2. y = [f \in K |-> IF f \in DOMAIN change THEN change[f] ELSE s[f]]
  BY <1>1 DEF Merge
<1>3. \A f \in DOMAIN change : f \in DOMAIN AmendableFields /\ change[f] \in AmendableFields[f]
  BY RecurrenceAssumption
<1>4. "frequency" \notin DOMAIN change /\ "last" \notin DOMAIN change
  BY <1>3 DEF AmendableFields
<1>5. /\ "interval" \in DOMAIN change => change["interval"] \in Nat \ {0}
      /\ "mode" \in DOMAIN change => change["mode"] \in {"auto_post", "auto_draft"}
      /\ "type" \in DOMAIN change => change["type"] \in {"fixed", "variable"}
      /\ "configured" \in DOMAIN change => change["configured"] \in Sums \cup {None}
      /\ "start" \in DOMAIN change => change["start"] \in Nat
      /\ "end" \in DOMAIN change => change["end"] \in Nat \cup {None}
      /\ "confirmed" \in DOMAIN change => change["confirmed"] \in BOOLEAN
      /\ "next" \in DOMAIN change => change["next"] \in Nat \cup {None}
      /\ "active" \in DOMAIN change => change["active"] \in BOOLEAN
  BY <1>3 DEF AmendableFields
<1>6. /\ s.frequency \in Frequencies /\ s.interval \in Nat \ {0} /\ s.mode \in {"auto_post", "auto_draft"}
      /\ s.type \in {"fixed", "variable"} /\ s.configured \in Sums \cup {None} /\ s.start \in Nat
      /\ s.end \in Nat \cup {None} /\ s.confirmed \in BOOLEAN /\ s.next \in Nat \cup {None}
      /\ s.last \in Nat \cup {None} /\ s.active \in BOOLEAN
  BY DEF Schedule
<1>7. y = [frequency |-> y["frequency"], interval |-> y["interval"], mode |-> y["mode"], type |-> y["type"],
           configured |-> y["configured"], start |-> y["start"], end |-> y["end"],
           confirmed |-> y["confirmed"], next |-> y["next"], last |-> y["last"], active |-> y["active"]]
  BY <1>2
<1> HIDE DEF y
<1>8. /\ y["frequency"] = s.frequency /\ y["interval"] \in Nat \ {0} /\ y["mode"] \in {"auto_post", "auto_draft"}
      /\ y["type"] \in {"fixed", "variable"} /\ y["configured"] \in Sums \cup {None} /\ y["start"] \in Nat
      /\ y["end"] \in Nat \cup {None} /\ y["confirmed"] \in BOOLEAN /\ y["next"] \in Nat \cup {None}
      /\ y["last"] \in Nat \cup {None} /\ y["active"] \in BOOLEAN
  BY <1>2, <1>4, <1>5, <1>6
<1>9. y \in Schedule
  BY <1>6, <1>7, <1>8 DEF Schedule
<1> QED BY <1>8, <1>9 DEF y

(* A schedule is replaced by the merged one; requests only need that there *)
(* is one.                                                                 *)
LEMMA AmendStep ==
  ASSUME RecurringInvariant, NEW c \in Callers, Amend(c), today' = today
  PROVE  RecurringInvariant'
<1>1. /\ req[c].pc = "checked" /\ req[c].op = "amend" /\ schedule' = Merge(schedule, req[c].change)
      /\ Lawful(schedule') /\ req' = [req EXCEPT ![c] = Idle]
      /\ UNCHANGED <<asked, workload, expenses, run>>
  BY DEF Amend, Doing, Done
<1>2. schedule # None /\ req[c].change \in Amendments /\ schedule \in Schedule
  BY <1>1 DEF RecurringInvariant, Relies
<1>3. schedule' \in Schedule /\ schedule' # None
  BY <1>1, <1>2, MergeTypes, NoneIsNoOccurrence
<1>4. req' \in [Callers -> ExpenseRequest] /\ \A d \in Callers : req'[d] = IF d = c THEN Idle ELSE req[d]
  BY <1>1, IdleRelies DEF RecurringInvariant
<1>5. ASSUME NEW d \in Callers PROVE Relies(req'[d], expenses, schedule', run)
  <2>1. CASE d = c
    BY <1>4, <2>1, IdleRelies
  <2>2. CASE d # c
    <3>1. Relies(req[d], expenses, schedule, run)
      BY DEF RecurringInvariant
    <3>2. Relies(req[d], expenses, schedule', run)
      BY <1>3, <3>1 DEF Relies
    <3> QED BY <1>4, <2>2, <3>2
  <2> QED BY <2>1, <2>2
<1>6. \A d, e \in Callers : Holding(req'[d]) /\ Holding(req'[e]) /\ req'[d].on = req'[e].on => d = e
  BY <1>4, IdleRelies DEF RecurringInvariant
<1>7. /\ OncePerPeriod'
      /\ (\A e \in Occurrences : expenses[e].period \in Days /\ run[expenses[e].period] # None)'
  BY <1>1, SamePeriods
<1> QED BY <1>1, <1>2, <1>3, <1>4, <1>5, <1>6, <1>7 DEF RecurringInvariant

------------------------------------------------------------------------------
(* A sweep reads what is due, all of it in the calendar.                   *)
LEMMA StartSweepStep ==
  ASSUME RecurringInvariant, NEW c \in Callers, StartSweep(c)
  PROVE  RecurringInvariant'
<1>1. /\ schedule # None /\ UNCHANGED <<expenses, schedule, run, asked, workload, today>>
      /\ req' = [req EXCEPT ![c] = [Idle EXCEPT !.pc = "sweep", !.op = "sweep",
                                                !.todo = DuePeriods(schedule)]]
  BY DEF StartSweep
<1>2. PICK t : t = DuePeriods(schedule)
  OBVIOUS
<1>3. t \subseteq Days /\ t \in SUBSET Nat
  BY <1>1, <1>2, DueAre, DaysAre DEF RecurringInvariant
<1>4. PICK r : r = [pc |-> "sweep", op |-> "sweep", on |-> 0, shown |-> 0, sum |-> None,
                    change |-> None, todo |-> t, snap |-> None]
  OBVIOUS
<1>5. [Idle EXCEPT !.pc = "sweep", !.op = "sweep", !.todo = t] = r
  <2>1. r = RequestOf("sweep", "sweep", 0, 0, None, None, t, None)
    BY <1>4 DEF RequestOf
  <2> QED BY <2>1, NewRequest, Zenon
<1>6. req' = [req EXCEPT ![c] = r]
  BY <1>1, <1>2, <1>5
<1>7. r \in ExpenseRequest /\ ~Holding(r)
  BY <1>3, <1>4 DEF ExpenseRequest, Holding
<1>8. r.pc = "sweep" /\ r.todo \subseteq Days
  BY <1>3, <1>4
<1>9. Relies(r, expenses, schedule, run)
  BY <1>1, <1>8 DEF Relies, Sweeping, Holding
<1>10. asked' \in Nat
  BY <1>1 DEF RecurringInvariant
<1> QED BY <1>1, <1>6, <1>7, <1>9, <1>10, RequestStep

(* The request of a worker in its next state, component by component.      *)
LEMMA WorkerRequest ==
  ASSUME NEW x \in ExpenseRequest, NEW at \in {"idle", "checked", "sweep", "claimed", "generating"},
         NEW on \in Nat, NEW todo \in SUBSET Nat, NEW snap \in Schedule \cup {None}, NEW r,
         r = [pc |-> at, op |-> x.op, on |-> on, shown |-> x.shown, sum |-> x.sum, change |-> x.change,
              todo |-> todo, snap |-> snap]
  PROVE  /\ r \in ExpenseRequest
         /\ r.pc = at /\ r.op = x.op /\ r.on = on /\ r.todo = todo /\ r.snap = snap
BY DEF ExpenseRequest

(* A sweep passes over a period that is not to be claimed.                 *)
LEMMA SkipStep ==
  ASSUME RecurringInvariant, NEW c \in Callers, Skip(c)
  PROVE  RecurringInvariant'
<1>1. /\ req[c].pc = "sweep" /\ req' = [req EXCEPT ![c].todo = @ \ {Min(@)}]
      /\ UNCHANGED <<expenses, schedule, run, asked, workload, today>>
  BY DEF Skip
<1>2. PICK x : x = req[c]
  OBVIOUS
<1>3. /\ x \in ExpenseRequest /\ req \in [Callers -> ExpenseRequest] /\ x.pc = "sweep"
      /\ Relies(x, expenses, schedule, run)
  BY <1>1, <1>2 DEF RecurringInvariant
<1>4. PICK t : t = x.todo \ {Min(x.todo)}
  OBVIOUS
<1>5. PICK r : r = [x EXCEPT !.todo = t]
  OBVIOUS
<1>6. req' = [req EXCEPT ![c] = r]
  BY <1>1, <1>2, <1>3, <1>4, <1>5
<1>7. /\ r = [pc |-> "sweep", op |-> x.op, on |-> x.on, shown |-> x.shown, sum |-> x.sum,
              change |-> x.change, todo |-> t, snap |-> x.snap]
  BY <1>3, <1>5 DEF ExpenseRequest
<1>8. x.todo \subseteq Days /\ schedule # None /\ t \subseteq Days /\ t \in SUBSET Nat
  BY <1>3, <1>4, DaysAre DEF Relies, Sweeping
<1>9. x.on \in Nat /\ x.snap \in Schedule \cup {None}
  BY <1>3 DEF ExpenseRequest
<1>10. r \in ExpenseRequest /\ r.pc = "sweep" /\ r.todo = t
  BY <1>3, <1>7, <1>8, <1>9, WorkerRequest
<1>11. Relies(r, expenses, schedule, run) /\ ~Holding(r)
  BY <1>8, <1>10 DEF Relies, Sweeping, Holding
<1>12. asked' \in Nat
  BY <1>1 DEF RecurringInvariant
<1> QED BY <1>1, <1>6, <1>10, <1>11, <1>12, RequestStep

(* The generation transaction takes a lawful schedule along.               *)
LEMMA ReadScheduleStep ==
  ASSUME RecurringInvariant, NEW c \in Callers, ReadSchedule(c)
  PROVE  RecurringInvariant'
<1>1. /\ req[c].pc = "claimed" /\ req' = [req EXCEPT ![c].pc = "generating", ![c].snap = schedule]
      /\ UNCHANGED <<expenses, schedule, run, asked, workload, today>>
  BY DEF ReadSchedule
<1>2. PICK x : x = req[c]
  OBVIOUS
<1>3. /\ x \in ExpenseRequest /\ req \in [Callers -> ExpenseRequest] /\ x.pc = "claimed"
      /\ Relies(x, expenses, schedule, run)
  BY <1>1, <1>2 DEF RecurringInvariant
<1>4. PICK s : s = schedule
  OBVIOUS
<1>5. PICK r : r = [x EXCEPT !.pc = "generating", !.snap = s]
  OBVIOUS
<1>6. req' = [req EXCEPT ![c] = r]
  <2>1. req' = [req EXCEPT ![c].pc = "generating", ![c].snap = s]
    BY <1>1, <1>4
  <2> QED BY <1>2, <1>3, <1>5, <2>1
<1>7. r = [pc |-> "generating", op |-> x.op, on |-> x.on, shown |-> x.shown, sum |-> x.sum,
           change |-> x.change, todo |-> x.todo, snap |-> s]
  BY <1>3, <1>5 DEF ExpenseRequest
<1>8. /\ schedule # None /\ s \in Schedule /\ Lawful(s) /\ x.todo \subseteq Days
      /\ x.on \in Days /\ run[x.on] # None /\ run[x.on].status = "running"
  BY <1>3, <1>4 DEF RecurringInvariant, Relies, Sweeping, Holding
<1>9. x.on \in Nat /\ x.todo \in SUBSET Nat
  BY <1>3 DEF ExpenseRequest
<1>10. r \in ExpenseRequest /\ r.pc = "generating" /\ r.on = x.on /\ r.todo = x.todo /\ r.snap = s
  BY <1>3, <1>7, <1>8, <1>9, WorkerRequest
<1>11. Relies(r, expenses, schedule, run) /\ Holding(x)
  BY <1>3, <1>8, <1>10 DEF Relies, Sweeping, Holding
<1>12. asked' \in Nat
  BY <1>1 DEF RecurringInvariant
<1> QED BY <1>1, <1>2, <1>6, <1>10, <1>11, <1>12, RequestStep

(* A worker takes or gives back the run of period p, in state w.           *)
LEMMA RunStep ==
  ASSUME RecurringInvariant, NEW c \in Callers, NEW r \in ExpenseRequest, NEW p \in Days, NEW w \in Run,
         schedule # None, w.status # "succeeded", run[p] # None => run[p].status # "succeeded",
         run' = [run EXCEPT ![p] = w], req' = [req EXCEPT ![c] = r],
         UNCHANGED <<expenses, schedule, asked, workload, today>>,
         \A d \in Callers : d # c /\ Holding(req[d]) => req[d].on # p,
         Relies(r, expenses, schedule, run'), Holding(r) => r.on = p
  PROVE  RecurringInvariant'
<1>1. /\ run \in [Days -> Run \cup {None}] /\ req \in [Callers -> ExpenseRequest]
      /\ \A d \in Callers : Relies(req[d], expenses, schedule, run)
      /\ \A d, e \in Callers : Holding(req[d]) /\ Holding(req[e]) /\ req[d].on = req[e].on => d = e
      /\ \A e \in Occurrences : expenses[e].period \in Days /\ run[expenses[e].period] # None
  BY DEF RecurringInvariant
<1>2. /\ run' \in [Days -> Run \cup {None}] /\ w # None
      /\ \A q \in Days : run'[q] = IF q = p THEN w ELSE run[q]
  BY <1>1, NoneIsNoOccurrence
<1>3. req' \in [Callers -> ExpenseRequest] /\ \A d \in Callers : req'[d] = IF d = c THEN r ELSE req[d]
  BY <1>1
<1>4. ASSUME NEW d \in Callers PROVE Relies(req'[d], expenses, schedule, run')
  <2>1. CASE d = c
    BY <1>3, <2>1
  <2>2. CASE d # c
    <3>1. Relies(req[d], expenses, schedule, run) /\ (Holding(req[d]) => req[d].on # p)
      BY <1>1, <2>2
    <3>2. Relies(req[d], expenses, schedule, run')
      BY <1>2, <3>1 DEF Relies
    <3> QED BY <1>3, <2>2, <3>2
  <2> QED BY <2>1, <2>2
<1>5. \A d, e \in Callers : Holding(req'[d]) /\ Holding(req'[e]) /\ req'[d].on = req'[e].on => d = e
  BY <1>1, <1>3
<1>6. \A e \in Occurrences : expenses[e].period # p
  BY DEF RecurringInvariant, OncePerPeriod
<1>7. Occurrences' = Occurrences
  BY DEF Occurrences
<1>8. \A e \in Occurrences : expenses[e].period \in Days /\ run'[expenses[e].period] # None
  BY <1>1, <1>2
<1>9. OncePerPeriod'
  <2>1. OncePerPeriod
    BY DEF RecurringInvariant
  <2>2. ASSUME NEW q \in Days, run'[q] # None
        PROVE  run'[q].status = "succeeded" <=> \E e \in Occurrences : expenses[e].period = q
    <3>1. CASE q = p
      BY <1>2, <1>6, <3>1
    <3>2. CASE q # p
      BY <1>2, <2>1, <2>2, <3>2 DEF OncePerPeriod
    <3> QED BY <3>1, <3>2
  <2> QED BY <1>7, <2>1, <2>2 DEF OncePerPeriod
<1> QED
  BY <1>2, <1>3, <1>4, <1>5, <1>7, <1>8, <1>9 DEF RecurringInvariant

(* A sweep claims a run nobody holds, for no holder's run is in            *)
(* retry_wait.                                                             *)
LEMMA ClaimRunStep ==
  ASSUME RecurringInvariant, NEW c \in Callers, ClaimRun(c)
  PROVE  RecurringInvariant'
<1>1. PICK x : x = req[c]
  OBVIOUS
<1>2. PICK p : p = Min(x.todo)
  OBVIOUS
<1>3. PICK z : z = IF run[p] = None THEN [status |-> "retry_wait", attempts |-> 0, expense |-> 0] ELSE run[p]
  OBVIOUS
<1>4. /\ x.pc = "sweep" /\ x.todo # {} /\ z.status = "retry_wait"
      /\ run' = [run EXCEPT ![p] = [z EXCEPT !.status = "running", !.attempts = @ + 1]]
      /\ req' = [req EXCEPT ![c].pc = "claimed", ![c].on = p, ![c].todo = @ \ {p}]
      /\ UNCHANGED <<expenses, schedule, asked, workload, today>>
  BY <1>1, <1>2, <1>3 DEF ClaimRun, ClaimableRun
<1>5. /\ x \in ExpenseRequest /\ req \in [Callers -> ExpenseRequest] /\ Relies(x, expenses, schedule, run)
      /\ run \in [Days -> Run \cup {None}]
  BY <1>1 DEF RecurringInvariant
<1>6. schedule # None /\ x.todo \subseteq Days /\ x.todo \in SUBSET Nat
  BY <1>4, <1>5, DaysAre DEF Relies, Sweeping
<1>7. p \in x.todo /\ p \in Days /\ p \in Nat
  BY <1>2, <1>4, <1>6, LeastNatural
<1>8. z \in Run
  BY <1>3, <1>5, <1>7 DEF Run
<1>9. PICK w : w = [z EXCEPT !.status = "running", !.attempts = @ + 1]
  OBVIOUS
<1>10. w = [status |-> "running", attempts |-> z.attempts + 1, expense |-> z.expense]
  BY <1>8, <1>9 DEF Run
<1>11. w \in Run /\ w.status = "running"
  BY <1>8, <1>10 DEF Run
<1>12. run' = [run EXCEPT ![p] = w]
  BY <1>4, <1>9
<1>13. PICK t : t = x.todo \ {p}
  OBVIOUS
<1>14. PICK r : r = [x EXCEPT !.pc = "claimed", !.on = p, !.todo = t]
  OBVIOUS
<1>15. req' = [req EXCEPT ![c] = r]
  <2>1. req' = [req EXCEPT ![c].pc = "claimed", ![c].on = p, ![c].todo = t]
    BY <1>1, <1>4, <1>5, <1>13
  <2> QED BY <1>1, <1>5, <1>14, <2>1
<1>16. r = [pc |-> "claimed", op |-> x.op, on |-> p, shown |-> x.shown, sum |-> x.sum,
            change |-> x.change, todo |-> t, snap |-> x.snap]
  BY <1>5, <1>14 DEF ExpenseRequest
<1>17. t \subseteq Days /\ t \in SUBSET Nat /\ x.snap \in Schedule \cup {None}
  BY <1>5, <1>6, <1>13 DEF ExpenseRequest
<1>18. r \in ExpenseRequest /\ r.pc = "claimed" /\ r.on = p /\ r.todo = t
  BY <1>5, <1>7, <1>16, <1>17, WorkerRequest
<1>19. run'[p] = w /\ w # None
  BY <1>5, <1>7, <1>11, <1>12, NoneIsNoOccurrence
<1>20. Relies(r, expenses, schedule, run')
  BY <1>6, <1>7, <1>11, <1>17, <1>18, <1>19 DEF Relies, Sweeping, Holding
<1>21. run[p] # None => run[p].status # "succeeded" /\ run[p].status # "running"
  BY <1>3, <1>4
<1>22. \A d \in Callers : Holding(req[d]) => req[d].on # p
  BY <1>21 DEF RecurringInvariant, Relies
<1>23. /\ w.status # "succeeded"
       /\ run[p] # None => run[p].status # "succeeded"
       /\ UNCHANGED <<expenses, schedule, asked, workload, today>>
  BY <1>4, <1>11, <1>21
<1>24. /\ \A d \in Callers : d # c /\ Holding(req[d]) => req[d].on # p
       /\ Holding(r) => r.on = p
  BY <1>18, <1>22
<1>25. w \in Run /\ r \in ExpenseRequest /\ p \in Days /\ schedule # None
  BY <1>6, <1>7, <1>11, <1>18
<1> QED BY <1>12, <1>15, <1>20, <1>23, <1>24, <1>25, RunStep, Zenon

(* What a worker has while it generates, and the request it goes on with.  *)
LEMMA Generating ==
  ASSUME RecurringInvariant, NEW c \in Callers, req[c].pc = "generating",
         req' = [req EXCEPT ![c].pc = "sweep", ![c].on = 0, ![c].snap = None]
  PROVE  /\ schedule \in Schedule /\ Lawful(schedule)
         /\ req[c].snap \in Schedule /\ Lawful(req[c].snap)
         /\ req[c].on \in Days /\ req[c].on \in Nat
         /\ run[req[c].on] \in Run /\ run[req[c].on].status = "running"
         /\ \A d \in Callers : d # c /\ Holding(req[d]) => req[d].on # req[c].on
         /\ \E r \in ExpenseRequest : /\ req' = [req EXCEPT ![c] = r] /\ ~Holding(r)
                                      /\ r.pc = "sweep" /\ r.todo = req[c].todo
         /\ req[c].todo \subseteq Days
<1>1. PICK x : x = req[c]
  OBVIOUS
<1>2. /\ x \in ExpenseRequest /\ req \in [Callers -> ExpenseRequest] /\ Relies(x, expenses, schedule, run)
      /\ run \in [Days -> Run \cup {None}] /\ schedule \in Schedule \cup {None}
      /\ (schedule # None => Lawful(schedule))
  BY <1>1 DEF RecurringInvariant
<1>3. /\ schedule # None /\ x.todo \subseteq Days /\ x.on \in Days /\ run[x.on] # None
      /\ run[x.on].status = "running" /\ x.snap \in Schedule /\ Lawful(x.snap) /\ Holding(x)
  BY <1>1, <1>2 DEF Relies, Sweeping, Holding
<1>4. x.on \in Nat /\ x.todo \in SUBSET Nat
  BY <1>2 DEF ExpenseRequest
<1>5. PICK r : r = [x EXCEPT !.pc = "sweep", !.on = 0, !.snap = None]
  OBVIOUS
<1>6. req' = [req EXCEPT ![c] = r]
  BY <1>1, <1>2, <1>5
<1>7. r = [pc |-> "sweep", op |-> x.op, on |-> 0, shown |-> x.shown, sum |-> x.sum,
            change |-> x.change, todo |-> x.todo, snap |-> None]
  BY <1>2, <1>5 DEF ExpenseRequest
<1>8. r \in ExpenseRequest /\ r.pc = "sweep" /\ r.todo = x.todo
  BY <1>2, <1>4, <1>7, WorkerRequest
<1>9. ~Holding(r)
  BY <1>8 DEF Holding
<1>10. \A d \in Callers : d # c /\ Holding(req[d]) => req[d].on # x.on
  BY <1>1, <1>3 DEF RecurringInvariant
<1> QED BY <1>1, <1>2, <1>3, <1>4, <1>6, <1>8, <1>9, <1>10

(* A generation that fails gives its run back, with nothing generated.     *)
LEMMA FailGenerationStep ==
  ASSUME RecurringInvariant, NEW c \in Callers, FailGeneration(c)
  PROVE  RecurringInvariant'
<1>1. PICK p : p = req[c].on
  OBVIOUS
<1>2. /\ req[c].pc = "generating" /\ run' = [run EXCEPT ![p].status = AfterFailure(run[p])]
      /\ req' = [req EXCEPT ![c].pc = "sweep", ![c].on = 0, ![c].snap = None]
      /\ UNCHANGED <<expenses, schedule, asked, workload, today>>
  BY <1>1 DEF FailGeneration
<1>3. /\ p \in Days /\ run[p] \in Run /\ run[p].status = "running" /\ schedule \in Schedule
      /\ \A d \in Callers : d # c /\ Holding(req[d]) => req[d].on # p
      /\ req[c].todo \subseteq Days
  BY <1>1, <1>2, Generating
<1>4. PICK r \in ExpenseRequest : /\ req' = [req EXCEPT ![c] = r] /\ ~Holding(r)
                                  /\ r.pc = "sweep" /\ r.todo = req[c].todo
  BY <1>1, <1>2, Generating
<1>5. schedule # None /\ run \in [Days -> Run \cup {None}]
  BY <1>3, NoneIsNoOccurrence DEF RecurringInvariant
<1>6. PICK s : s = AfterFailure(run[p])
  OBVIOUS
<1>7. s \in {"dead_letter", "retry_wait"}
  BY <1>6 DEF AfterFailure
<1>8. PICK w : w = [run[p] EXCEPT !.status = s]
  OBVIOUS
<1>9. w = [status |-> s, attempts |-> run[p].attempts, expense |-> run[p].expense]
  BY <1>3, <1>8 DEF Run
<1>10. w \in Run /\ w.status # "succeeded"
  BY <1>3, <1>7, <1>9 DEF Run
<1>11. run' = [run EXCEPT ![p] = w]
  BY <1>2, <1>3, <1>5, <1>6, <1>8
<1>12. Relies(r, expenses, schedule, run')
  BY <1>3, <1>4, <1>5 DEF Relies, Sweeping, Holding
<1>13. run[p] # None => run[p].status # "succeeded"
  BY <1>3
<1>14. UNCHANGED <<expenses, schedule, asked, workload, today>>
  BY <1>2
<1>15. /\ \A d \in Callers : d # c /\ Holding(req[d]) => req[d].on # p
       /\ Holding(r) => r.on = p
  BY <1>3, <1>4
<1>16. w \in Run /\ w.status # "succeeded" /\ p \in Days /\ schedule # None /\ req' = [req EXCEPT ![c] = r]
  BY <1>3, <1>4, <1>5, <1>10
<1> QED BY <1>11, <1>12, <1>13, <1>14, <1>15, <1>16, RunStep, Zenon

(* The schedule after an occurrence of period p generated from snapshot s. *)
Moved(s, p) ==
  [schedule EXCEPT !.last = p, !.next = IF s.frequency = "weekly" THEN AdvanceRolling(s, p) ELSE @]

(* Generating moves last_run and next_run only, and the schedule stays     *)
(* lawful.                                                                 *)
LEMMA MovedTypes ==
  ASSUME schedule \in Schedule, Lawful(schedule), NEW s \in Schedule, NEW p \in Nat
  PROVE  /\ Moved(s, p) \in Schedule /\ Lawful(Moved(s, p))
         /\ Moved(s, p).frequency = schedule.frequency /\ Moved(s, p).interval = schedule.interval
         /\ Moved(s, p).start = schedule.start
         /\ Moved(s, p).next = IF s.frequency = "weekly" THEN p + Week * s.interval ELSE schedule.next
<1>1. PICK n : n = IF s.frequency = "weekly" THEN AdvanceRolling(s, p) ELSE schedule.next
  OBVIOUS
<1>2. n = IF s.frequency = "weekly" THEN p + Week * s.interval ELSE schedule.next
  BY <1>1 DEF AdvanceRolling, DaysIn
<1>3. n \in Nat \cup {None}
  <2>1. s.interval \in Nat /\ schedule.next \in Nat \cup {None} /\ Week \in Nat
    BY RecurrenceAssumption DEF Schedule
  <2> QED BY <1>2, <2>1
<1>4. PICK x \in Schedule : x = schedule
  OBVIOUS
<1>5. PICK y : y = [x EXCEPT !.last = p, !.next = n]
  OBVIOUS
<1>6. Moved(s, p) = y
  BY <1>1, <1>4, <1>5 DEF Moved
<1>7. y = [frequency |-> x.frequency, interval |-> x.interval, mode |-> x.mode, type |-> x.type,
           configured |-> x.configured, start |-> x.start, end |-> x.end, confirmed |-> x.confirmed,
           next |-> n, last |-> p, active |-> x.active]
  BY <1>5 DEF Schedule
<1>8. y \in Schedule
  BY <1>3, <1>7 DEF Schedule
<1>9. /\ y.frequency = x.frequency /\ y.interval = x.interval /\ y.mode = x.mode /\ y.type = x.type
      /\ y.configured = x.configured /\ y.start = x.start /\ y.end = x.end /\ y.confirmed = x.confirmed
      /\ y.next = n
  BY <1>7
<1>10. Lawful(y)
  BY <1>4, <1>9 DEF Lawful
<1> QED BY <1>2, <1>4, <1>6, <1>8, <1>9, <1>10

(* What is generated is a draft unless its amount is known.                *)
LEMMA GeneratedRow ==
  ASSUME NEW s \in Schedule, Lawful(s), NEW p \in Nat
  PROVE  /\ Generated(s, p) \in Expense /\ Decided(Generated(s, p)) /\ Generated(s, p).period = p
<1>1. /\ s.mode \in {"auto_post", "auto_draft"} /\ s.type \in {"fixed", "variable"}
      /\ s.configured \in Sums \cup {None} /\ Sums \subseteq Nat \ {0}
  BY ExpenseAssumption DEF Schedule
<1>2. PICK n, w : /\ n = IF s.type = "fixed" THEN s.configured ELSE 0
                  /\ w = IF s.mode = "auto_draft" THEN "draft" ELSE "pending"
  OBVIOUS
<1>3. (s.mode = "auto_post" => s.type = "fixed") /\ (s.type = "fixed" => s.configured # None)
  BY DEF Lawful
<1>4. n \in Nat /\ (n = 0 => w = "draft") /\ w \in {"draft", "pending"}
  BY <1>1, <1>2, <1>3
<1>5. Generated(s, p) = NewExpense(n, w, p)
  BY <1>2 DEF Generated
<1> QED BY <1>4, <1>5, NewRow

(* The commit: the one occurrence of the period, by the one who holds its  *)
(* run.                                                                    *)
LEMMA CommitGenerationStep ==
  ASSUME RecurringInvariant, NEW c \in Callers, CommitGeneration(c)
  PROVE  RecurringInvariant'
<1>1. PICK p, s : p = req[c].on /\ s = req[c].snap
  OBVIOUS
<1>2. /\ req[c].pc = "generating" /\ expenses' = Append(expenses, Generated(s, p))
      /\ run' = [run EXCEPT ![p].status = "succeeded", ![p].expense = Len(expenses) + 1]
      /\ schedule' = Moved(s, p)
      /\ req' = [req EXCEPT ![c].pc = "sweep", ![c].on = 0, ![c].snap = None]
      /\ UNCHANGED <<asked, workload, today>>
  BY <1>1 DEF CommitGeneration, Moved
<1>3. /\ p \in Days /\ p \in Nat /\ run[p] \in Run /\ run[p].status = "running"
      /\ schedule \in Schedule /\ Lawful(schedule) /\ s \in Schedule /\ Lawful(s)
      /\ \A d \in Callers : d # c /\ Holding(req[d]) => req[d].on # p
      /\ req[c].todo \subseteq Days
  BY <1>1, <1>2, Generating
<1>4. PICK r \in ExpenseRequest : /\ req' = [req EXCEPT ![c] = r] /\ ~Holding(r)
                                  /\ r.pc = "sweep" /\ r.todo = req[c].todo
  BY <1>1, <1>2, Generating
<1>5. /\ run \in [Days -> Run \cup {None}] /\ req \in [Callers -> ExpenseRequest]
      /\ expenses \in Seq(Expense)
      /\ \A d \in Callers : Relies(req[d], expenses, schedule, run)
      /\ \A d, e \in Callers : Holding(req[d]) /\ Holding(req[e]) /\ req[d].on = req[e].on => d = e
      /\ \A e \in Occurrences : expenses[e].period \in Days /\ run[expenses[e].period] # None
      /\ OncePerPeriod
  BY DEF RecurringInvariant
<1>6. schedule' \in Schedule /\ Lawful(schedule') /\ schedule' # None
  BY <1>2, <1>3, MovedTypes, NoneIsNoOccurrence
<1>7. PICK y : y = Generated(s, p)
  OBVIOUS
<1>8. y \in Expense /\ Decided(y) /\ y.period = p /\ expenses' = Append(expenses, y)
  BY <1>2, <1>3, <1>7, GeneratedRow
<1>9. PICK j \in Nat : j = Len(expenses) + 1
  BY <1>5, LenProperties
<1>10. /\ expenses' \in Seq(Expense) /\ expenses' # <<>>
       /\ DOMAIN expenses' = DOMAIN expenses \cup {j} /\ j \notin DOMAIN expenses
       /\ expenses'[j] = y
       /\ \A e \in DOMAIN expenses : expenses'[e] = expenses[e]
  BY <1>8, <1>9, RowAppended
<1>11. \A t, u, v : Relies(t, expenses, u, v) => Relies(t, expenses', u, v)
  BY <1>8, RowAppended
<1>12. PICK z \in Run : z = run[p]
  BY <1>3
<1>13. PICK w : w = [z EXCEPT !.status = "succeeded", !.expense = j]
  OBVIOUS
<1>14. w = [status |-> "succeeded", attempts |-> z.attempts, expense |-> j]
  BY <1>13 DEF Run
<1>15. w \in Run /\ w.status = "succeeded"
  BY <1>14 DEF Run
<1>16. run' = [run EXCEPT ![p] = w]
  <2>1. run' = [run EXCEPT ![p].status = "succeeded", ![p].expense = j]
    BY <1>2, <1>9
  <2> QED BY <1>3, <1>5, <1>12, <1>13, <2>1
<1>17. /\ run' \in [Days -> Run \cup {None}] /\ w # None
       /\ \A q \in Days : run'[q] = IF q = p THEN w ELSE run[q]
  BY <1>5, <1>15, <1>16, NoneIsNoOccurrence
<1>18. req' \in [Callers -> ExpenseRequest] /\ \A d \in Callers : req'[d] = IF d = c THEN r ELSE req[d]
  BY <1>4, <1>5
<1>19. ASSUME NEW d \in Callers PROVE Relies(req'[d], expenses', schedule', run')
  <2>1. CASE d = c
    <3>1. Relies(r, expenses', schedule', run')
      BY <1>3, <1>4, <1>6 DEF Relies, Sweeping, Holding
    <3> QED BY <1>18, <2>1, <3>1
  <2>2. CASE d # c
    <3>1. Relies(req[d], expenses', schedule, run) /\ (Holding(req[d]) => req[d].on # p)
      BY <1>3, <1>5, <1>11, <2>2
    <3>2. Relies(req[d], expenses', schedule', run')
      BY <1>6, <1>17, <3>1 DEF Relies
    <3> QED BY <1>18, <2>2, <3>2
  <2> QED BY <2>1, <2>2
<1>20. \A d, e \in Callers : Holding(req'[d]) /\ Holding(req'[e]) /\ req'[d].on = req'[e].on => d = e
  BY <1>4, <1>5, <1>18
<1>21. \A e \in Occurrences : expenses[e].period # p
  BY <1>3, <1>5, NoneIsNoOccurrence DEF OncePerPeriod
<1>22. /\ Occurrences' = Occurrences \cup {j} /\ Occurrences \subseteq DOMAIN expenses
  <2>1. p # None
    BY <1>3, DaysAre
  <2>2. Occurrences' = {e \in DOMAIN expenses' : expenses'[e].period # None}
    BY DEF Occurrences
  <2> QED BY <1>8, <1>10, <2>1, <2>2 DEF Occurrences
<1>23. \A e \in Occurrences' : expenses'[e].period \in Days /\ run'[expenses'[e].period] # None
  BY <1>3, <1>5, <1>8, <1>10, <1>17, <1>22
<1>24. OncePerPeriod'
  <2>1. ASSUME NEW e \in Occurrences', NEW f \in Occurrences', expenses'[e].period = expenses'[f].period
        PROVE  e = f
    <3>1. \A g \in Occurrences : expenses'[g].period = expenses[g].period /\ expenses[g].period # p
      BY <1>10, <1>21, <1>22
    <3>2. e = j <=> f = j
      BY <1>8, <1>10, <1>22, <2>1, <3>1
    <3> QED BY <1>5, <1>22, <2>1, <3>1, <3>2 DEF OncePerPeriod
  <2>2. ASSUME NEW q \in Days, run'[q] # None
        PROVE  run'[q].status = "succeeded" <=> \E e \in Occurrences' : expenses'[e].period = q
    <3>1. CASE q = p
      BY <1>8, <1>10, <1>15, <1>17, <1>22, <3>1
    <3>2. CASE q # p
      <4>1. run[q] # None /\ run'[q] = run[q]
        BY <1>17, <2>2, <3>2
      <4>2. run[q].status = "succeeded" <=> \E e \in Occurrences : expenses[e].period = q
        BY <1>5, <4>1 DEF OncePerPeriod
      <4>3. (\E e \in Occurrences : expenses[e].period = q) <=> \E e \in Occurrences' : expenses'[e].period = q
        BY <1>8, <1>10, <1>22, <3>2
      <4> QED BY <4>1, <4>2, <4>3
    <3> QED BY <3>1, <3>2
  <2> QED BY <2>1, <2>2 DEF OncePerPeriod
<1>25. \A e \in DOMAIN expenses' : Decided(expenses'[e])
  BY <1>8, <1>10 DEF RecurringInvariant
<1>26. asked' \in Nat /\ workload' \in Workloads /\ today' \in Days
  BY <1>2 DEF RecurringInvariant
<1> QED
  BY <1>6, <1>10, <1>17, <1>18, <1>19, <1>20, <1>23, <1>24, <1>25, <1>26 DEF RecurringInvariant

(* Every step keeps what the worker and the clients rely on.               *)
LEMMA RecurringInvariantStep ==
  RecurringInvariant /\ [RecurringNext]_recurringVars => RecurringInvariant'
<1> SUFFICES ASSUME RecurringInvariant, [RecurringNext]_recurringVars
             PROVE  RecurringInvariant'
  OBVIOUS
<1>1. CASE CreateExpense /\ UNCHANGED <<today, sweeps>>
  BY <1>1, CreateStep
<1>2. ASSUME NEW c \in Callers, ClientStep(c), UNCHANGED <<today, sweeps>> PROVE RecurringInvariant'
  <2>1. CASE Ask(c)
    BY <1>2, <2>1, AskStep
  <2>2. CASE AskAmend(c)
    BY <1>2, <2>2, AskAmendStep
  <2>3. CASE Writing(c)
    <3>1. req[c].on \in DOMAIN expenses /\ \E y : WriteOf(c, y)
      BY <2>3, ClientWrites
    <3> QED BY <1>2, <3>1, WriteStep
  <2>4. CASE Amend(c)
    BY <1>2, <2>4, AmendStep
  <2>5. CASE Abandon(c)
    BY <1>2, <2>5, ExpenseAbandonStep
  <2> QED BY <1>2, <2>1, <2>2, <2>3, <2>4, <2>5 DEF ClientStep, Writing
<1>3. ASSUME NEW c \in Callers, WorkerStep(c) PROVE RecurringInvariant'
  <2>1. CASE StartSweep(c)
    BY <2>1, StartSweepStep
  <2>2. CASE ClaimRun(c)
    BY <2>2, ClaimRunStep
  <2>3. CASE Skip(c)
    BY <2>3, SkipStep
  <2>4. CASE ReadSchedule(c)
    BY <2>4, ReadScheduleStep
  <2>5. CASE CommitGeneration(c)
    BY <2>5, CommitGenerationStep
  <2>6. CASE FailGeneration(c)
    BY <2>6, FailGenerationStep
  <2>7. CASE EndSweep(c)
    <3>1. today' = today
      BY <2>7 DEF EndSweep
    <3> QED BY <2>7, <3>1, ExpenseAbandonStep
  <2> QED BY <1>3, <2>1, <2>2, <2>3, <2>4, <2>5, <2>6, <2>7 DEF WorkerStep
<1>4. CASE NextDay
  <2>1. today < workload.days /\ today' = today + 1 /\ UNCHANGED <<expenses, schedule, run, req, asked, workload>>
    BY <1>4 DEF NextDay, expenseVars
  <2>2. workload \in Workloads /\ today \in Days
    BY DEF RecurringInvariant
  <2>3. workload.days \in 0..MaxDay /\ MaxDay \in Nat
    BY <2>2, RecurrenceAssumption
  <2>4. today' \in Days
    BY <2>1, <2>2, <2>3 DEF Days
  <2> QED BY <2>1, <2>4 DEF RecurringInvariant, Occurrences, OncePerPeriod
<1>5. CASE UNCHANGED recurringVars
  BY <1>5 DEF recurringVars, expenseVars, RecurringInvariant, Occurrences, OncePerPeriod
<1> QED BY <1>1, <1>2, <1>3, <1>4, <1>5 DEF RecurringNext, SweepsQuiescent

(* Rows, runs, schedules and requests stay as each relies on the others.   *)
THEOREM RecurringInvariantHolds == RecurringSpec => []RecurringInvariant
<1> QED BY RecurringInvariantInit, RecurringInvariantStep, PTL DEF RecurringSpec

(* No period has two expenses, and exactly the succeeded runs have one     *)
(* (recurringExpense.service.ts, generateOccurrence), whatever sweeps      *)
(* overlap.                                                                *)
THEOREM OncePerPeriodHolds == RecurringSpec => []OncePerPeriod
<1>1. RecurringInvariant => OncePerPeriod
  BY DEF RecurringInvariant
<1> QED BY <1>1, RecurringInvariantHolds, PTL

(* An expense is approved or rejected, never both, and paid only when      *)
(* approved (expense.service.ts, approveExpense, rejectExpense,            *)
(* markExpensePaid).                                                       *)
THEOREM DecidedOnceHolds == RecurringSpec => []DecidedOnce
<1>1. RecurringInvariant => DecidedOnce
  BY DEF RecurringInvariant, Decided, DecidedOnce
<1> QED BY <1>1, RecurringInvariantHolds, PTL

(* The worker posts nothing of an unknown amount, however schedules are    *)
(* amended (recurringExpense.service.ts:153-161).                          *)
THEOREM PostedAmountKnownHolds == RecurringSpec => []PostedAmountKnown
<1>1. RecurringInvariant => PostedAmountKnown
  BY DEF RecurringInvariant, Decided, PostedAmountKnown, Occurrences
<1> QED BY <1>1, RecurringInvariantHolds, PTL

(* What a step leaves of an expense that is paid, or in the archive.       *)
FrozenStep ==
  \A e \in DOMAIN expenses :
    /\ expenses[e].workflow = "paid" =>
         expenses'[e].workflow = "paid" /\ expenses'[e].amount = expenses[e].amount
    /\ expenses[e].archived => expenses'[e].amount = expenses[e].amount

(* No step, of clients or of the worker, changes a paid or archived        *)
(* amount.                                                                 *)
LEMMA RowsFrozen ==
  ASSUME RecurringInvariant, [RecurringNext]_recurringVars
  PROVE  FrozenStep
<1>1. CASE expenses' = expenses
  BY <1>1 DEF FrozenStep
<1>2. ASSUME NEW y \in Expense, expenses' = Append(expenses, y) PROVE FrozenStep
  <2>1. \A e \in DOMAIN expenses : expenses'[e] = expenses[e]
    BY <1>2, RowAppended
  <2> QED BY <2>1 DEF FrozenStep
<1>3. CASE CreateExpense
  <2>1. PICK amount \in Sums : expenses' = Append(expenses, NewExpense(amount, "pending", None))
    BY <1>3 DEF CreateExpense
  <2>2. amount \in Nat /\ amount # 0
    BY ExpenseAssumption
  <2>3. NewExpense(amount, "pending", None) \in Expense
    BY <2>2, NewRow
  <2> QED BY <1>2, <2>1, <2>3
<1>4. ASSUME NEW c \in Callers, CommitGeneration(c) PROVE FrozenStep
  <2>1. PICK p, s : p = req[c].on /\ s = req[c].snap
    OBVIOUS
  <2>2. /\ req[c].pc = "generating" /\ expenses' = Append(expenses, Generated(s, p))
        /\ req' = [req EXCEPT ![c].pc = "sweep", ![c].on = 0, ![c].snap = None]
    BY <1>4, <2>1 DEF CommitGeneration
  <2>3. s \in Schedule /\ Lawful(s) /\ p \in Nat
    BY <2>1, <2>2, Generating
  <2>4. Generated(s, p) \in Expense
    BY <2>3, GeneratedRow
  <2> QED BY <1>2, <2>2, <2>4
<1>5. ASSUME NEW c \in Callers, Writing(c) PROVE FrozenStep
  <2>1. req[c].on \in DOMAIN expenses /\ \E y : WriteOf(c, y)
    BY <1>5, ClientWrites
  <2>2. PICK y : WriteOf(c, y)
    BY <2>1
  <2>3. \A e \in DOMAIN expenses : expenses'[e] = IF e = req[c].on THEN y ELSE expenses[e]
    BY <2>2 DEF WriteOf
  <2>4. Grows(expenses[req[c].on], y)
    BY <2>2 DEF WriteOf
  <2> QED BY <2>3, <2>4 DEF FrozenStep, Grows
<1> QED
  BY <1>1, <1>3, <1>4, <1>5
  DEF RecurringNext, ClientStep, WorkerStep, Writing, Ask, AskAmend, Amend, Abandon, StartSweep, ClaimRun, Skip,
      ReadSchedule, FailGeneration, EndSweep, NextDay, SweepsQuiescent, recurringVars, expenseVars

(* A paid expense stays paid, of its amount; an archived one is not edited *)
(* (expense.service.ts:409-416).                                           *)
THEOREM PaidFrozenHolds == RecurringSpec => PaidFrozen
<1>1. RecurringInvariant /\ [RecurringNext]_recurringVars => [FrozenStep]_expenses
  BY RowsFrozen
<1> QED BY <1>1, RecurringInvariantHolds, PTL DEF RecurringSpec, PaidFrozen, FrozenStep

(* Period p is a whole number of intervals after the first day of s.       *)
Anchored(s, p) == \E k \in Nat : p = s.start + (Week * s.interval) * k

(* The periods a sweep has still to do and the one it has in hand.         *)
Anchoring(r, s) ==
  /\ Sweeping(r) => \A p \in r.todo : Anchored(s, p)
  /\ Holding(r) => Anchored(s, r.on)
  /\ r.pc = "generating" => r.snap.frequency = "weekly" /\ r.snap.interval = s.interval

(* Whatever a rolling schedule leads to is anchored, from its next_run to  *)
(* the periods the sweeps in flight have read.                             *)
AnchorInvariant ==
  schedule # None /\ schedule.frequency = "weekly" =>
    /\ schedule.next # None => Anchored(schedule, schedule.next)
    /\ \A p \in Days : run[p] # None => Anchored(schedule, p)
    /\ \A c \in Callers : Anchoring(req[c], schedule)

(* Nobody moves the dates of a schedule; one that is created with a        *)
(* next_run has one of its own occurrences there.                          *)
DatesStay ==
  /\ \A change \in Amendments : DOMAIN change \cap {"interval", "start", "next"} = {}
  /\ \A w \in Workloads : \A s \in w.schedules \ {None} : s.next # None => Anchored(s, s.next)

(* One interval after an occurrence, and whole intervals after the next,   *)
(* there is an occurrence again.                                           *)
LEMMA AnchorMoves ==
  ASSUME NEW s \in Schedule, NEW p, Anchored(s, p), NEW j \in Nat
  PROVE  Anchored(s, p + (Week * s.interval) * j) /\ Anchored(s, p + Week * s.interval)
<1>1. PICK m \in Nat : m = Week * s.interval
  BY RecurrenceAssumption DEF Schedule
<1>2. PICK k \in Nat : p = s.start + m * k
  BY <1>1 DEF Anchored
<1>3. PICK a \in Nat : a = s.start
  BY DEF Schedule
<1>4. p + m * j = a + m * (k + j) /\ k + j \in Nat
  BY <1>2, <1>3
<1>5. p + m = a + m * (k + 1) /\ k + 1 \in Nat
  BY <1>2, <1>3
<1> QED BY <1>1, <1>3, <1>4, <1>5 DEF Anchored

(* What a rolling schedule is due are its own occurrences.                 *)
LEMMA DueAnchored ==
  ASSUME NEW s \in Schedule, s.frequency = "weekly", today \in Days,
         s.next # None => Anchored(s, s.next)
  PROVE  \A p \in DuePeriods(s) : Anchored(s, p)
<1> SUFFICES ASSUME NEW p \in DuePeriods(s) PROVE Anchored(s, p)
  OBVIOUS
<1>1. PICK n : n = IF s.next = None THEN s.start ELSE s.next
  OBVIOUS
<1>2. PICK k \in Nat : p = n + (Week * s.interval) * k
  BY <1>1, DueAre
<1>3. CASE s.next = None
  BY <1>1, <1>2, <1>3 DEF Anchored
<1>4. CASE s.next # None
  BY <1>1, <1>2, <1>4, AnchorMoves
<1> QED BY <1>3, <1>4

(* An amendment leaves the dates of the schedule alone.                    *)
LEMMA MergeKeepsDates ==
  ASSUME DatesStay, NEW s \in Schedule, NEW change \in Amendments
  PROVE  LET y == Merge(s, change) IN
         y.frequency = s.frequency /\ y.interval = s.interval /\ y.start = s.start /\ y.next = s.next
<1>1. {"interval", "start", "next"} \subseteq DOMAIN s
  BY DEF Schedule
<1>2. "interval" \notin DOMAIN change /\ "start" \notin DOMAIN change /\ "next" \notin DOMAIN change
  BY DEF DatesStay
<1>3. Merge(s, change) = [f \in DOMAIN s |-> IF f \in DOMAIN change THEN change[f] ELSE s[f]]
  BY DEF Merge
<1> QED BY <1>1, <1>2, <1>3, MergeTypes

(* A step that leaves the dates of the schedule alone, and anchors what it *)
(* adds to the runs and to the requests.                                   *)
LEMMA AnchorKept ==
  ASSUME AnchorInvariant, schedule # None,
         schedule'.frequency = schedule.frequency, schedule'.interval = schedule.interval,
         schedule'.start = schedule.start,
         schedule.frequency = "weekly" =>
           /\ schedule'.next = schedule.next \/ Anchored(schedule, schedule'.next)
           /\ \A p \in Days : run'[p] # None => run[p] # None \/ Anchored(schedule, p)
           /\ \A c \in Callers : req'[c] = req[c] \/ Anchoring(req'[c], schedule)
  PROVE  AnchorInvariant'
<1> SUFFICES ASSUME schedule.frequency = "weekly" PROVE AnchorInvariant'
  BY DEF AnchorInvariant
<1>1. \A p : Anchored(schedule', p) <=> Anchored(schedule, p)
  BY DEF Anchored
<1>2. \A r : Anchoring(r, schedule) => Anchoring(r, schedule')
  BY <1>1 DEF Anchoring
<1>3. schedule'.next # None => Anchored(schedule', schedule'.next)
  BY <1>1 DEF AnchorInvariant
<1>4. \A p \in Days : run'[p] # None => Anchored(schedule', p)
  BY <1>1 DEF AnchorInvariant
<1>5. \A c \in Callers : Anchoring(req'[c], schedule')
  BY <1>2 DEF AnchorInvariant
<1> QED BY <1>3, <1>4, <1>5 DEF AnchorInvariant

(* A schedule that is created leads to nothing but its own occurrences.    *)
LEMMA AnchorCreate ==
  ASSUME RecurringInvariant, DatesStay, AnchorInvariant, CreateExpense
  PROVE  AnchorInvariant'
<1>1. run' = run /\ req' = req
  BY DEF CreateExpense
<1>2. CASE schedule' = schedule
  BY <1>1, <1>2 DEF AnchorInvariant
<1>3. CASE schedule' # schedule
  <2>1. schedule = None /\ schedule' \in workload.schedules /\ workload \in Workloads
    BY <1>3 DEF CreateExpense, RecurringInvariant
  <2>2. \A p \in Days : run'[p] = None
    BY <1>1, <2>1 DEF RecurringInvariant
  <2>3. \A c \in Callers : ~Sweeping(req'[c])
    BY <1>1, <2>1 DEF RecurringInvariant, Relies
  <2>4. \A c \in Callers : Anchoring(req'[c], schedule')
    BY <2>3 DEF Anchoring, Sweeping, Holding
  <2>5. schedule' # None /\ schedule'.next # None => Anchored(schedule', schedule'.next)
    BY <2>1 DEF DatesStay
  <2> QED BY <2>2, <2>4, <2>5 DEF AnchorInvariant
<1> QED BY <1>2, <1>3

(* A client's request is no sweep, and leaves the runs alone.              *)
LEMMA ClientAnchors ==
  ASSUME RecurringInvariant, DatesStay, AnchorInvariant, NEW c \in Callers, ClientStep(c), today' = today
  PROVE  AnchorInvariant'
<1>1. /\ run' = run
      /\ \E r : req' = [req EXCEPT ![c] = r] /\ ~Sweeping(r)
      /\ schedule' = schedule \/ Amend(c)
  <2>0. ~Sweeping(Idle)
    BY DEF Idle, Sweeping
  <2>1. CASE Ask(c)
    <3>1. PICK r : req' = [req EXCEPT ![c] = r] /\ r.pc = "checked"
      <4>1. \E op, e, v, n, t : req' = [req EXCEPT ![c] = RequestOf("checked", op, e, v, n, None, t, None)]
        BY <2>1, AskRequest
      <4>2. PICK op, e, v, n, t : req' = [req EXCEPT ![c] = RequestOf("checked", op, e, v, n, None, t, None)]
        BY <4>1
      <4>3. PICK r : r = RequestOf("checked", op, e, v, n, None, t, None)
        OBVIOUS
      <4>4. r.pc = "checked"
        BY <4>3 DEF RequestOf
      <4> QED BY <4>2, <4>3, <4>4
    <3> QED BY <2>1, <3>1, AskRequest DEF Sweeping
  <2>2. CASE AskAmend(c)
    <3>1. PICK r : req' = [req EXCEPT ![c] = r] /\ r.pc = "checked"
      BY <2>2, AskAmendStep
    <3> QED BY <2>2, <3>1 DEF AskAmend, Sweeping
  <2>3. CASE Writing(c)
    <3>1. PICK y : WriteOf(c, y)
      BY <2>3, ClientWrites
    <3> QED BY <2>0, <3>1 DEF WriteOf
  <2>4. CASE Amend(c) \/ Abandon(c)
    BY <2>0, <2>4 DEF Amend, Abandon, Done
  <2> QED BY <2>1, <2>2, <2>3, <2>4 DEF ClientStep, Writing
<1>2. PICK r : req' = [req EXCEPT ![c] = r] /\ ~Sweeping(r)
  BY <1>1
<1>3. Anchoring(r, schedule)
  BY <1>2 DEF Anchoring, Sweeping, Holding
<1>4. \A d \in Callers : req'[d] = req[d] \/ Anchoring(req'[d], schedule)
  BY <1>2, <1>3 DEF RecurringInvariant
<1>5. CASE schedule' = schedule /\ schedule # None
  BY <1>1, <1>4, <1>5, AnchorKept
<1>6. CASE schedule' = schedule /\ schedule = None
  BY <1>6 DEF AnchorInvariant
<1>7. CASE Amend(c)
  <2>1. /\ req[c].pc = "checked" /\ req[c].op = "amend" /\ schedule' = Merge(schedule, req[c].change)
    BY <1>7 DEF Amend, Doing
  <2>2. schedule # None /\ req[c].change \in Amendments /\ schedule \in Schedule
    BY <2>1 DEF RecurringInvariant, Relies
  <2>3. /\ schedule'.frequency = schedule.frequency /\ schedule'.interval = schedule.interval
        /\ schedule'.start = schedule.start /\ schedule'.next = schedule.next
    BY <2>1, <2>2, MergeKeepsDates
  <2> QED BY <1>1, <1>4, <2>2, <2>3, AnchorKept
<1> QED BY <1>1, <1>5, <1>6, <1>7

(* The steps of a worker.                                                  *)
LEMMA WorkerAnchors ==
  ASSUME RecurringInvariant, AnchorInvariant, NEW c \in Callers, WorkerStep(c)
  PROVE  AnchorInvariant'
<1>1. PICK x : x = req[c]
  OBVIOUS
<1>2. /\ x \in ExpenseRequest /\ req \in [Callers -> ExpenseRequest] /\ Relies(x, expenses, schedule, run)
      /\ run \in [Days -> Run \cup {None}] /\ schedule \in Schedule \cup {None} /\ today \in Days
  BY <1>1 DEF RecurringInvariant
<1>3. schedule # None /\ schedule \in Schedule
  BY <1>1, <1>2 DEF Relies, Sweeping, WorkerStep, StartSweep, ClaimRun, Skip, ReadSchedule, CommitGeneration,
                    FailGeneration, EndSweep
<1>4. schedule.frequency = "weekly" =>
        /\ schedule.next # None => Anchored(schedule, schedule.next)
        /\ \A p \in Days : run[p] # None => Anchored(schedule, p)
        /\ Anchoring(x, schedule)
  BY <1>1, <1>3 DEF AnchorInvariant
<1>5. ASSUME NEW r, req' = [req EXCEPT ![c] = r], schedule.frequency = "weekly" => Anchoring(r, schedule),
             run' = run, schedule' = schedule
      PROVE  AnchorInvariant'
  <2>1. schedule.frequency = "weekly" => \A d \in Callers : req'[d] = req[d] \/ Anchoring(req'[d], schedule)
    BY <1>2, <1>5
  <2> QED BY <1>3, <1>5, <2>1, AnchorKept
<1>6. CASE StartSweep(c)
  <2>1. PICK t : t = DuePeriods(schedule)
    OBVIOUS
  <2>2. PICK r : r = RequestOf("sweep", "sweep", 0, 0, None, None, t, None)
    OBVIOUS
  <2>3. [Idle EXCEPT !.pc = "sweep", !.op = "sweep", !.todo = t] = r
    BY <2>2, NewRequest, Zenon
  <2>4. req' = [req EXCEPT ![c] = r] /\ run' = run /\ schedule' = schedule
    BY <1>6, <2>1, <2>3 DEF StartSweep
  <2>5. r.pc = "sweep" /\ r.todo = t
    BY <2>2 DEF RequestOf
  <2>6. schedule.frequency = "weekly" => Anchoring(r, schedule)
    BY <1>2, <1>3, <1>4, <2>1, <2>5, DueAnchored DEF Anchoring, Sweeping, Holding
  <2> QED BY <1>5, <2>4, <2>6
<1>7. CASE Skip(c)
  <2>1. PICK t : t = x.todo \ {Min(x.todo)}
    OBVIOUS
  <2>2. PICK r : r = [x EXCEPT !.todo = t]
    OBVIOUS
  <2>3. /\ x.pc = "sweep" /\ req' = [req EXCEPT ![c].todo = @ \ {Min(@)}] /\ run' = run /\ schedule' = schedule
    BY <1>1, <1>7 DEF Skip
  <2>4. req' = [req EXCEPT ![c] = r]
    BY <1>1, <1>2, <2>1, <2>2, <2>3
  <2>5. r.pc = "sweep" /\ r.todo = t
    BY <1>2, <2>2, <2>3 DEF ExpenseRequest
  <2>6. schedule.frequency = "weekly" => Anchoring(r, schedule)
    BY <1>4, <2>1, <2>3, <2>5 DEF Anchoring, Sweeping, Holding
  <2> QED BY <1>5, <2>3, <2>4, <2>6
<1>8. CASE ReadSchedule(c)
  <2>1. PICK s : s = schedule
    OBVIOUS
  <2>2. PICK r : r = [x EXCEPT !.pc = "generating", !.snap = s]
    OBVIOUS
  <2>3. /\ x.pc = "claimed" /\ req' = [req EXCEPT ![c].pc = "generating", ![c].snap = s]
        /\ run' = run /\ schedule' = schedule
    BY <1>1, <1>8, <2>1 DEF ReadSchedule
  <2>4. req' = [req EXCEPT ![c] = r]
    BY <1>1, <1>2, <2>2, <2>3
  <2>5. r.pc = "generating" /\ r.todo = x.todo /\ r.on = x.on /\ r.snap = s
    BY <1>2, <2>2 DEF ExpenseRequest
  <2>6. schedule.frequency = "weekly" => Anchoring(r, schedule)
    BY <1>4, <2>1, <2>3, <2>5 DEF Anchoring, Sweeping, Holding
  <2> QED BY <1>5, <2>3, <2>4, <2>6
<1>9. CASE EndSweep(c)
  <2>1. Anchoring(Idle, schedule)
    BY DEF Anchoring, Idle, Sweeping, Holding
  <2> QED BY <1>5, <1>9, <2>1 DEF EndSweep
<1>10. CASE ClaimRun(c)
  <2>1. PICK p : p = Min(x.todo)
    OBVIOUS
  <2>2. PICK t : t = x.todo \ {p}
    OBVIOUS
  <2>3. PICK r : r = [x EXCEPT !.pc = "claimed", !.on = p, !.todo = t]
    OBVIOUS
  <2>4. /\ x.pc = "sweep" /\ x.todo # {} /\ schedule' = schedule
        /\ req' = [req EXCEPT ![c].pc = "claimed", ![c].on = p, ![c].todo = t]
        /\ \E w : run' = [run EXCEPT ![p] = w]
    BY <1>1, <1>2, <1>10, <2>1, <2>2 DEF ClaimRun
  <2>5. req' = [req EXCEPT ![c] = r]
    BY <1>1, <1>2, <2>3, <2>4
  <2>6. x.todo \subseteq Days /\ x.todo \in SUBSET Nat
    BY <1>2, <2>4, DaysAre DEF Relies, Sweeping
  <2>7. p \in x.todo /\ p \in Days
    BY <2>1, <2>4, <2>6, LeastNatural
  <2>8. r.pc = "claimed" /\ r.todo = t /\ r.on = p
    BY <1>2, <2>3 DEF ExpenseRequest
  <2>9. schedule.frequency = "weekly" => Anchored(schedule, p) /\ Anchoring(r, schedule)
    BY <1>4, <2>2, <2>4, <2>7, <2>8 DEF Anchoring, Sweeping, Holding
  <2>10. \A q \in Days : run'[q] # None => run[q] # None \/ q = p
    BY <1>2, <2>4
  <2>11. schedule.frequency = "weekly" =>
           /\ \A q \in Days : run'[q] # None => run[q] # None \/ Anchored(schedule, q)
           /\ \A d \in Callers : req'[d] = req[d] \/ Anchoring(req'[d], schedule)
    BY <1>2, <2>5, <2>9, <2>10
  <2> QED BY <1>3, <2>4, <2>11, AnchorKept
<1>11. CASE FailGeneration(c) \/ CommitGeneration(c)
  <2>1. PICK p, s : p = x.on /\ s = x.snap
    OBVIOUS
  <2>2. /\ x.pc = "generating" /\ req' = [req EXCEPT ![c].pc = "sweep", ![c].on = 0, ![c].snap = None]
        /\ schedule' = schedule \/ schedule' = Moved(s, p)
    BY <1>1, <1>11, <2>1 DEF FailGeneration, CommitGeneration, Moved
  <2>3. /\ p \in Days /\ p \in Nat /\ run[p] \in Run /\ Lawful(schedule) /\ s \in Schedule
    BY <1>1, <2>1, <2>2, Generating
  <2>4. PICK r \in ExpenseRequest : /\ req' = [req EXCEPT ![c] = r] /\ ~Holding(r)
                                    /\ r.pc = "sweep" /\ r.todo = x.todo
    BY <1>1, <2>2, Generating
  <2>5. schedule.frequency = "weekly" =>
          Anchored(schedule, p) /\ s.frequency = "weekly" /\ s.interval = schedule.interval
    BY <1>4, <2>1, <2>2 DEF Anchoring, Holding
  <2>6. schedule.frequency = "weekly" => Anchoring(r, schedule)
    BY <1>4, <2>2, <2>4 DEF Anchoring, Sweeping, Holding
  <2>7. \A q \in Days : run'[q] # None => run[q] # None
    <3>1. run[p] # None
      BY <2>3, NoneIsNoOccurrence
    <3>2. \A q \in Days : q # p => run'[q] = run[q]
      BY <1>1, <1>2, <1>11, <2>1, <2>3 DEF FailGeneration, CommitGeneration
    <3> QED BY <3>1, <3>2
  <2>8. /\ schedule'.frequency = schedule.frequency /\ schedule'.interval = schedule.interval
        /\ schedule'.start = schedule.start
        /\ schedule.frequency = "weekly" => schedule'.next = schedule.next \/ Anchored(schedule, schedule'.next)
    <3>1. CASE schedule' = schedule
      BY <3>1
    <3>2. CASE schedule' = Moved(s, p)
      <4>1. /\ schedule'.frequency = schedule.frequency /\ schedule'.interval = schedule.interval
            /\ schedule'.start = schedule.start
            /\ schedule'.next = IF s.frequency = "weekly" THEN p + Week * s.interval ELSE schedule.next
        BY <1>3, <2>3, <3>2, MovedTypes
      <4>2. Anchored(schedule, p) => Anchored(schedule, p + Week * schedule.interval)
        BY <1>3, AnchorMoves
      <4> QED BY <2>5, <4>1, <4>2
    <3> QED BY <2>2, <3>1, <3>2
  <2>9. schedule.frequency = "weekly" => \A d \in Callers : req'[d] = req[d] \/ Anchoring(req'[d], schedule)
    BY <1>2, <2>4, <2>6
  <2> QED BY <1>3, <2>7, <2>8, <2>9, AnchorKept
<1> QED BY <1>6, <1>7, <1>8, <1>9, <1>10, <1>11 DEF WorkerStep

(* A rolling schedule whose dates nobody moves generates whole intervals   *)
(* from its first day (recurrencePeriod.ts, advanceRollingPeriod),         *)
(* whenever it is swept and whatever else of it is amended.                *)
THEOREM RollingAnchoredHolds ==
  ASSUME DatesStay
  PROVE  RecurringSpec => []RollingAnchored
<1>1. RecurringInit => AnchorInvariant
  BY DEF RecurringInit, AnchorInvariant
<1>2. RecurringInvariant /\ AnchorInvariant /\ [RecurringNext]_recurringVars => AnchorInvariant'
  <2> SUFFICES ASSUME RecurringInvariant, AnchorInvariant, [RecurringNext]_recurringVars PROVE AnchorInvariant'
    OBVIOUS
  <2>1. CASE CreateExpense
    BY <2>1, AnchorCreate
  <2>2. ASSUME NEW c \in Callers, ClientStep(c), UNCHANGED <<today, sweeps>> PROVE AnchorInvariant'
    BY <2>2, ClientAnchors
  <2>3. ASSUME NEW c \in Callers, WorkerStep(c) PROVE AnchorInvariant'
    BY <2>3, WorkerAnchors
  <2>4. CASE NextDay \/ UNCHANGED recurringVars
    BY <2>4 DEF NextDay, recurringVars, expenseVars, AnchorInvariant
  <2> QED BY <2>1, <2>2, <2>3, <2>4 DEF RecurringNext, SweepsQuiescent
<1>3. RecurringInvariant /\ AnchorInvariant => RollingAnchored
  <2> SUFFICES ASSUME RecurringInvariant, AnchorInvariant, schedule # None, schedule.frequency = "weekly",
                      NEW p \in Days, run[p] # None
               PROVE  (p - schedule.start) % (Week * schedule.interval) = 0
    BY DEF RollingAnchored
  <2>1. schedule \in Schedule
    BY DEF RecurringInvariant
  <2>2. PICK m \in Nat \ {0} : m = Week * schedule.interval
    BY <2>1, RecurrenceAssumption DEF Schedule
  <2>3. PICK a \in Nat : a = schedule.start
    BY <2>1 DEF Schedule
  <2>4. PICK k \in Nat : p = a + m * k
    BY <2>2, <2>3 DEF AnchorInvariant, Anchored
  <2>5. p - a = m * k
    BY <2>4
  <2> QED BY <2>2, <2>3, <2>5, Multiple
<1> QED BY <1>1, <1>2, <1>3, RecurringInvariantHolds, PTL DEF RecurringSpec
==============================================================================
