----------------------------- MODULE ReceiptPayrollProofs -----------------------------
(***************************************************************************)
(* Proofs about two components that share nothing.                         *)
(*                                                                         *)
(* ReceiptDelivery, for any requests, keys, staleness and faults: what     *)
(* ties the rows together is that an attempt exists only beside the key    *)
(* that names its request, so that whoever writes both writes its own;     *)
(* what keeps the sweep apart from a request that ends in time is that     *)
(* such a request is gone before its attempt is stale, and that a request  *)
(* that is gone never comes back.                                          *)
(*                                                                         *)
(* Payroll, for any employees, structures and days: what a request holds   *)
(* while it is in flight stays true of the tables, which never lose a      *)
(* record, an approved day or a structure; what is moved from one record   *)
(* to another is a number and its opposite; and a reversal keeps the sum   *)
(* it read for as long as it holds the lock. Each operation writes one     *)
(* record in one of three ways, or moves commission between two.           *)
(***************************************************************************)
EXTENDS ReceiptDelivery, Payroll, SumTheorems

Gone(r) == pc[r] \in {"failed", "crashed"}

(* How far a request is and what it has done.                              *)
Progress(r) ==
  /\ pc[r] \in {"idle", "missed", "counted"} => attempt[r] = None
  /\ pc[r] = "counted" => lock[KeyOf(r)] = r /\ key[KeyOf(r)] = None
  /\ pc[r] \in Owning => attempt[r] # None
  /\ pc[r] = "created" => attempt[r].status = "pending"
  /\ provider[r] # "none" => attempt[r] # None
  /\ provider[r] # "none" => pc[r] \notin {"created", "sending"}
  /\ pc[r] = "sent" => returned[r] # "nothing"
  /\ returned[r] = "ok" => provider[r] = "accepted"
  /\ attempt[r] # None /\ pc[r] \notin Live => Resolved(r) \/ Gone(r)
  /\ pc[r] = "resolved" => Resolved(r)
  /\ r \notin Slow /\ pc[r] \in Owning \ {"resolved"} =>
       ~Resolved(r) /\ attempt[r].age <= Stale

(* An attempt and the key of its request say the same.                     *)
Paired(r) ==
  attempt[r] # None =>
    /\ key[KeyOf(r)] # None
    /\ key[KeyOf(r)].by = r
    /\ Resolved(r) <=> key[KeyOf(r)].body # "inflight"
    /\ attempt[r].status = "success" /\ ~Printed(r) => provider[r] = "accepted"
    /\ key[KeyOf(r)].body = "success" /\ ~Printed(r) => provider[r] = "accepted"
    /\ r \notin Slow => /\ attempt[r].status = "unknown" => Gone(r)
                        /\ Resolved(r) => key[KeyOf(r)].body = attempt[r].status

(* A request the sweep has on its list.                                    *)
Listed(r) ==
  /\ attempt[r] # None /\ pc[r] # "created"
  /\ r \notin Slow => attempt[r].status = "sending" /\ Gone(r)

SweepOK ==
  /\ \A r \in sweep.todo : Listed(r)
  /\ sweep.pc \in {"checked", "read"} =>
       /\ sweep.cur \in Requests /\ Listed(sweep.cur)
       /\ sweep.cur \notin Slow => sweep.cur \notin sweep.todo
       /\ sweep.verdict = "success" => provider[sweep.cur] = "accepted"
  /\ sweep.pc = "read" /\ ~sweep.inflight =>
       sweep.cur \in Slow /\ key[KeyOf(sweep.cur)].body # "inflight"

(* A row of a key is that of a request with an attempt of its own.         *)
KeyOwned(k) == key[k] # None => attempt[key[k].by] # None /\ KeyOf(key[k].by) = k

DeliveryInvariant ==
  /\ TypeOK /\ IsFiniteSet(Attempts)
  /\ \A r \in Requests : Progress(r) /\ Paired(r)
  /\ \A k \in Keys : KeyOwned(k)
  /\ SweepOK

------------------------------------------------------------------------------
(* A row with another status.                                              *)
LEMMA StatusWritten ==
  ASSUME NEW a \in Attempt, NEW s \in {"pending", "sending"} \cup Resolutions
  PROVE  /\ WithStatus(a, s) \in Attempt /\ WithStatus(a, s) # None
         /\ WithStatus(a, s).status = s /\ WithStatus(a, s).age = a.age
<1>1. WithStatus(a, s) \in Attempt
  BY DEF WithStatus, Attempt
<1> QED BY <1>1, NoneIsNoRow DEF WithStatus

(* A request that another one leaves alone keeps what is said of it.       *)
LEMMA Onlooker ==
  ASSUME DeliveryInvariant, NEW s \in Requests, ask' = ask, pc'[s] = pc[s],
         attempt'[s] = attempt[s], provider'[s] = provider[s], returned'[s] = returned[s],
         attempt[s] # None \/ pc[s] = "counted" => key'[KeyOf(s)] = key[KeyOf(s)],
         pc[s] = "counted" => lock'[KeyOf(s)] = lock[KeyOf(s)]
  PROVE  Progress(s)' /\ Paired(s)' /\ (Listed(s) => Listed(s)')
<1>1. Progress(s) /\ Paired(s)
  BY DEF DeliveryInvariant
<1>2. Progress(s)'
  BY <1>1 DEF Progress, KeyOf, Resolved, Gone
<1>3. Paired(s)'
  BY <1>1 DEF Paired, KeyOf, Resolved, Gone, Printed
<1> QED BY <1>2, <1>3 DEF Listed, Gone

(* What the sweep works on is left to it.                                  *)
LEMMA SweepWaits ==
  ASSUME DeliveryInvariant, UNCHANGED <<ask, sweep>>,
         \A r \in Requests : Listed(r) => Listed(r)',
         \A r \in Requests : provider[r] = "accepted" => provider'[r] = "accepted",
         \A k \in Keys : key[k] # None /\ key[k].body # "inflight" => key'[k].body # "inflight"
  PROVE  SweepOK'
<1>1. SweepOK /\ sweep \in SweepState /\ ask \in [Requests -> Keys]
  BY DEF DeliveryInvariant, TypeOK
<1>2. \A r \in sweep.todo : Listed(r)'
  BY <1>1 DEF SweepOK, SweepState
<1>3. sweep.pc \in {"checked", "read"} =>
        /\ sweep.cur \in Requests /\ Listed(sweep.cur)'
        /\ sweep.cur \notin Slow => sweep.cur \notin sweep.todo
        /\ sweep.verdict = "success" => provider'[sweep.cur] = "accepted"
  BY <1>1 DEF SweepOK
<1>4. sweep.pc = "read" /\ ~sweep.inflight =>
        sweep.cur \in Slow /\ key'[KeyOf(sweep.cur)].body # "inflight"
  <2>1. SUFFICES ASSUME sweep.pc = "read", ~sweep.inflight
                 PROVE  sweep.cur \in Slow /\ key'[KeyOf(sweep.cur)].body # "inflight"
    OBVIOUS
  <2>2. /\ sweep.cur \in Slow /\ key[KeyOf(sweep.cur)].body # "inflight"
        /\ sweep.cur \in Requests /\ attempt[sweep.cur] # None
    BY <1>1, <2>1 DEF SweepOK, Listed
  <2>3. key[KeyOf(sweep.cur)] # None /\ KeyOf(sweep.cur) \in Keys
    BY <1>1, <2>2 DEF DeliveryInvariant, Paired, KeyOf
  <2> QED BY <2>2, <2>3
<1> QED BY <1>2, <1>3, <1>4 DEF SweepOK, KeyOf

(* A step of one request.                                                  *)
LEMMA StepOf ==
  ASSUME DeliveryInvariant, NEW r \in Requests, UNCHANGED <<ask, sweep>>,
         TypeOK', IsFiniteSet(Attempts)', Progress(r)', Paired(r)', Listed(r) => Listed(r)',
         provider[r] = "accepted" => provider'[r] = "accepted",
         \A s \in Requests \ {r} :
           /\ pc'[s] = pc[s] /\ attempt'[s] = attempt[s]
           /\ provider'[s] = provider[s] /\ returned'[s] = returned[s]
           /\ attempt[s] # None \/ pc[s] = "counted" => key'[KeyOf(s)] = key[KeyOf(s)]
           /\ pc[s] = "counted" => lock'[KeyOf(s)] = lock[KeyOf(s)],
         \A k \in Keys : key[k] # None /\ key[k].body # "inflight" => key'[k].body # "inflight",
         \A k \in Keys : KeyOwned(k)'
  PROVE  DeliveryInvariant'
<1>1. \A s \in Requests : Progress(s)' /\ Paired(s)' /\ (Listed(s) => Listed(s)')
  BY Onlooker
<1>2. \A s \in Requests : provider[s] = "accepted" => provider'[s] = "accepted"
  OBVIOUS
<1>3. SweepOK'
  BY <1>1, <1>2, SweepWaits
<1> QED BY <1>1, <1>3 DEF DeliveryInvariant

(* A request that writes no row goes on.                                   *)
LEMMA WritesNothing ==
  ASSUME DeliveryInvariant, NEW r \in Requests, NEW label \in {"missed", "counted"} \cup Settled,
         Goto(r, label), UNCHANGED <<ask, key, attempt, provider, sweep>>,
         returned' = returned, TypeOK', Progress(r)',
         Gone(r)' \/ ~Gone(r),
         \A s \in Requests \ {r} :
           pc[s] = "counted" => lock'[KeyOf(s)] = lock[KeyOf(s)]
  PROVE  DeliveryInvariant'
<1>1. pc \in [Requests -> {"idle"} \cup Live \cup Settled]
  BY DEF DeliveryInvariant, TypeOK
<1>2. pc'[r] = label /\ \A s \in Requests \ {r} : pc'[s] = pc[s]
  BY <1>1 DEF Goto
<1>3. Paired(r)'
  BY DEF DeliveryInvariant, Paired, KeyOf, Resolved, Printed, Gone
<1>4. Listed(r) => Listed(r)'
  BY <1>2 DEF Listed, Gone, Settled
<1>5. \A k \in Keys : KeyOwned(k)'
  BY DEF DeliveryInvariant, KeyOwned, KeyOf
<1>6. IsFiniteSet(Attempts)'
  BY DEF DeliveryInvariant, Attempts
<1> QED BY <1>2, <1>3, <1>4, <1>5, <1>6, StepOf DEF DeliveryInvariant

(* The key is looked up: the retry of a request that ended is answered.    *)
LEMMA LookupKeeps ==
  ASSUME DeliveryInvariant, NEW r \in Requests, Lookup(r)
  PROVE  DeliveryInvariant'
<1>1. PICK label \in {"missed", "conflict", "replied"} : Goto(r, label)
  BY DEF Lookup
<1>2. /\ pc[r] = "idle"
      /\ UNCHANGED <<ask, key, lock, attempt, number, provider, returned, sweep, faults>>
  BY DEF Lookup
<1>3. TypeOK /\ Progress(r)
  BY DEF DeliveryInvariant
<1>4. TypeOK' /\ pc'[r] = label
  BY <1>1, <1>2, <1>3 DEF TypeOK, Goto, Live, Settled
<1>5. Progress(r)'
  BY <1>2, <1>3, <1>4 DEF Progress, KeyOf, Resolved, Gone, Live, Owning, Claiming
<1>6. ~Gone(r)
  BY <1>2 DEF Gone
<1> QED BY <1>1, <1>2, <1>4, <1>5, <1>6, WritesNothing DEF Settled

(* The claim of a free key takes its lock ...                              *)
LEMMA ClaimKeeps ==
  ASSUME DeliveryInvariant, NEW r \in Requests, ClaimAndCount(r)
  PROVE  DeliveryInvariant'
<1>1. /\ pc[r] = "missed" /\ lock[KeyOf(r)] = None /\ key[KeyOf(r)] = None
      /\ Goto(r, "counted") /\ lock' = [lock EXCEPT ![KeyOf(r)] = r]
      /\ number' = [number EXCEPT ![r] = Cardinality(Attempts) + 1]
      /\ UNCHANGED <<ask, key, attempt, provider, returned, sweep, faults>>
  BY DEF ClaimAndCount, Free
<1>2. TypeOK /\ Progress(r) /\ IsFiniteSet(Attempts)
  BY DEF DeliveryInvariant
<1>3. Cardinality(Attempts) + 1 \in Nat
  BY <1>2, FS_CardinalityType
<1>4. KeyOf(r) \in Keys
  BY <1>2 DEF TypeOK, KeyOf
<1>5. TypeOK' /\ pc'[r] = "counted"
  BY <1>1, <1>2, <1>3, <1>4 DEF TypeOK, Goto, Live, Claiming
<1>6. lock'[KeyOf(r)] = r
  BY <1>1, <1>2, <1>4 DEF TypeOK
<1>7. Progress(r)'
  BY <1>1, <1>2, <1>5, <1>6 DEF Progress, KeyOf, Resolved, Gone, Live, Owning, Claiming
<1>8. \A s \in Requests \ {r} : pc[s] = "counted" => lock'[KeyOf(s)] = lock[KeyOf(s)]
  <2>1. \A s \in Requests \ {r} : pc[s] = "counted" => lock[KeyOf(s)] = s
    BY DEF DeliveryInvariant, Progress
  <2> QED BY <1>1, <1>2, <2>1, DeliveryAssumption DEF TypeOK, KeyOf
<1>9. ~Gone(r)
  BY <1>1 DEF Gone
<1> QED BY <1>1, <1>5, <1>7, <1>8, <1>9, WritesNothing

(* ... which whoever ends without an attempt gives back.                   *)
LEMMA UnlockOwn ==
  ASSUME DeliveryInvariant, NEW r \in Requests, lock' = Unlock(r)
  PROVE  /\ lock' \in [Keys -> Requests \cup {None}]
         /\ \A s \in Requests \ {r} : pc[s] = "counted" => lock'[KeyOf(s)] = lock[KeyOf(s)]
<1>1. TypeOK /\ \A s \in Requests : pc[s] = "counted" => lock[KeyOf(s)] = s
  BY DEF DeliveryInvariant, Progress
<1>2. lock' \in [Keys -> Requests \cup {None}]
  BY <1>1 DEF TypeOK, Unlock
<1>3. ASSUME NEW s \in Requests \ {r}, pc[s] = "counted"
      PROVE  lock'[KeyOf(s)] = lock[KeyOf(s)]
  BY <1>1, <1>3 DEF TypeOK, Unlock, KeyOf
<1> QED BY <1>2, <1>3

(* A request that ends, or whose claim or row is refused, holds nothing   *)
(* that the invariant speaks of any more.                                  *)
LEMMA EndingsKeep ==
  ASSUME DeliveryInvariant, NEW r \in Requests,
         ClaimRefused(r) \/ CreateCollides(r) \/ Respond(r) \/ Fail(r)
  PROVE  DeliveryInvariant'
<1>1. PICK label \in {"conflict", "collided", "replied", "failed"} :
        /\ Goto(r, label) /\ UNCHANGED <<ask, key, attempt, number, provider, returned, sweep, faults>>
        /\ lock' = lock \/ lock' = Unlock(r)
        /\ pc[r] \in Live
        /\ label = "failed" \/ pc[r] \in {"missed", "counted", "resolved"}
  BY DEF ClaimRefused, CreateCollides, Respond, Fail, Live, Claiming, Owning
<1>2. TypeOK /\ Progress(r)
  BY DEF DeliveryInvariant
<1>3. /\ lock' \in [Keys -> Requests \cup {None}]
      /\ \A s \in Requests \ {r} : pc[s] = "counted" => lock'[KeyOf(s)] = lock[KeyOf(s)]
  BY <1>1, <1>2, UnlockOwn DEF TypeOK
<1>4. TypeOK' /\ pc'[r] = label
  BY <1>1, <1>2, <1>3 DEF TypeOK, Goto, Settled
<1>5. Progress(r)'
  BY <1>1, <1>2, <1>4 DEF Progress, KeyOf, Resolved, Gone, Live, Owning, Claiming
<1>6. ~Gone(r)
  BY <1>1 DEF Gone, Live, Claiming, Owning
<1> QED BY <1>1, <1>3, <1>4, <1>5, <1>6, WritesNothing DEF Settled

(* The attempt is created beside the key that names its request; while the *)
(* key was free nobody had an attempt under it.                            *)
LEMMA CreateKeeps ==
  ASSUME DeliveryInvariant, NEW r \in Requests, Create(r)
  PROVE  DeliveryInvariant'
<1> DEFINE k == KeyOf(r)
<1>1. /\ pc[r] = "counted" /\ Goto(r, "created")
      /\ attempt' = [attempt EXCEPT ![r] = [number |-> number[r], status |-> "pending", age |-> 0]]
      /\ key' = [key EXCEPT ![k] = [by |-> r, body |-> "inflight"]]
      /\ lock' = Unlock(r)
      /\ UNCHANGED <<ask, number, provider, returned, sweep, faults>>
  BY DEF Create
<1>2. TypeOK /\ Progress(r) /\ IsFiniteSet(Attempts) /\ k \in Keys
  BY DEF DeliveryInvariant, TypeOK, KeyOf
<1>3. attempt[r] = None /\ key[k] = None /\ lock[k] = r /\ provider[r] = "none"
  BY <1>1, <1>2 DEF Progress
<1>4. /\ attempt'[r] \in Attempt /\ attempt'[r].status = "pending" /\ attempt'[r].age = 0
      /\ attempt' \in [Requests -> Attempt \cup {None}]
      /\ \A s \in Requests \ {r} : attempt'[s] = attempt[s]
  <2>1. PICK row : row = [number |-> number[r], status |-> "pending", age |-> 0]
    OBVIOUS
  <2>2. row \in Attempt /\ row.status = "pending" /\ row.age = 0
    BY <1>2, <2>1, DeliveryAssumption DEF TypeOK, Attempt
  <2>3. attempt' = [attempt EXCEPT ![r] = row]
    BY <1>1, <2>1
  <2> QED BY <1>2, <2>2, <2>3 DEF TypeOK
<1>5. /\ key'[k] \in KeyRow /\ key'[k].by = r /\ key'[k].body = "inflight"
      /\ key' \in [Keys -> KeyRow \cup {None}]
      /\ \A j \in Keys \ {k} : key'[j] = key[j]
  <2>1. PICK row : row = [by |-> r, body |-> "inflight"]
    OBVIOUS
  <2>2. row \in KeyRow /\ row.by = r /\ row.body = "inflight"
    BY <2>1 DEF KeyRow
  <2>3. key' = [key EXCEPT ![k] = row]
    BY <1>1, <2>1
  <2> QED BY <1>2, <2>2, <2>3 DEF TypeOK
<1>6. pc'[r] = "created" /\ \A s \in Requests \ {r} : pc'[s] = pc[s]
  BY <1>1, <1>2 DEF TypeOK, Goto
<1>7. /\ lock' \in [Keys -> Requests \cup {None}]
      /\ \A s \in Requests \ {r} : pc[s] = "counted" => lock'[KeyOf(s)] = lock[KeyOf(s)]
  BY <1>1, UnlockOwn
<1>8. TypeOK'
  BY <1>1, <1>2, <1>4, <1>5, <1>7 DEF TypeOK, Goto, Live, Owning
<1>9. attempt'[r] # None /\ key'[k] # None
  BY <1>4, <1>5, NoneIsNoRow
<1>10. IsFiniteSet(Attempts)'
  <2>1. Attempts' = Attempts \cup {r}
    BY <1>4, <1>9 DEF Attempts
  <2> QED BY <1>2, <2>1, FS_AddElement
<1>11. Progress(r)'
  BY <1>1, <1>2, <1>3, <1>4, <1>6, <1>9, DeliveryAssumption
     DEF Progress, Resolved, Resolutions, Live, Owning, Gone
<1>12. Paired(r)'
  BY <1>1, <1>4, <1>5, <1>9 DEF Paired, Resolved, Resolutions, KeyOf
<1>13. ~Listed(r)
  BY <1>3 DEF Listed
<1>14. ASSUME NEW s \in Requests \ {r}, attempt[s] # None \/ pc[s] = "counted"
       PROVE  key'[KeyOf(s)] = key[KeyOf(s)]
  <2>1. KeyOf(s) # k
    BY <1>2, <1>3, <1>14 DEF DeliveryInvariant, Progress, Paired
  <2>2. KeyOf(s) \in Keys
    BY <1>2 DEF TypeOK, KeyOf
  <2> QED BY <1>5, <2>1, <2>2
<1>15. \A j \in Keys : key[j] # None /\ key[j].body # "inflight" => key'[j].body # "inflight"
  BY <1>3, <1>5
<1>16. ASSUME NEW j \in Keys PROVE KeyOwned(j)'
  <2>1. CASE j = k
    BY <1>1, <1>5, <1>9, <2>1 DEF KeyOwned, KeyOf
  <2>2. CASE j # k
    <3>1. KeyOwned(j) /\ key[j] \in KeyRow \cup {None} /\ key'[j] = key[j]
      BY <1>2, <1>5, <2>2 DEF DeliveryInvariant, TypeOK
    <3>2. key[j] # None => key[j].by \in Requests
      BY <3>1 DEF KeyRow
    <3> QED BY <1>1, <1>4, <1>9, <3>1, <3>2 DEF KeyOwned, KeyOf
  <2> QED BY <2>1, <2>2
<1>17. \A s \in Requests \ {r} : provider'[s] = provider[s] /\ returned'[s] = returned[s]
  BY <1>1
<1> HIDE DEF k
<1> QED BY <1>1, <1>4, <1>6, <1>7, <1>8, <1>10, <1>11, <1>12, <1>13, <1>14, <1>15, <1>16, <1>17,
           StepOf

(* The attempt is marked before the provider is called ...                 *)
LEMMA MarkSendingKeeps ==
  ASSUME DeliveryInvariant, NEW r \in Requests, MarkSending(r)
  PROVE  DeliveryInvariant'
<1>1. /\ pc[r] = "created" /\ Goto(r, "sending")
      /\ attempt' = [attempt EXCEPT ![r] = WithStatus(attempt[r], "sending")]
      /\ UNCHANGED <<ask, key, lock, number, provider, returned, sweep, faults>>
  BY DEF MarkSending
<1>2. TypeOK /\ Progress(r) /\ Paired(r) /\ IsFiniteSet(Attempts)
  BY DEF DeliveryInvariant
<1>3. attempt[r] \in Attempt /\ attempt[r] # None /\ attempt[r].status = "pending"
  BY <1>1, <1>2 DEF Progress, TypeOK, Owning
<1>4. /\ attempt'[r] \in Attempt /\ attempt'[r] # None
      /\ attempt'[r].status = "sending" /\ attempt'[r].age = attempt[r].age
      /\ attempt' \in [Requests -> Attempt \cup {None}]
      /\ \A s \in Requests \ {r} : attempt'[s] = attempt[s]
  BY <1>1, <1>2, <1>3, StatusWritten DEF TypeOK
<1>5. pc'[r] = "sending" /\ \A s \in Requests \ {r} : pc'[s] = pc[s]
  BY <1>1, <1>2 DEF TypeOK, Goto
<1>6. TypeOK'
  BY <1>1, <1>2, <1>4 DEF TypeOK, Goto, Live, Owning
<1>7. IsFiniteSet(Attempts)'
  <2>1. Attempts' = Attempts
    BY <1>3, <1>4 DEF Attempts
  <2> QED BY <1>2, <2>1
<1>8. Progress(r)'
  BY <1>1, <1>2, <1>4, <1>5 DEF Progress, Resolved, Resolutions, Live, Owning, Gone
<1>9. Paired(r)'
  BY <1>1, <1>2, <1>3, <1>4 DEF Paired, Resolved, Resolutions, KeyOf, Printed
<1>10. ~Listed(r)
  BY <1>1 DEF Listed
<1>11. \A k \in Keys : KeyOwned(k)'
  <2>1. \A s \in Requests : attempt[s] # None => attempt'[s] # None
    BY <1>4
  <2> QED BY <1>1, <1>2, <2>1 DEF DeliveryInvariant, KeyOwned, KeyOf, TypeOK, KeyRow
<1> QED BY <1>1, <1>4, <1>5, <1>6, <1>7, <1>8, <1>9, <1>10, <1>11, StepOf

(* ... which takes the message or refuses it, once for this request.       *)
LEMMA SendKeeps ==
  ASSUME DeliveryInvariant, NEW r \in Requests, Send(r)
  PROVE  DeliveryInvariant'
<1>1. PICK did \in {"accepted", "refused"}, told \in {"ok", "error"} :
        /\ did = "refused" => told = "error"
        /\ provider' = [provider EXCEPT ![r] = did]
        /\ returned' = [returned EXCEPT ![r] = told]
  BY DEF Send
<1>2. /\ pc[r] = "sending" /\ Goto(r, "sent")
      /\ UNCHANGED <<ask, key, lock, attempt, number, sweep, faults>>
  BY DEF Send
<1>3. TypeOK /\ Progress(r) /\ Paired(r)
  BY DEF DeliveryInvariant
<1>4. /\ pc'[r] = "sent" /\ provider'[r] = did /\ returned'[r] = told
      /\ \A s \in Requests \ {r} :
           pc'[s] = pc[s] /\ provider'[s] = provider[s] /\ returned'[s] = returned[s]
  BY <1>1, <1>2, <1>3 DEF TypeOK, Goto
<1>5. TypeOK'
  BY <1>1, <1>2, <1>3 DEF TypeOK, Goto, Live, Owning
<1>6. provider[r] = "none" /\ attempt[r] # None
  BY <1>2, <1>3 DEF Progress, TypeOK, Owning
<1>7. Progress(r)'
  BY <1>1, <1>2, <1>3, <1>4, <1>6 DEF Progress, Resolved, Live, Owning, Gone
<1>8. Paired(r)'
  BY <1>2, <1>3, <1>4, <1>6 DEF Paired, Progress, Resolved, KeyOf, Printed, Owning, Gone
<1>9. Listed(r) => Listed(r)'
  BY <1>2, <1>4 DEF Listed, Gone
<1>10. \A k \in Keys : KeyOwned(k)'
  BY <1>2 DEF DeliveryInvariant, KeyOwned, KeyOf
<1>11. IsFiniteSet(Attempts)'
  BY <1>2 DEF DeliveryInvariant, Attempts
<1> QED BY <1>2, <1>4, <1>5, <1>6, <1>7, <1>8, <1>9, <1>10, <1>11, StepOf

(* Whoever resolves the rows of an attempt writes the key that names it.   *)
LEMMA BothResolved ==
  ASSUME DeliveryInvariant, NEW r \in Requests, attempt[r] # None, NEW status \in Resolutions,
         ResolveBoth(r, status)
  PROVE  /\ attempt' \in [Requests -> Attempt \cup {None}] /\ key' \in [Keys -> KeyRow \cup {None}]
         /\ attempt'[r] # None /\ attempt'[r].status = status /\ attempt'[r].age = attempt[r].age
         /\ key'[KeyOf(r)] # None
         /\ key'[KeyOf(r)].by = r /\ key'[KeyOf(r)].body = status
         /\ \A s \in Requests \ {r} :
              /\ attempt'[s] = attempt[s]
              /\ attempt[s] # None \/ pc[s] = "counted" => key'[KeyOf(s)] = key[KeyOf(s)]
         /\ \A k \in Keys : key[k] # None /\ key[k].body # "inflight" => key'[k].body # "inflight"
         /\ UNCHANGED ask => \A k \in Keys : KeyOwned(k)'
         /\ Attempts' = Attempts
<1> DEFINE k == KeyOf(r)
<1>1. TypeOK /\ Paired(r) /\ k \in Keys
  BY DEF DeliveryInvariant, TypeOK, KeyOf
<1>2. attempt[r] \in Attempt /\ key[k] # None /\ key[k].by = r
  BY <1>1 DEF TypeOK, Paired
<1>3. /\ attempt' = [attempt EXCEPT ![r] = WithStatus(attempt[r], status)]
      /\ key' = [key EXCEPT ![k] = [by |-> key[k].by, body |-> status]]
  BY DEF ResolveBoth
<1>4. /\ attempt' \in [Requests -> Attempt \cup {None}]
      /\ attempt'[r] # None /\ attempt'[r].status = status /\ attempt'[r].age = attempt[r].age
      /\ \A s \in Requests \ {r} : attempt'[s] = attempt[s]
  <2>1. PICK row : row = WithStatus(attempt[r], status)
    OBVIOUS
  <2>2. row \in Attempt /\ row # None /\ row.status = status /\ row.age = attempt[r].age
    BY <1>2, <2>1, StatusWritten
  <2>3. attempt' = [attempt EXCEPT ![r] = row]
    BY <1>3, <2>1
  <2> QED BY <1>1, <2>2, <2>3 DEF TypeOK
<1>5. /\ key' \in [Keys -> KeyRow \cup {None}]
      /\ key'[k] # None /\ key'[k].by = r /\ key'[k].body = status
      /\ \A j \in Keys \ {k} : key'[j] = key[j]
  <2>1. PICK row : row = [by |-> r, body |-> status]
    OBVIOUS
  <2>2. row \in KeyRow /\ row.by = r /\ row.body = status
    BY <2>1 DEF KeyRow
  <2>3. key' = [key EXCEPT ![k] = row]
    BY <1>2, <1>3, <2>1
  <2> QED BY <1>1, <2>2, <2>3, NoneIsNoRow DEF TypeOK
<1>6. ASSUME NEW s \in Requests \ {r}, attempt[s] # None \/ pc[s] = "counted"
      PROVE  key'[KeyOf(s)] = key[KeyOf(s)]
  <2>1. KeyOf(s) # k
    BY <1>2, <1>6 DEF DeliveryInvariant, Progress, Paired
  <2>2. KeyOf(s) \in Keys
    BY <1>1 DEF TypeOK, KeyOf
  <2> QED BY <1>5, <2>1, <2>2
<1>7. \A j \in Keys : key[j] # None /\ key[j].body # "inflight" => key'[j].body # "inflight"
  BY <1>5 DEF Resolutions
<1>8. ASSUME UNCHANGED ask, NEW j \in Keys PROVE KeyOwned(j)'
  <2>1. CASE j = k
    BY <1>4, <1>5, <1>8, <2>1 DEF KeyOwned, KeyOf
  <2>2. CASE j # k
    <3>1. KeyOwned(j) /\ key[j] \in KeyRow \cup {None} /\ key'[j] = key[j]
      BY <1>1, <1>5, <2>2 DEF DeliveryInvariant, TypeOK
    <3>2. key[j] # None => key[j].by \in Requests
      BY <3>1 DEF KeyRow
    <3> QED BY <1>4, <1>8, <3>1, <3>2 DEF KeyOwned, KeyOf
  <2> QED BY <2>1, <2>2
<1>9. Attempts' = Attempts
  BY <1>4 DEF Attempts
<1> HIDE DEF k
<1> QED BY <1>4, <1>5, <1>6, <1>7, <1>8, <1>9 DEF k

(* The request resolves what it sent, or what it had nothing to send for.  *)
LEMMA ResolveKeeps ==
  ASSUME DeliveryInvariant, NEW r \in Requests, Resolve(r)
  PROVE  DeliveryInvariant'
<1> DEFINE status == FinalStatus(r)
<1>1. /\ pc[r] = "sent" \/ (pc[r] = "created" /\ Printed(r))
      /\ Goto(r, "resolved") /\ ResolveBoth(r, status)
      /\ UNCHANGED <<ask, lock, number, provider, returned, sweep, faults>>
  BY DEF Resolve
<1>2. TypeOK /\ Progress(r) /\ Paired(r) /\ IsFiniteSet(Attempts)
  BY DEF DeliveryInvariant
<1>3. attempt[r] # None
  BY <1>1, <1>2 DEF Progress, Owning
<1>4. /\ status \in {"success", "failed"}
      /\ status = "success" /\ ~Printed(r) => provider[r] = "accepted"
  BY <1>1, <1>2 DEF FinalStatus, Progress, TypeOK
<1> HIDE DEF status
<1>5. /\ attempt' \in [Requests -> Attempt \cup {None}] /\ key' \in [Keys -> KeyRow \cup {None}]
      /\ attempt'[r] # None /\ attempt'[r].status = status
      /\ key'[KeyOf(r)] # None /\ key'[KeyOf(r)].by = r /\ key'[KeyOf(r)].body = status
      /\ \A s \in Requests \ {r} :
           /\ attempt'[s] = attempt[s]
           /\ attempt[s] # None \/ pc[s] = "counted" => key'[KeyOf(s)] = key[KeyOf(s)]
      /\ \A k \in Keys : key[k] # None /\ key[k].body # "inflight" => key'[k].body # "inflight"
      /\ \A k \in Keys : KeyOwned(k)'
      /\ Attempts' = Attempts
  <2>1. PICK s \in Resolutions : s = status
    BY <1>4 DEF Resolutions
  <2> QED BY <1>1, <1>3, <2>1, BothResolved
<1>6. pc'[r] = "resolved" /\ \A s \in Requests \ {r} : pc'[s] = pc[s]
  BY <1>1, <1>2 DEF TypeOK, Goto
<1>7. TypeOK'
  BY <1>1, <1>2, <1>5 DEF TypeOK, Goto, Live, Owning
<1>8. Progress(r)'
  BY <1>1, <1>2, <1>4, <1>5, <1>6 DEF Progress, Resolved, Resolutions, Live, Owning, Gone
<1>9. Paired(r)'
  BY <1>1, <1>4, <1>5 DEF Paired, Resolved, Resolutions, KeyOf, Printed
<1>10. Listed(r) => Listed(r)'
  BY <1>1, <1>5, <1>6 DEF Listed, Gone
<1> QED BY <1>1, <1>2, <1>5, <1>6, <1>7, <1>8, <1>9, <1>10, StepOf

------------------------------------------------------------------------------
(* A step of the sweep that writes no row.                                 *)
LEMMA SweepMoves ==
  ASSUME DeliveryInvariant, SweepOK', sweep' \in SweepState, faults' \in 0..MaxFaults,
         UNCHANGED <<ask, key, lock, attempt, pc, number, provider, returned>>
  PROVE  DeliveryInvariant'
<1>1. TypeOK'
  BY DEF DeliveryInvariant, TypeOK
<1>2. IsFiniteSet(Attempts)'
  BY DEF DeliveryInvariant, Attempts
<1>3. ASSUME NEW r \in Requests PROVE Progress(r)' /\ Paired(r)'
  BY Onlooker
<1>4. \A k \in Keys : KeyOwned(k)'
  BY DEF DeliveryInvariant, KeyOwned, KeyOf
<1> QED BY <1>1, <1>2, <1>3, <1>4 DEF DeliveryInvariant

(* What is listed as stuck is there, and if it ends in time it is gone.    *)
LEMMA StuckIsListed ==
  ASSUME DeliveryInvariant, NEW r \in Stuck
  PROVE  r \in Requests /\ Listed(r)
<1>1. /\ r \in Requests /\ attempt[r] # None /\ attempt[r].status = "sending"
      /\ attempt[r].age > Stale
  BY DEF Stuck, Attempts
<1>2. TypeOK /\ Progress(r)
  BY <1>1 DEF DeliveryInvariant
<1>3. attempt[r].age \in Int /\ Stale \in Nat
  BY <1>1, <1>2, DeliveryAssumption DEF TypeOK, Attempt
<1>4. ~Resolved(r) /\ pc[r] # "created"
  BY <1>1, <1>2 DEF Resolved, Resolutions, Progress
<1>5. ASSUME r \notin Slow PROVE Gone(r)
  <2>1. pc[r] \notin Owning
    BY <1>1, <1>2, <1>3, <1>4, <1>5 DEF Progress
  <2>2. pc[r] \notin {"idle", "missed", "counted"}
    BY <1>1, <1>2 DEF Progress
  <2> QED BY <1>1, <1>2, <1>4, <2>1, <2>2 DEF Progress, Live, Claiming
<1> QED BY <1>1, <1>4, <1>5 DEF Listed

(* The steps of the sweep that only read, abort or end change nothing but  *)
(* what the sweep has listed.                                              *)
LEMMA SweepKeeps ==
  ASSUME DeliveryInvariant,
         SweepStart \/ (\E r \in Requests : SweepCheck(r)) \/ SweepRead \/ SweepEnd \/ SweepAbort
  PROVE  DeliveryInvariant'
<1>1. /\ UNCHANGED <<ask, key, lock, attempt, pc, number, provider, returned>>
      /\ faults' = faults \/ (faults < MaxFaults /\ faults' = faults + 1)
  BY DEF SweepStart, SweepCheck, SweepRead, SweepEnd, SweepAbort
<1>2. TypeOK /\ SweepOK /\ sweep \in SweepState
  BY DEF DeliveryInvariant, TypeOK
<1>3. faults' \in 0..MaxFaults
  BY <1>1, <1>2, DeliveryAssumption DEF TypeOK
<1>4. \A r \in Requests : Listed(r)' <=> Listed(r)
  BY <1>1 DEF Listed, Gone
<1>5. CASE SweepEnd \/ SweepAbort
  <2>1. sweep' = AtRest
    BY <1>5 DEF SweepEnd, SweepAbort
  <2>2. sweep' \in SweepState
    BY <2>1 DEF AtRest, SweepState, Resolutions
  <2>3. SweepOK'
    BY <2>1 DEF SweepOK, AtRest
  <2> QED BY <1>1, <1>3, <2>2, <2>3, SweepMoves
<1>6. CASE SweepStart
  <2>1. sweep' = [AtRest EXCEPT !.pc = "next", !.todo = Stuck]
    BY <1>6 DEF SweepStart
  <2>2. sweep' = [pc |-> "next", todo |-> Stuck, cur |-> None, verdict |-> "unknown",
                  inflight |-> FALSE]
    BY <2>1 DEF AtRest
  <2>3. sweep' \in SweepState
    BY <2>2 DEF SweepState, Resolutions, Stuck, Attempts
  <2>4. SweepOK'
    BY <1>4, <2>2, StuckIsListed DEF SweepOK
  <2> QED BY <1>1, <1>3, <2>3, <2>4, SweepMoves
<1>7. ASSUME NEW r \in Requests, SweepCheck(r) PROVE DeliveryInvariant'
  <2>1. PICK v \in Verdicts(r) :
          sweep' = [sweep EXCEPT !.pc = "checked", !.cur = r, !.verdict = v, !.todo = @ \ {r}]
    BY <1>7 DEF SweepCheck
  <2>2. v \in Resolutions /\ (v = "success" => provider[r] = "accepted")
    BY DEF Verdicts, Resolutions
  <2>3. sweep' = [pc |-> "checked", todo |-> sweep.todo \ {r}, cur |-> r, verdict |-> v,
                  inflight |-> sweep.inflight]
    BY <1>2, <2>1 DEF SweepState
  <2>4. sweep' \in SweepState
    BY <1>2, <2>2, <2>3 DEF SweepState
  <2>5. r \in sweep.todo
    BY <1>7 DEF SweepCheck
  <2>6. SweepOK'
    BY <1>1, <1>2, <1>4, <2>2, <2>3, <2>5 DEF SweepOK, SweepState
  <2> QED BY <1>1, <1>3, <2>4, <2>6, SweepMoves
<1>8. CASE SweepRead
  <2> DEFINE found == key[KeyOf(sweep.cur)] # None /\ key[KeyOf(sweep.cur)].body = "inflight"
  <2>1. sweep.pc = "checked" /\ sweep' = [sweep EXCEPT !.pc = "read", !.inflight = found]
    BY <1>8 DEF SweepRead
  <2>2. found \in BOOLEAN
    OBVIOUS
  <2>3. sweep.cur \in Requests /\ Listed(sweep.cur)
    BY <1>2, <2>1 DEF SweepOK
  <2>4. Paired(sweep.cur) /\ attempt[sweep.cur] # None
    BY <2>3 DEF DeliveryInvariant, Listed
  <2>5. ~found => sweep.cur \in Slow /\ key[KeyOf(sweep.cur)].body # "inflight"
    BY <2>3, <2>4 DEF Paired, Listed, Resolved, Resolutions
  <2> HIDE DEF found
  <2>6. sweep' = [pc |-> "read", todo |-> sweep.todo, cur |-> sweep.cur,
                  verdict |-> sweep.verdict, inflight |-> found]
    BY <1>2, <2>1 DEF SweepState
  <2>7. sweep' \in SweepState
    BY <1>2, <2>2, <2>6 DEF SweepState
  <2>8. SweepOK'
    BY <1>1, <1>2, <1>4, <2>1, <2>3, <2>5, <2>6 DEF SweepOK, SweepState, KeyOf
  <2> QED BY <1>1, <1>3, <2>7, <2>8, SweepMoves
<1> QED BY <1>5, <1>6, <1>7, <1>8

(* The sweep writes the rows of a request that is gone, or of a slow one,  *)
(* whose attempt it may write alone once the key is resolved.              *)
LEMMA SweepWriteKeeps ==
  ASSUME DeliveryInvariant, SweepWrite
  PROVE  DeliveryInvariant'
<1>1. /\ sweep.pc = "read"
      /\ IF sweep.inflight
           THEN ResolveBoth(sweep.cur, sweep.verdict)
           ELSE /\ attempt' = [attempt EXCEPT ![sweep.cur] = WithStatus(attempt[sweep.cur], sweep.verdict)]
                /\ UNCHANGED key
      /\ sweep' = [AtRest EXCEPT !.pc = "next", !.todo = sweep.todo]
      /\ UNCHANGED <<ask, lock, pc, number, provider, returned, faults>>
  BY DEF SweepWrite
<1>2. TypeOK /\ SweepOK /\ IsFiniteSet(Attempts)
  BY DEF DeliveryInvariant
<1>3. PICK r \in Requests : r = sweep.cur
  BY <1>1, <1>2 DEF SweepOK
<1>4. PICK verdict \in Resolutions : verdict = sweep.verdict
  BY <1>2 DEF TypeOK, SweepState
<1>5. /\ Listed(r) /\ Progress(r) /\ Paired(r) /\ attempt[r] # None /\ attempt[r] \in Attempt
      /\ verdict = "success" => provider[r] = "accepted"
      /\ r \notin Slow => r \notin sweep.todo /\ Gone(r)
      /\ ~sweep.inflight => r \in Slow /\ key[KeyOf(r)].body # "inflight"
  BY <1>1, <1>2, <1>3, <1>4 DEF SweepOK, Listed, DeliveryInvariant, TypeOK
<1>6. /\ sweep' = [pc |-> "next", todo |-> sweep.todo, cur |-> None, verdict |-> "unknown",
                   inflight |-> FALSE]
      /\ sweep' \in SweepState
  <2>1. sweep' = [pc |-> "next", todo |-> sweep.todo, cur |-> None, verdict |-> "unknown",
                  inflight |-> FALSE]
    BY <1>1 DEF AtRest
  <2> QED BY <1>2, <2>1 DEF TypeOK, SweepState, Resolutions
<1>7. /\ attempt' \in [Requests -> Attempt \cup {None}] /\ key' \in [Keys -> KeyRow \cup {None}]
      /\ attempt'[r] # None /\ attempt'[r].status = verdict /\ attempt'[r].age = attempt[r].age
      /\ \A s \in Requests \ {r} :
           /\ attempt'[s] = attempt[s]
           /\ attempt[s] # None \/ pc[s] = "counted" => key'[KeyOf(s)] = key[KeyOf(s)]
      /\ \A k \in Keys : KeyOwned(k)'
      /\ Attempts' = Attempts
      /\ key' = key \/ (key'[KeyOf(r)] # None /\ key'[KeyOf(r)].by = r /\ key'[KeyOf(r)].body = verdict)
      /\ key' = key => r \in Slow /\ key[KeyOf(r)].body # "inflight"
  <2>1. CASE sweep.inflight
    <3>1. ResolveBoth(r, verdict)
      BY <1>1, <1>3, <1>4, <2>1
    <3>2. /\ attempt' \in [Requests -> Attempt \cup {None}] /\ key' \in [Keys -> KeyRow \cup {None}]
          /\ attempt'[r] # None /\ attempt'[r].status = verdict /\ attempt'[r].age = attempt[r].age
          /\ key'[KeyOf(r)] # None /\ key'[KeyOf(r)].by = r /\ key'[KeyOf(r)].body = verdict
          /\ \A s \in Requests \ {r} :
               /\ attempt'[s] = attempt[s]
               /\ attempt[s] # None \/ pc[s] = "counted" => key'[KeyOf(s)] = key[KeyOf(s)]
          /\ \A k \in Keys : KeyOwned(k)'
          /\ Attempts' = Attempts
      BY <1>1, <1>5, <3>1, BothResolved
    <3>3. key' = key => r \in Slow /\ key[KeyOf(r)].body # "inflight"
      BY <1>5, <3>2 DEF Listed, Paired, Resolved, Resolutions
    <3> QED BY <3>2, <3>3
  <2>2. CASE ~sweep.inflight
    <3>1. attempt' = [attempt EXCEPT ![r] = WithStatus(attempt[r], verdict)] /\ key' = key
      BY <1>1, <1>3, <1>4, <2>2
    <3>2. /\ WithStatus(attempt[r], verdict) \in Attempt /\ WithStatus(attempt[r], verdict) # None
          /\ WithStatus(attempt[r], verdict).status = verdict
          /\ WithStatus(attempt[r], verdict).age = attempt[r].age
      BY <1>5, StatusWritten
    <3>3. /\ attempt' \in [Requests -> Attempt \cup {None}]
          /\ attempt'[r] = WithStatus(attempt[r], verdict)
          /\ \A s \in Requests \ {r} : attempt'[s] = attempt[s]
      BY <1>2, <3>1, <3>2 DEF TypeOK
    <3>4. Attempts' = Attempts
      BY <1>5, <3>2, <3>3 DEF Attempts
    <3>5. \A k \in Keys : KeyOwned(k)'
      <4>1. \A s \in Requests : attempt[s] # None => attempt'[s] # None
        BY <3>2, <3>3
      <4> QED BY <1>1, <1>2, <3>1, <4>1 DEF DeliveryInvariant, KeyOwned, KeyOf, TypeOK, KeyRow
    <3> QED BY <1>2, <1>5, <2>2, <3>1, <3>2, <3>3, <3>4, <3>5 DEF TypeOK
  <2> QED BY <2>1, <2>2
<1>8. TypeOK' /\ IsFiniteSet(Attempts)'
  BY <1>1, <1>2, <1>6, <1>7 DEF TypeOK
<1>9. Progress(r)'
  BY <1>1, <1>5, <1>7 DEF Progress, Listed, Gone, Resolved, Owning, KeyOf
<1>10. Paired(r)'
  BY <1>1, <1>5, <1>7 DEF Paired, Gone, Resolved, Resolutions, KeyOf, Printed
<1>11. ASSUME NEW s \in Requests \ {r} PROVE Progress(s)' /\ Paired(s)' /\ (Listed(s) => Listed(s)')
  BY <1>1, <1>7, Onlooker
<1>12. SweepOK'
  <2>1. \A s \in sweep.todo : s \in Requests /\ Listed(s)
    BY <1>2 DEF SweepOK, TypeOK, SweepState
  <2>2. r \in sweep.todo => Listed(r)'
    BY <1>1, <1>5, <1>7 DEF Listed
  <2> QED BY <1>6, <1>11, <2>1, <2>2 DEF SweepOK
<1> QED BY <1>7, <1>8, <1>9, <1>10, <1>11, <1>12 DEF DeliveryInvariant

------------------------------------------------------------------------------
(* Every request in flight dies with the process, and the sweep with them. *)
LEMMA CrashKeeps ==
  ASSUME DeliveryInvariant, Crash
  PROVE  DeliveryInvariant'
<1>1. /\ pc' = [r \in Requests |-> IF pc[r] \in Live THEN "crashed" ELSE pc[r]]
      /\ lock' = [k \in Keys |-> None] /\ sweep' = AtRest
      /\ faults < MaxFaults /\ faults' = faults + 1
      /\ UNCHANGED <<ask, key, attempt, number, provider, returned>>
  BY DEF Crash
<1>2. TypeOK /\ IsFiniteSet(Attempts)
  BY DEF DeliveryInvariant
<1>3. sweep' \in SweepState /\ SweepOK'
  BY <1>1 DEF AtRest, SweepState, SweepOK, Resolutions
<1>4. TypeOK'
  BY <1>1, <1>2, <1>3, DeliveryAssumption DEF TypeOK, Settled
<1>5. ASSUME NEW r \in Requests PROVE Progress(r)' /\ Paired(r)'
  <2>1. Progress(r) /\ Paired(r) /\ pc'[r] = IF pc[r] \in Live THEN "crashed" ELSE pc[r]
    BY <1>1 DEF DeliveryInvariant
  <2>2. Gone(r) => Gone(r)'
    BY <2>1 DEF Gone, Live, Claiming, Owning
  <2>3. Progress(r)'
    BY <1>1, <2>1, <2>2 DEF Progress, Gone, Resolved, KeyOf, Live, Claiming, Owning
  <2>4. Paired(r)'
    BY <1>1, <2>1, <2>2 DEF Paired, Resolved, KeyOf, Printed
  <2> QED BY <2>3, <2>4
<1>6. IsFiniteSet(Attempts)' /\ \A k \in Keys : KeyOwned(k)'
  BY <1>1 DEF DeliveryInvariant, Attempts, KeyOwned, KeyOf
<1> QED BY <1>3, <1>4, <1>5, <1>6 DEF DeliveryInvariant

(* Time passes; a request that ends in time is over before it is stale.    *)
LEMMA TickKeeps ==
  ASSUME DeliveryInvariant, Tick
  PROVE  DeliveryInvariant'
<1>1. /\ \A r \in Attempts \ Slow : pc[r] \in Owning \ {"resolved"} => attempt[r].age < Stale
      /\ attempt' = [r \in Requests |-> IF attempt[r] = None THEN None ELSE Older(attempt[r])]
      /\ UNCHANGED <<ask, key, lock, pc, number, provider, returned, sweep, faults>>
  BY DEF Tick
<1>2. TypeOK /\ IsFiniteSet(Attempts)
  BY DEF DeliveryInvariant
<1>3. ASSUME NEW a \in Attempt
      PROVE  /\ Older(a) \in Attempt /\ Older(a) # None /\ Older(a).status = a.status
             /\ a.age \in Int /\ Older(a).age <= a.age + 1
  <2> DEFINE age == IF a.age <= Stale THEN a.age + 1 ELSE a.age
  <2>1. age \in 0..Stale + 1 /\ a.age \in Int /\ age <= a.age + 1
    BY DeliveryAssumption DEF Attempt
  <2>2. PICK old : old = Older(a)
    OBVIOUS
  <2>3. old = [number |-> a.number, status |-> a.status, age |-> age]
    BY <2>2 DEF Older
  <2> HIDE DEF age
  <2>4. old \in Attempt /\ old.status = a.status /\ old.age = age
    BY <2>1, <2>3 DEF Attempt
  <2> QED BY <2>1, <2>2, <2>4, NoneIsNoRow
<1>4. ASSUME NEW r \in Requests
      PROVE  /\ attempt[r] = None => attempt'[r] = None
             /\ attempt[r] # None => /\ attempt'[r] \in Attempt /\ attempt'[r] # None
                                     /\ attempt'[r].status = attempt[r].status
                                     /\ attempt[r].age \in Int
                                     /\ attempt'[r].age <= attempt[r].age + 1
  <2>1. attempt[r] # None => attempt[r] \in Attempt
    BY <1>2 DEF TypeOK
  <2> QED BY <1>1, <1>3, <2>1
<1>5. TypeOK'
  <2>1. attempt' \in [Requests -> Attempt \cup {None}]
    BY <1>1, <1>4
  <2> QED BY <1>1, <1>2, <2>1 DEF TypeOK
<1>6. IsFiniteSet(Attempts)'
  <2>1. Attempts' = Attempts
    BY <1>4 DEF Attempts
  <2> QED BY <1>2, <2>1
<1>7. ASSUME NEW r \in Requests PROVE Progress(r)' /\ Paired(r)' /\ (Listed(r) => Listed(r)')
  <2>1. Progress(r) /\ Paired(r)
    BY DEF DeliveryInvariant
  <2>2. r \notin Slow /\ pc[r] \in Owning \ {"resolved"} => attempt'[r].age <= Stale
    <3>1. SUFFICES ASSUME r \notin Slow, pc[r] \in Owning \ {"resolved"}
                   PROVE  attempt'[r].age <= Stale
      OBVIOUS
    <3>2. attempt[r] # None /\ r \in Attempts \ Slow
      BY <2>1, <3>1 DEF Progress, Attempts
    <3>3. attempt[r].age < Stale /\ Stale \in Nat /\ attempt'[r].age \in Int
      BY <1>1, <1>4, <3>1, <3>2, DeliveryAssumption DEF Attempt
    <3> QED BY <1>4, <3>2, <3>3
  <2>3. Progress(r)'
    BY <1>1, <1>4, <2>1, <2>2 DEF Progress, Gone, Resolved, KeyOf, Owning
  <2>4. Paired(r)'
    BY <1>1, <1>4, <2>1 DEF Paired, Gone, Resolved, KeyOf, Printed
  <2>5. Listed(r) => Listed(r)'
    BY <1>1, <1>4 DEF Listed, Gone
  <2> QED BY <2>3, <2>4, <2>5
<1>8. \A k \in Keys : KeyOwned(k)'
  BY <1>1, <1>2, <1>4 DEF DeliveryInvariant, KeyOwned, KeyOf, TypeOK, KeyRow
<1>9. SweepOK'
  BY <1>1, <1>7, SweepWaits
<1> QED BY <1>5, <1>6, <1>7, <1>8, <1>9 DEF DeliveryInvariant

(* Every step keeps the invariant.                                         *)
LEMMA InvariantStep ==
  ASSUME DeliveryInvariant, [Next]_vars
  PROVE  DeliveryInvariant'
<1>1. ASSUME NEW r \in Requests, Lookup(r) \/ Deliver(r) \/ Fail(r) PROVE DeliveryInvariant'
  BY <1>1, LookupKeeps, ClaimKeeps, EndingsKeep, CreateKeeps, MarkSendingKeeps, SendKeeps,
     ResolveKeeps DEF Deliver
<1>2. CASE Sweep \/ SweepAbort
  BY <1>2, SweepKeeps, SweepWriteKeeps DEF Sweep
<1>3. CASE UNCHANGED vars
  <2>1. /\ UNCHANGED <<ask, key, lock, attempt, pc, number, provider, returned, sweep, faults>>
    BY <1>3 DEF vars
  <2>2. SweepOK'
    BY <2>1 DEF DeliveryInvariant, SweepOK, Listed, Gone, KeyOf
  <2> QED BY <2>1, <2>2, SweepMoves DEF DeliveryInvariant, TypeOK
<1> QED BY <1>1, <1>2, <1>3, CrashKeeps, TickKeeps DEF Next, Quiescent

(* The invariant holds before anything was requested.                      *)
LEMMA InvariantInit ==
  ASSUME Init
  PROVE  DeliveryInvariant
<1> USE DEF Init
<1>1. Attempts = {}
  BY DEF Attempts
<1>2. sweep \in SweepState /\ SweepOK
  BY DEF AtRest, SweepState, SweepOK, Resolutions
<1>3. TypeOK
  BY <1>2, DeliveryAssumption DEF TypeOK
<1>4. \A r \in Requests : Progress(r) /\ Paired(r)
  BY DEF Progress, Paired, Owning, Resolved
<1>5. \A k \in Keys : KeyOwned(k)
  BY DEF KeyOwned
<1> QED BY <1>1, <1>2, <1>3, <1>4, <1>5, FS_EmptySet DEF DeliveryInvariant

------------------------------------------------------------------------------
(* Whatever is retried, dies or is swept, an attempt and the key of its    *)
(* request say the same of it.                                             *)
THEOREM InvariantHolds == Spec => []DeliveryInvariant
<1>1. Init => DeliveryInvariant
  BY InvariantInit
<1>2. DeliveryInvariant /\ [Next]_vars => DeliveryInvariant'
  BY InvariantStep
<1> QED BY <1>1, <1>2, PTL DEF Spec

(* Every variable keeps its type; an attempt is pending, sending or        *)
(* resolved and its age is counted up to the staleness.                    *)
THEOREM TypeInvariant == Spec => []TypeOK
<1>1. DeliveryInvariant => TypeOK
  BY DEF DeliveryInvariant
<1> QED BY <1>1, InvariantHolds, PTL

(* Whatever is retried, crashes or is swept, the provider is called at     *)
(* most once for a key: the customer is not messaged twice for one click   *)
(* (requestReceiptDelivery).                                               *)
THEOREM NoKeyIsSentTwice == Spec => []OneSendPerKey
<1>1. DeliveryInvariant => OneSendPerKey
  BY DEF DeliveryInvariant, Progress, Paired, OneSendPerKey
<1> QED BY <1>1, InvariantHolds, PTL

(* Manual review is asked for only when the request that sent is gone, and *)
(* what a retry is answered is what the attempt's row says                 *)
(* (recoverStuckDeliveryAttempts, of requests that are not slow).          *)
THEOREM ReviewMeansGone == Spec => []UnknownMeansGone
<1>1. DeliveryInvariant => UnknownMeansGone
  BY DEF DeliveryInvariant, Paired, UnknownMeansGone, Attempts, Gone
<1> QED BY <1>1, InvariantHolds, PTL

(* A success on record, on the attempt or in what a retry is answered,     *)
(* stands for a message the provider accepted, and the two rows are        *)
(* resolved together or not at all (receipt.service.ts:579-588).           *)
THEOREM RecordsAreTrue == Spec => [](SuccessEarned /\ RowsPaired)
<1>1. ASSUME DeliveryInvariant PROVE SuccessEarned
  <2>1. \A r \in Attempts : attempt[r].status = "success" /\ ~Printed(r) => provider[r] = "accepted"
    BY <1>1 DEF DeliveryInvariant, Paired, Attempts
  <2>2. ASSUME NEW k \in Keys \ PrintKeys, key[k] # None, key[k].body = "success"
        PROVE  provider[key[k].by] = "accepted"
    <3>1. key[k] \in KeyRow
      BY <1>1, <2>2 DEF DeliveryInvariant, TypeOK
    <3>2. PICK r \in Requests : r = key[k].by
      BY <3>1 DEF KeyRow
    <3>3. attempt[r] # None /\ KeyOf(r) = k
      BY <1>1, <2>2, <3>2 DEF DeliveryInvariant, KeyOwned
    <3> QED BY <1>1, <2>2, <3>2, <3>3 DEF DeliveryInvariant, Paired, Printed
  <2> QED BY <2>1, <2>2 DEF SuccessEarned
<1>2. DeliveryInvariant => RowsPaired
  BY DEF DeliveryInvariant, Paired, RowsPaired, Attempts
<1> QED BY <1>1, <1>2, InvariantHolds, PTL

(* What a request resolved in time is left alone afterwards: no attempt    *)
(* and no key of it is resolved twice, whenever the sweep looked           *)
(* (recoverStuckDeliveryAttempts).                                         *)
THEOREM NothingIsResolvedTwice == Spec => ResolvedOnce
<1>1. DeliveryInvariant /\ [Next]_vars =>
        [\A r \in Requests \ Slow : Resolved(r) =>
           /\ attempt'[r].status = attempt[r].status
           /\ key'[KeyOf(r)] = key[KeyOf(r)]]_vars
  <2> SUFFICES ASSUME DeliveryInvariant, [Next]_vars, NEW r \in Requests \ Slow, Resolved(r)
               PROVE  attempt'[r].status = attempt[r].status /\ key'[KeyOf(r)] = key[KeyOf(r)]
    OBVIOUS
  <2>1. /\ TypeOK /\ Progress(r) /\ Paired(r) /\ KeyOf(r) \in Keys
        /\ attempt[r] # None /\ attempt[r].status \notin {"pending", "sending"}
        /\ key[KeyOf(r)] # None
    BY DEF DeliveryInvariant, TypeOK, KeyOf, Paired, Resolved, Resolutions
  <2>2. ASSUME NEW s \in Requests, attempt[s] # None, NEW v \in Resolutions, ResolveBoth(s, v), s # r
        PROVE  attempt'[r] = attempt[r] /\ key'[KeyOf(r)] = key[KeyOf(r)]
    BY <2>1, <2>2, BothResolved
  <2>3. ASSUME NEW s \in Requests, Create(s)
        PROVE  attempt'[r] = attempt[r] /\ key'[KeyOf(r)] = key[KeyOf(r)]
    <3>1. s # r /\ KeyOf(s) # KeyOf(r)
      BY <2>1, <2>3 DEF Create, Progress, DeliveryInvariant
    <3> QED BY <2>1, <2>3, <3>1 DEF Create, TypeOK
  <2>4. ASSUME NEW s \in Requests, MarkSending(s)
        PROVE  attempt'[r] = attempt[r] /\ key'[KeyOf(r)] = key[KeyOf(r)]
    <3>1. s # r
      BY <2>1, <2>4 DEF MarkSending, Progress
    <3> QED BY <2>1, <2>4, <3>1 DEF MarkSending, TypeOK
  <2>5. ASSUME NEW s \in Requests, Resolve(s)
        PROVE  attempt'[r] = attempt[r] /\ key'[KeyOf(r)] = key[KeyOf(r)]
    <3>1. pc[s] \in {"sent", "created"} /\ ResolveBoth(s, FinalStatus(s))
      BY <2>5 DEF Resolve
    <3>2. s # r
      BY <2>1, <3>1 DEF Progress, Owning
    <3>3. PICK v \in Resolutions : v = FinalStatus(s)
      BY DEF FinalStatus, Resolutions
    <3>4. attempt[s] # None
      BY <3>1 DEF DeliveryInvariant, Progress, Owning
    <3> QED BY <2>2, <3>1, <3>2, <3>3, <3>4
  <2>6. ASSUME SweepWrite PROVE attempt'[r] = attempt[r] /\ key'[KeyOf(r)] = key[KeyOf(r)]
    <3>1. /\ sweep.cur \in Requests /\ Listed(sweep.cur) /\ sweep.verdict \in Resolutions
      BY <2>1, <2>6 DEF SweepWrite, DeliveryInvariant, SweepOK, TypeOK, SweepState
    <3>2. sweep.cur # r
      BY <2>1, <3>1 DEF Listed
    <3>3. CASE sweep.inflight
      BY <2>2, <2>6, <3>1, <3>2, <3>3 DEF SweepWrite, Listed
    <3>4. CASE ~sweep.inflight
      BY <2>1, <2>6, <3>2, <3>4 DEF SweepWrite, TypeOK
    <3> QED BY <3>3, <3>4
  <2>7. ASSUME Tick PROVE attempt'[r].status = attempt[r].status /\ key'[KeyOf(r)] = key[KeyOf(r)]
    BY <2>1, <2>7 DEF Tick, Older
  <2>8. ASSUME attempt' = attempt, key' = key
        PROVE  attempt'[r].status = attempt[r].status /\ key'[KeyOf(r)] = key[KeyOf(r)]
    BY <2>8
  <2> QED BY <2>3, <2>4, <2>5, <2>6, <2>7, <2>8
          DEF Next, Lookup, Deliver, ClaimAndCount, ClaimRefused, CreateCollides, Send, Respond,
              Fail, Sweep, SweepStart, SweepCheck, SweepRead, SweepEnd, SweepAbort, Crash,
              Quiescent, vars
<1> QED BY <1>1, InvariantHolds, PTL DEF Spec, ResolvedOnce

------------------------------------------------------------------------------

(***************************************************************************)
(* Payroll: the tables.                                                    *)
(***************************************************************************)
StructureRow == [pay : Structures, from : 0..MaxDay, to : (0..MaxDay) \cup {None}]

SaleRow == [by : Employees, version : Nat, refunded : Nat, refund_by : Employees \cup {None}]

(* The structures of one employee: each ends before the next one starts,   *)
(* and only the last one is open.                                          *)
Successive(rows) ==
  /\ rows \in Seq(StructureRow)
  /\ \A i, j \in 1..Len(rows) : i < j => rows[i].to # None /\ rows[i].to <= rows[j].from
  /\ Len(rows) # 0 => rows[Len(rows)].to = None

ApprovedDay(days, p) ==
  \E d \in Days : PeriodOf(d) = p /\ days[d] # None /\ days[d].status = "approved"

(* What a payroll record, or the calculation of one, owes to the hours.    *)
Earned(r, days, p) == r.model = "HOURLY" /\ r.amount > 0 => ApprovedDay(days, p)

TablesOk(tl, att, rec, sl) ==
  /\ tl \in [Employees -> Seq(StructureRow)] /\ \A e \in Employees : Successive(tl[e])
  /\ att \in [Employees -> [Days -> AttendanceRow \cup {None}]]
  /\ rec \in [Employees -> [Periods -> PayrollRecord \cup {None}]]
  /\ \A e \in Employees, p \in Periods : rec[e][p] # None => Earned(rec[e][p], att[e], p)
  /\ sl \in SaleRow

(* What a request still holds when it goes on.                             *)
Carried(r, tl, att, rec) ==
  /\ r = [pc |-> r.pc, op |-> r.op, who |-> r.who, at |-> r.at, arg |-> r.arg,
          read |-> r.read, todo |-> r.todo]
  /\ r # Idle =>
       /\ r.pc # "idle"
       /\ r.op = "compensate" => r.who \in Employees /\ r.at \in 0..MaxDay /\ r.arg \in Structures
       /\ r.op \in {"attend", "self"} => r.who \in Employees /\ r.at \in Days /\ r.arg \in Nat
       /\ r.op = "correct" => r.who \in Employees /\ r.at \in Days /\ r.arg \in Int
                              /\ att[r.who][r.at] # None
       /\ r.op \in {"pay", "reverse", "adjust"} =>
            r.who \in Employees /\ r.at \in Periods /\ rec[r.who][r.at] # None
       /\ r.op \in {"reverse", "adjust"} => r.arg \in Int
       /\ r.op = "attribute" =>
            /\ r.who \in Employees /\ r.arg \in Employees
            /\ r.pc = "taken" /\ r.read # <<0, 0>> =>
                 /\ rec[r.arg][PeriodOf(1)] # None /\ rec[r.who][PeriodOf(1)] # None
                 /\ r.read[1] \in Int /\ r.read = <<r.read[1], -r.read[1]>>
       /\ r.op = "generate" =>
            /\ r.at \in Periods /\ r.todo \subseteq Employees
            /\ r.pc \in {"found", "calculated"} => r.who \in Employees
            /\ r.pc = "found" => r.arg \in 1..Len(tl[r.who])
            /\ r.pc = "calculated" =>
                 /\ r.read = [amount |-> r.read.amount, model |-> r.read.model, percent |-> r.read.percent]
                 /\ r.read.amount \in Int /\ r.read.model \in CompensationModels /\ r.read.percent \in Nat
                 /\ Earned(r.read, att[r.who], r.at)
       /\ r.op = "bulk" /\ r.pc = "listed" =>
            \A x \in r.todo : x.who \in Employees /\ x.at \in Periods /\ rec[x.who][x.at] # None

PayrollInvariant ==
  /\ TablesOk(timeline, attendance, record, sale)
  /\ today \in Days
  /\ DOMAIN req = Callers /\ req = [c \in Callers |-> req[c]]
  /\ \A c \in Callers : Carried(req[c], timeline, attendance, record)

(* The lock: one reversal at a time holds a record, and has read the sum.  *)
HoldsRecord(r) == r.pc = "locked" /\ r.op = "reverse"

LockedSums(rq, rec) ==
  \A c \in Callers : HoldsRecord(rq[c]) =>
    /\ rq[c].read = Effective(rec[rq[c].who][rq[c].at])
    /\ \A d \in Callers :
         HoldsRecord(rq[d]) /\ rq[d].who = rq[c].who /\ rq[d].at = rq[c].at => d = c

LockedSum == LockedSums(req, record)

(* What steps never take away.                                             *)
Kept(tl, att, rec, tl2, att2, rec2) ==
  /\ \A e \in Employees : 1..Len(tl[e]) \subseteq 1..Len(tl2[e])
  /\ \A e \in Employees, d \in Days : att[e][d] # None =>
       /\ att2[e][d] # None
       /\ att[e][d].status = "approved" => att2[e][d].status = "approved"
  /\ \A e \in Employees, p \in Periods : rec[e][p] # None => rec2[e][p] # None

(* The calendar of the model.                                              *)
LEMMA CalendarFacts ==
  /\ 1 \in Days /\ PeriodOf(1) \in Periods /\ IsFiniteSet(Days) /\ Days \subseteq Nat
  /\ \A d \in Days : PeriodOf(d) \in Periods
<1>1. MaxDay \in Nat \ {0}
  BY PayrollAssumption
<1>2. 1 \in Days /\ Days \subseteq Nat
  BY <1>1 DEF Days
<1>3. IsFiniteSet(Days)
  BY <1>1, FS_Interval DEF Days
<1> QED
  BY <1>2, <1>3 DEF Periods

(* An approved day stays one.                                              *)
LEMMA EarnedStays ==
  ASSUME NEW r, NEW p, NEW days, NEW days2, Earned(r, days, p),
         \A d \in Days : days[d] # None =>
            days2[d] # None /\ (days[d].status = "approved" => days2[d].status = "approved")
  PROVE  Earned(r, days2, p)
BY DEF Earned, ApprovedDay

(* What a request holds survives the steps of others.                      *)
LEMMA CarriedStays ==
  ASSUME NEW r, NEW tl, NEW att, NEW rec, NEW tl2, NEW att2, NEW rec2,
         Carried(r, tl, att, rec), Kept(tl, att, rec, tl2, att2, rec2)
  PROVE  Carried(r, tl2, att2, rec2)
<1> SUFFICES ASSUME r # Idle PROVE Carried(r, tl2, att2, rec2)
  BY DEF Carried
<1>1. r.op = "generate" /\ r.pc = "calculated" => Earned(r.read, att2[r.who], r.at)
  <2> SUFFICES ASSUME r.op = "generate", r.pc = "calculated" PROVE Earned(r.read, att2[r.who], r.at)
    OBVIOUS
  <2>1. r.who \in Employees /\ Earned(r.read, att[r.who], r.at)
    BY DEF Carried
  <2>2. \A d \in Days : att[r.who][d] # None =>
          /\ att2[r.who][d] # None
          /\ att[r.who][d].status = "approved" => att2[r.who][d].status = "approved"
    BY <2>1 DEF Kept
  <2> QED
    BY <2>1, <2>2, EarnedStays
<1>2. r.op = "generate" /\ r.pc = "found" => r.arg \in 1..Len(tl2[r.who])
  BY DEF Carried, Kept
<1>3. PeriodOf(1) \in Periods
  BY CalendarFacts
<1>4. r.op = "attribute" /\ r.pc = "taken" /\ r.read # <<0, 0>> =>
        rec2[r.arg][PeriodOf(1)] # None /\ rec2[r.who][PeriodOf(1)] # None
  <2> HIDE DEF PeriodOf
  <2> QED BY <1>3 DEF Carried, Kept
<1>5. r.op = "bulk" /\ r.pc = "listed" =>
        \A x \in r.todo : x.who \in Employees /\ x.at \in Periods /\ rec2[x.who][x.at] # None
  BY DEF Carried, Kept
<1>6. r.op \in {"pay", "reverse", "adjust"} => rec2[r.who][r.at] # None
  BY DEF Carried, Kept
<1>7. r.op = "correct" => att2[r.who][r.at] # None
  BY DEF Carried, Kept
<1> QED
  BY <1>1, <1>2, <1>4, <1>5, <1>6, <1>7 DEF Carried

(* A step of one request: the tables it leaves, and what it then holds.    *)
LEMMA PayrollStep ==
  ASSUME PayrollInvariant, NEW c \in Callers, NEW r,
         req' = [req EXCEPT ![c] = r],
         Carried(r, timeline', attendance', record'),
         TablesOk(timeline', attendance', record', sale'), today' = today,
         Kept(timeline, attendance, record, timeline', attendance', record')
  PROVE  PayrollInvariant'
<1>1. /\ DOMAIN req' = Callers /\ req' = [d \in Callers |-> req'[d]]
      /\ req'[c] = r /\ \A d \in Callers \ {c} : req'[d] = req[d]
  BY DEF PayrollInvariant
<1>2. ASSUME NEW d \in Callers PROVE Carried(req'[d], timeline', attendance', record')
  <2>1. CASE d = c
    BY <2>1, <1>1
  <2>2. CASE d # c
    BY <2>2, <1>1, CarriedStays DEF PayrollInvariant
  <2> QED
    BY <2>1, <2>2
<1> QED
  BY <1>1, <1>2 DEF PayrollInvariant

(* ... and when it leaves the tables as they are.                          *)
LEMMA PayrollQuietStep ==
  ASSUME PayrollInvariant, NEW c \in Callers, NEW r,
         req' = [req EXCEPT ![c] = r], Carried(r, timeline, attendance, record),
         UNCHANGED <<timeline, attendance, record, sale, today>>
  PROVE  PayrollInvariant'
<1>1. /\ timeline' = timeline /\ attendance' = attendance /\ record' = record
      /\ sale' = sale /\ today' = today
  OBVIOUS
<1>2. Kept(timeline, attendance, record, timeline', attendance', record')
  BY <1>1 DEF Kept
<1>3. TablesOk(timeline', attendance', record', sale')
  BY <1>1 DEF PayrollInvariant
<1>4. Carried(r, timeline', attendance', record')
  BY <1>1
<1> QED
  BY <1>1, <1>2, <1>3, <1>4, PayrollStep

(* The fields a step writes, as one write of the whole request.            *)
Request(stage, op, who, at, arg, read, todo) ==
  [pc |-> stage, op |-> op, who |-> who, at |-> at, arg |-> arg, read |-> read, todo |-> todo]

Whole(r) == r = Request(r.pc, r.op, r.who, r.at, r.arg, r.read, r.todo)

(* Writing the step and the value read of a request, component by          *)
(* component, gives the request with both replaced.                        *)
LEMMA ReadWritten ==
  ASSUME NEW c \in DOMAIN req, req = [d \in DOMAIN req |-> req[d]], Whole(req[c]),
         NEW a, NEW b
  PROVE  [req EXCEPT ![c].pc = a, ![c].read = b] =
           [req EXCEPT ![c] = Request(a, req[c].op, req[c].who, req[c].at, req[c].arg, b, req[c].todo)]
<1> USE DEF Request, Whole
<1> DEFINE r == req[c]
           r0 == Request(a, r.op, r.who, r.at, r.arg, r.read, r.todo)
           r1 == Request(a, r.op, r.who, r.at, r.arg, b, r.todo)
<1>1. [req[c] EXCEPT !.pc = a] = r0
  OBVIOUS
<1>2. [req EXCEPT ![c].pc = a] = [req EXCEPT ![c] = r0]
  BY <1>1
<1>3. [r0 EXCEPT !.read = b] = r1
  OBVIOUS
<1>4. [[req EXCEPT ![c] = r0] EXCEPT ![c].read = b] = [req EXCEPT ![c] = r1]
  BY <1>3
<1> QED BY <1>2, <1>4

(* The same of the four components a generation resets for its next        *)
(* employee.                                                               *)
LEMMA AnotherFields ==
  ASSUME NEW c \in DOMAIN req, req = [d \in DOMAIN req |-> req[d]], Whole(req[c])
  PROVE  [req EXCEPT ![c].pc = "read", ![c].who = None, ![c].arg = None, ![c].read = None] =
           [req EXCEPT ![c] = Request("read", req[c].op, None, req[c].at, None, None, req[c].todo)]
<1> USE DEF Request, Whole
<1> DEFINE r == req[c]
           r0 == Request("read", r.op, r.who, r.at, r.arg, r.read, r.todo)
           r1 == Request("read", r.op, None, r.at, r.arg, r.read, r.todo)
           r2 == Request("read", r.op, None, r.at, None, r.read, r.todo)
           r3 == Request("read", r.op, None, r.at, None, None, r.todo)
<1>1. [req[c] EXCEPT !.pc = "read"] = r0
  OBVIOUS
<1>2. [req EXCEPT ![c].pc = "read"] = [req EXCEPT ![c] = r0]
  BY <1>1
<1>3. [r0 EXCEPT !.who = None] = r1 /\ [r1 EXCEPT !.arg = None] = r2 /\ [r2 EXCEPT !.read = None] = r3
  OBVIOUS
<1>4. [[req EXCEPT ![c] = r0] EXCEPT ![c].who = None] = [req EXCEPT ![c] = r1]
  BY <1>3
<1>5. [[req EXCEPT ![c] = r1] EXCEPT ![c].arg = None] = [req EXCEPT ![c] = r2]
  BY <1>3
<1>6. [[req EXCEPT ![c] = r2] EXCEPT ![c].read = None] = [req EXCEPT ![c] = r3]
  BY <1>3
<1> HIDE DEF r0, r1, r2, r3
<1>7. [req EXCEPT ![c].pc = "read", ![c].who = None] = [req EXCEPT ![c] = r1]
  BY <1>2, <1>4
<1>8. [req EXCEPT ![c].pc = "read", ![c].who = None, ![c].arg = None] = [req EXCEPT ![c] = r2]
  BY <1>7, <1>5
<1>9. [req EXCEPT ![c].pc = "read", ![c].who = None, ![c].arg = None, ![c].read = None] = [req EXCEPT ![c] = r3]
  BY <1>8, <1>6
<1> QED BY <1>9 DEF r3

(* Nothing is held by a request that has ended.                            *)
LEMMA IdleCarries ==
  ASSUME NEW tl, NEW att, NEW rec
  PROVE  Carried(Idle, tl, att, rec)
BY DEF Carried, Idle

(* A request that ends with a change of the tables.                        *)
LEMMA PayrollLastStep ==
  ASSUME PayrollInvariant, NEW c \in Callers, Finished(c),
         TablesOk(timeline', attendance', record', sale'),
         Kept(timeline, attendance, record, timeline', attendance', record')
  PROVE  PayrollInvariant'
<1>1. req' = [req EXCEPT ![c] = Idle] /\ today' = today
  BY DEF Finished, Stay
<1> QED
  BY <1>1, IdleCarries, PayrollStep

(* The invariant holds when the first request is composed: one structure   *)
(* for each employee at most, no attendance, no record.                    *)
LEMMA PayrollInvariantInit == PayrollInit => PayrollInvariant
<1> SUFFICES ASSUME PayrollInit PROVE PayrollInvariant
  OBVIOUS
<1>1. workload.start \subseteq Structures \cup {None}
  BY PayrollAssumption DEF PayrollInit
<1>2. ASSUME NEW s \in Structures
      PROVE  Successive(<<[pay |-> s, from |-> 0, to |-> None]>>)
  <2> DEFINE row == [pay |-> s, from |-> 0, to |-> None]
  <2>1. row \in StructureRow /\ row.to = None
    BY PayrollAssumption DEF StructureRow
  <2> HIDE DEF row
  <2>2. <<row>> \in Seq(StructureRow) /\ Len(<<row>>) = 1 /\ <<row>>[1] = row
    BY <2>1
  <2> QED
    BY <2>1, <2>2 DEF Successive, row
<1>3. Successive(<<>>)
  BY DEF Successive
<1>4. timeline \in [Employees -> Seq(StructureRow)] /\ \A e \in Employees : Successive(timeline[e])
  <2>1. ASSUME NEW e \in Employees PROVE Successive(timeline[e])
    <3>1. PICK s \in workload.start :
            timeline[e] = IF s = None THEN <<>> ELSE <<[pay |-> s, from |-> 0, to |-> None]>>
      BY DEF PayrollInit
    <3> QED
      BY <3>1, <1>1, <1>2, <1>3
  <2> QED
    BY <2>1 DEF Successive, PayrollInit
<1>5. attendance \in [Employees -> [Days -> AttendanceRow \cup {None}]]
  BY DEF PayrollInit
<1>6. /\ record \in [Employees -> [Periods -> PayrollRecord \cup {None}]]
      /\ \A e \in Employees, p \in Periods : record[e][p] = None
  BY DEF PayrollInit
<1>7. sale \in SaleRow
  BY DEF PayrollInit, SaleRow
<1>8. DOMAIN req = Callers /\ req = [c \in Callers |-> req[c]] /\ \A c \in Callers : req[c] = Idle
  BY DEF PayrollInit
<1>9. today \in Days
  BY CalendarFacts DEF PayrollInit
<1> QED
  BY <1>4, <1>5, <1>6, <1>7, <1>8, <1>9, IdleCarries DEF PayrollInvariant, TablesOk

(* A new request holds what it was asked with.                             *)
LEMMA PayrollAskStep ==
  ASSUME PayrollInvariant, NEW c \in Callers, NEW r, Ask(c, r),
         Carried(r, timeline, attendance, record)
  PROVE  PayrollInvariant'
BY PayrollQuietStep DEF Ask

(* A request that is composed carries values of the types its operation    *)
(* works with.                                                             *)
LEMMA ComposeStep ==
  ASSUME PayrollInvariant, NEW c \in Callers, Compose(c)
  PROVE  PayrollInvariant'
<1> USE DEF Asked, Idle
<1>0. /\ today \in Days /\ 1..today \subseteq Days /\ sale \in SaleRow
      /\ Hours \subseteq Nat /\ Deltas \subseteq Int
  BY PayrollAssumption DEF PayrollInvariant, TablesOk, Days
<1>1. ASSUME NEW e \in Employees, NEW s \in Structures, NEW d \in 0..MaxDay,
             Ask(c, Asked("compensate", e, d, s))
      PROVE  PayrollInvariant'
  <2>1. Carried(Asked("compensate", e, d, s), timeline, attendance, record)
    BY DEF Carried
  <2> QED BY <1>1, <2>1, PayrollAskStep
<1>2. ASSUME NEW e \in Employees, NEW d \in 1..today, NEW h \in Hours, NEW op \in {"attend", "self"},
             Ask(c, Asked(op, e, d, h))
      PROVE  PayrollInvariant'
  <2>1. d \in Days /\ h \in Nat
    BY <1>0
  <2>2. Carried(Asked(op, e, d, h), timeline, attendance, record)
    BY <2>1 DEF Carried
  <2> QED BY <1>2, <2>2, PayrollAskStep
<1>3. ASSUME NEW e \in Employees, NEW d \in Days, NEW n \in Deltas, Approved(e, d),
             Ask(c, Asked("correct", e, d, n))
      PROVE  PayrollInvariant'
  <2>1. n \in Int
    BY <1>0
  <2>2. Carried(Asked("correct", e, d, n), timeline, attendance, record)
    BY <1>3, <2>1 DEF Carried, Approved
  <2> QED BY <1>3, <2>2, PayrollAskStep
<1>4. ASSUME NEW e \in Employees, NEW p \in Periods, NEW n, NEW op \in {"pay", "reverse", "adjust"},
             record[e][p] # None, op # "pay" => n \in Int,
             Ask(c, Asked(op, e, p, n))
      PROVE  PayrollInvariant'
  <2>2. Carried(Asked(op, e, p, n), timeline, attendance, record)
    BY <1>4 DEF Carried
  <2> QED BY <1>4, <2>2, PayrollAskStep
<1>5. ASSUME NEW e \in Employees, Ask(c, Asked("attribute", e, sale.version, sale.by))
      PROVE  PayrollInvariant'
  <2>1. Carried(Asked("attribute", e, sale.version, sale.by), timeline, attendance, record)
    BY <1>0 DEF Carried, SaleRow
  <2> QED BY <1>5, <2>1, PayrollAskStep
<1>6. ASSUME NEW p \in Periods, Ask(c, [Asked("generate", None, p, None) EXCEPT !.todo = Employees])
      PROVE  PayrollInvariant'
  <2> DEFINE r == [pc |-> "read", op |-> "generate", who |-> None, at |-> p, arg |-> None,
                   read |-> None, todo |-> Employees]
  <2>1. Ask(c, r)
    BY <1>6
  <2>2. Carried(r, timeline, attendance, record)
    BY DEF Carried
  <2> QED BY <2>1, <2>2, PayrollAskStep
<1>7. ASSUME Ask(c, Asked("bulk", None, 0, None)) PROVE PayrollInvariant'
  <2>1. Carried(Asked("bulk", None, 0, None), timeline, attendance, record)
    BY DEF Carried
  <2> QED BY <1>7, <2>1, PayrollAskStep
<1>8. ASSUME NEW e \in Employees, NEW p \in Periods, NEW n \in Deltas, record[e][p] # None,
             \/ record[e][p].status = "pending" /\ Ask(c, Asked("pay", e, p, record[e][p].version))
             \/ record[e][p].status = "paid" /\ Ask(c, Asked("reverse", e, p, n))
             \/ Ask(c, Asked("adjust", e, p, n))
      PROVE  PayrollInvariant'
  <2> HIDE DEF Asked
  <2> QED BY <1>0, <1>4, <1>8
<1> HIDE DEF Asked, Idle
<1> QED
  BY <1>1, <1>2, <1>3, <1>5, <1>6, <1>7, <1>8 DEF Compose

(* What a request that goes on holds.                                      *)
LEMMA InFlight ==
  ASSUME PayrollInvariant, NEW c \in Callers, NEW stage, NEW op, At(c, stage, op), stage # "idle"
  PROVE  /\ req[c] # Idle /\ Carried(req[c], timeline, attendance, record)
         /\ req[c].op = op /\ req[c].pc = stage
         /\ TablesOk(timeline, attendance, record, sale)
         /\ DOMAIN req = Callers /\ req = [d \in DOMAIN req |-> req[d]] /\ Whole(req[c])
<1>1. Carried(req[c], timeline, attendance, record)
  BY DEF PayrollInvariant
<1>2. Whole(req[c])
  BY <1>1 DEF Carried, Whole, Request
<1> QED
  BY <1>1, <1>2 DEF PayrollInvariant, At, Idle

(* A request that ends without a trace leaves the tables as they are.      *)
LEMMA AbandonStep ==
  ASSUME PayrollInvariant, NEW c \in Callers, Abandon(c)
  PROVE  PayrollInvariant'
BY PayrollQuietStep, IdleCarries DEF Abandon

(* The structure that is current is the last one, and closing it where the *)
(* new one starts keeps them one after the other.                          *)
LEMMA SuccessiveAppend ==
  ASSUME NEW rows, Successive(rows), NEW s \in Structures, NEW d \in 0..MaxDay,
         NEW n, n = Len(rows), n # 0 => rows[n].from < d
  PROVE  Successive(Append(IF n = 0 THEN rows ELSE [rows EXCEPT ![n].to = d],
                           [pay |-> s, from |-> d, to |-> None]))
<1> DEFINE new == [pay |-> s, from |-> d, to |-> None]
           closed == IF n = 0 THEN rows ELSE [rows EXCEPT ![n].to = d]
           all == Append(closed, new)
<1>1. new \in StructureRow /\ new.to = None /\ new.from = d
  BY DEF StructureRow
<1>2. n \in Nat /\ rows \in Seq(StructureRow) /\ MaxDay \in Nat
  BY PayrollAssumption DEF Successive
<1>3. /\ closed \in Seq(StructureRow) /\ Len(closed) = n
      /\ \A i \in 1..n : closed[i].from = rows[i].from
      /\ \A i \in 1..n : i # n => closed[i].to = rows[i].to
      /\ n # 0 => closed[n].to = d
  <2>1. CASE n = 0
    BY <2>1, <1>2
  <2>2. CASE n # 0
    <3>1. n \in 1..Len(rows) /\ rows[n] \in StructureRow
      BY <2>2, <1>2
    <3>2. PICK r : r = [rows[n] EXCEPT !.to = d]
      OBVIOUS
    <3>3. r \in StructureRow /\ r.to = d /\ r.from = rows[n].from
      BY <3>1, <3>2 DEF StructureRow
    <3>4. closed = [rows EXCEPT ![n] = r]
      BY <2>2, <3>2
    <3>5. /\ closed \in Seq(StructureRow) /\ Len(closed) = n
          /\ closed[n] = r /\ \A i \in 1..n : i # n => closed[i] = rows[i]
      BY <3>1, <3>3, <3>4, <1>2
    <3> QED
      BY <3>3, <3>5, <2>2
  <2> QED
    BY <2>1, <2>2
<1> HIDE DEF closed, new
<1>4. /\ all \in Seq(StructureRow) /\ Len(all) = n + 1 /\ all[n + 1] = new
      /\ \A i \in 1..n : all[i] = closed[i]
  BY <1>1, <1>2, <1>3
<1> HIDE DEF all
<1>5. ASSUME NEW i \in 1..Len(all), NEW j \in 1..Len(all), i < j
      PROVE  all[i].to # None /\ all[i].to <= all[j].from
  <2>1. i \in 1..n /\ (j = n + 1 \/ j \in 1..n)
    BY <1>5, <1>4, <1>2
  <2>2. CASE j = n + 1 /\ i = n
    <3>1. all[i].to = d /\ all[j].from = d
      BY <2>2, <2>1, <1>1, <1>3, <1>4
    <3> QED
      BY <3>1, <1>2, PayrollAssumption
  <2>3. CASE j = n + 1 /\ i # n
    <3>1. n \in 1..Len(rows) /\ i \in 1..Len(rows) /\ i < n
      BY <2>3, <2>1, <1>2
    <3>2. rows[i].to # None /\ rows[i].to <= rows[n].from
      BY <3>1 DEF Successive
    <3>3. rows[n] \in StructureRow /\ rows[i] \in StructureRow
      BY <3>1, <1>2
    <3>4. rows[n].from \in Nat /\ rows[i].to \in Nat /\ rows[n].from < d
      BY <3>1, <3>2, <3>3, <1>2 DEF StructureRow
    <3>5. all[i].to = rows[i].to /\ all[j].from = d
      BY <2>3, <2>1, <1>1, <1>3, <1>4
    <3> QED
      BY <3>2, <3>4, <3>5
  <2>4. CASE j \in 1..n
    <3>1. i \in 1..Len(rows) /\ j \in 1..Len(rows) /\ i # n
      BY <2>4, <1>5, <1>2
    <3>2. all[i].to = rows[i].to /\ all[j].from = rows[j].from
      BY <2>4, <2>1, <3>1, <1>3, <1>4
    <3> QED
      BY <3>1, <3>2, <1>5 DEF Successive
  <2> QED
    BY <2>1, <2>2, <2>3, <2>4
<1>6. Successive(all)
  BY <1>1, <1>2, <1>4, <1>5 DEF Successive
<1> QED
  BY <1>6 DEF all, closed, new

(* The open structure is the last one.                                     *)
LEMMA OpenIsLast ==
  ASSUME NEW rows, Successive(rows), NEW open, open = {i \in DOMAIN rows : rows[i].to = None}
  PROVE  /\ open = {} <=> Len(rows) = 0
         /\ open # {} => Latest(rows, open) = Len(rows)
<1>1. DOMAIN rows = 1..Len(rows) /\ Len(rows) \in Nat
  BY DEF Successive
<1>2. \A i \in open : i = Len(rows)
  BY <1>1 DEF Successive
<1>3. open = {} <=> Len(rows) = 0
  BY <1>1, <1>2 DEF Successive
<1>4. ASSUME open # {} PROVE Latest(rows, open) = Len(rows)
  <2>1. Len(rows) \in open /\ Len(rows) \in 1..Len(rows)
    BY <1>1, <1>2, <1>4
  <2>2. rows[Len(rows)] \in StructureRow
    BY <2>1 DEF Successive
  <2>3. rows[Len(rows)].from \in Int
    BY <2>2, PayrollAssumption DEF StructureRow
  <2>4. \A j \in open : rows[j].from <= rows[Len(rows)].from
    BY <1>2, <2>3
  <2>5. Latest(rows, open) \in open
    BY <2>1, <2>4 DEF Latest
  <2> QED
    BY <1>2, <2>5
<1> QED
  BY <1>3, <1>4

(* createCompensation: the current structure is closed where the new one   *)
(* starts, so that the structures of an employee stay successive.          *)
LEMMA CompensateStep ==
  ASSUME PayrollInvariant, NEW c \in Callers, Compensate(c)
  PROVE  PayrollInvariant'
<1> DEFINE e == req[c].who  rows == timeline[e]  n == Len(rows)
           open == {i \in DOMAIN rows : rows[i].to = None}
           new == [pay |-> req[c].arg, from |-> req[c].at, to |-> None]
           next == Append(IF n = 0 THEN rows ELSE [rows EXCEPT ![n].to = req[c].at], new)
<1>1. e \in Employees /\ req[c].at \in 0..MaxDay /\ req[c].arg \in Structures
  <2>1. At(c, "read", "compensate")
    BY DEF Compensate
  <2> QED
    BY <2>1, InFlight DEF Carried
<1>2. Successive(rows)
  BY <1>1 DEF PayrollInvariant, TablesOk
<1>3. (open = {} <=> n = 0) /\ (open # {} => Latest(rows, open) = n)
  BY <1>2, OpenIsLast
<1>4. n # 0 => rows[n].from < req[c].at
  BY <1>3 DEF Compensate, StartsLater
<1>5. Successive(next)
  BY <1>1, <1>2, <1>4, SuccessiveAppend
<1>6. timeline' = [timeline EXCEPT ![e] = next]
  BY <1>3 DEF Compensate
<1>7. attendance' = attendance /\ record' = record /\ sale' = sale /\ Finished(c)
  BY DEF Compensate
<1> HIDE DEF e, next
<1>8. /\ timeline' \in [Employees -> Seq(StructureRow)]
      /\ timeline'[e] = next /\ \A x \in Employees : x # e => timeline'[x] = timeline[x]
  BY <1>1, <1>5, <1>6 DEF PayrollInvariant, TablesOk, Successive
<1>9. \A x \in Employees : Successive(timeline'[x])
  BY <1>5, <1>8 DEF PayrollInvariant, TablesOk
<1>10. TablesOk(timeline', attendance', record', sale')
  BY <1>7, <1>8, <1>9 DEF PayrollInvariant, TablesOk
<1>11. Len(next) = n + 1 /\ n \in Nat
  <2>1. rows \in Seq(StructureRow) /\ n \in Nat
    BY <1>2 DEF Successive
  <2>2. CASE n = 0
    BY <2>1, <2>2 DEF next
  <2>3. CASE n # 0
    <3>1. n \in 1..Len(rows) /\ [rows EXCEPT ![n].to = req[c].at] \in Seq({rows[i] : i \in 1..n} \cup {[rows[n] EXCEPT !.to = req[c].at]})
      BY <2>1, <2>3
    <3>2. Len([rows EXCEPT ![n].to = req[c].at]) = n
      BY <2>1, <2>3
    <3> QED
      BY <2>3, <3>1, <3>2 DEF next
  <2> QED
    BY <2>2, <2>3
<1>12. Kept(timeline, attendance, record, timeline', attendance', record')
  <2>1. \A x \in Employees : 1..Len(timeline[x]) \subseteq 1..Len(timeline'[x])
    <3>1. \A x \in Employees : x # e => timeline'[x] = timeline[x]
      BY <1>8
    <3>2. 1..Len(timeline[e]) \subseteq 1..Len(timeline'[e])
      BY <1>8, <1>11
    <3> QED BY <3>1, <3>2
  <2> QED
    BY <2>1, <1>7 DEF Kept
<1> QED
  BY <1>7, <1>10, <1>12, PayrollLastStep

(* A day of one employee is written.                                       *)
LEMMA DayPut ==
  ASSUME NEW tl, NEW att, NEW rec, NEW sl, TablesOk(tl, att, rec, sl),
         NEW e \in Employees, NEW d \in Days, NEW r \in AttendanceRow,
         att[e][d] # None => r.status = att[e][d].status
  PROVE  /\ TablesOk(tl, [att EXCEPT ![e][d] = r], rec, sl)
         /\ Kept(tl, att, rec, tl, [att EXCEPT ![e][d] = r], rec)
<1> DEFINE att2 == [att EXCEPT ![e][d] = r]
<1>1. att \in [Employees -> [Days -> AttendanceRow \cup {None}]]
  BY DEF TablesOk
<1>2. /\ att2 \in [Employees -> [Days -> AttendanceRow \cup {None}]] /\ att2[e][d] = r
      /\ \A x \in Employees, y \in Days : (x # e \/ y # d) => att2[x][y] = att[x][y]
  BY <1>1
<1> HIDE DEF att2
<1>3. r # None
  BY NoneIsNoRecord
<1>4. \A x \in Employees, y \in Days : att[x][y] # None =>
        /\ att2[x][y] # None
        /\ att[x][y].status = "approved" => att2[x][y].status = "approved"
  BY <1>2, <1>3
<1>5. Kept(tl, att, rec, tl, att2, rec)
  BY <1>4 DEF Kept
<1>6. \A x \in Employees, p \in Periods : rec[x][p] # None => Earned(rec[x][p], att2[x], p)
  BY <1>4, EarnedStays DEF TablesOk
<1>7. TablesOk(tl, att2, rec, sl)
  BY <1>2, <1>6 DEF TablesOk
<1> QED
  BY <1>5, <1>7 DEF att2

(* recordAttendance and the self-service check: the day gets the only row  *)
(* it will have.                                                           *)
LEMMA AttendStep ==
  ASSUME PayrollInvariant, NEW c \in Callers, Attend(c)
  PROVE  PayrollInvariant'
<1> DEFINE e == req[c].who  d == req[c].at
           r == [hours |-> req[c].arg, delta |-> 0,
                 status |-> IF req[c].op = "self" THEN "recorded" ELSE "approved"]
<1>1. /\ At(c, "read", req[c].op) /\ req[c].op \in {"attend", "self"} /\ attendance[e][d] = None
      /\ attendance' = [attendance EXCEPT ![e][d] = r]
      /\ timeline' = timeline /\ sale' = sale /\ record' = record /\ Finished(c)
  BY DEF Attend, At
<1>2. e \in Employees /\ d \in Days /\ r \in AttendanceRow
  <2>1. Carried(req[c], timeline, attendance, record) /\ req[c] # Idle
    BY <1>1, InFlight
  <2>2. e \in Employees /\ d \in Days /\ req[c].arg \in Nat
    BY <1>1, <2>1 DEF Carried
  <2> QED
    BY <2>2 DEF AttendanceRow
<1>3. TablesOk(timeline, attendance, record, sale)
  BY DEF PayrollInvariant
<1> HIDE DEF r, e, d
<1>4. /\ TablesOk(timeline', attendance', record', sale')
      /\ Kept(timeline, attendance, record, timeline', attendance', record')
  BY <1>1, <1>2, <1>3, DayPut
<1> QED
  BY <1>1, <1>4, PayrollLastStep

(* A correction of hours, the read before the transaction and the write.   *)
LEMMA HoursSteps ==
  ASSUME PayrollInvariant, NEW c \in Callers, ReadHours(c) \/ CorrectHours(c)
  PROVE  PayrollInvariant'
<1> DEFINE e == req[c].who  d == req[c].at  n == DayHours(e, d)
<1>1. CASE ReadHours(c)
  <2>1. At(c, "read", "correct") /\ UNCHANGED <<timeline, attendance, record, sale, today>>
    BY <1>1 DEF ReadHours, Stay
  <2>2. req' = [req EXCEPT ![c].pc = "checked", ![c].read = n]
    BY <1>1 DEF ReadHours
  <2> HIDE DEF n
  <2>3. PICK r : r = Request("checked", req[c].op, req[c].who, req[c].at, req[c].arg, n, req[c].todo)
    OBVIOUS
  <2>4. Carried(req[c], timeline, attendance, record) /\ req[c] # Idle /\ req[c].op = "correct"
    BY <2>1, InFlight
  <2>5. c \in DOMAIN req /\ req = [x \in DOMAIN req |-> req[x]] /\ Whole(req[c])
    BY <2>1, InFlight
  <2>6. [req EXCEPT ![c].pc = "checked", ![c].read = n]
          = [req EXCEPT ![c] = Request("checked", req[c].op, req[c].who, req[c].at, req[c].arg, n, req[c].todo)]
    BY <2>5, ReadWritten
  <2>8. req' = [req EXCEPT ![c] = r]
    BY <2>2, <2>3, <2>6
  <2>7. Carried(r, timeline, attendance, record)
    BY <2>3, <2>4 DEF Carried, Request
  <2> QED
    BY <2>1, <2>8, <2>7, PayrollQuietStep
<1>2. CASE CorrectHours(c)
  <2>1. /\ At(c, "checked", "correct")
        /\ timeline' = timeline /\ sale' = sale /\ record' = record /\ Finished(c)
    BY <1>2 DEF CorrectHours
  <2>2. e \in Employees /\ d \in Days /\ req[c].arg \in Int /\ attendance[e][d] # None
    BY <2>1, InFlight DEF Carried
  <2>3. TablesOk(timeline, attendance, record, sale)
    BY DEF PayrollInvariant
  <2>4. attendance[e][d] \in AttendanceRow
    BY <2>2, <2>3 DEF TablesOk
  <2>5. PICK r : r = [attendance[e][d] EXCEPT !.delta = @ + req[c].arg]
    OBVIOUS
  <2>6. r \in AttendanceRow /\ r.status = attendance[e][d].status
    BY <2>2, <2>4, <2>5 DEF AttendanceRow
  <2>7. attendance' = [attendance EXCEPT ![e][d] = r]
    BY <1>2, <2>5 DEF CorrectHours
  <2> HIDE DEF e, d
  <2>8. /\ TablesOk(timeline', attendance', record', sale')
        /\ Kept(timeline, attendance, record, timeline', attendance', record')
    BY <2>1, <2>2, <2>3, <2>6, <2>7, DayPut
  <2> QED
    BY <2>1, <2>8, PayrollLastStep
<1> QED
  BY <1>1, <1>2

(* A payroll record is written.                                            *)
LEMMA RecordPut ==
  ASSUME NEW tl, NEW att, NEW rec, NEW sl, TablesOk(tl, att, rec, sl),
         NEW e \in Employees, NEW p \in Periods, NEW r \in PayrollRecord,
         Earned(r, att[e], p)
  PROVE  /\ TablesOk(tl, att, [rec EXCEPT ![e][p] = r], sl)
         /\ Kept(tl, att, rec, tl, att, [rec EXCEPT ![e][p] = r])
<1> DEFINE rec2 == [rec EXCEPT ![e][p] = r]
<1>1. rec \in [Employees -> [Periods -> PayrollRecord \cup {None}]]
  BY DEF TablesOk
<1>2. /\ rec2 \in [Employees -> [Periods -> PayrollRecord \cup {None}]] /\ rec2[e][p] = r
      /\ \A x \in Employees, y \in Periods : (x # e \/ y # p) => rec2[x][y] = rec[x][y]
  BY <1>1
<1> HIDE DEF rec2
<1>3. r # None
  BY NoneIsNoRecord
<1>4. Kept(tl, att, rec, tl, att, rec2)
  BY <1>2, <1>3 DEF Kept
<1>5. ASSUME NEW x \in Employees, NEW y \in Periods, rec2[x][y] # None
      PROVE  Earned(rec2[x][y], att[x], y)
  BY <1>2, <1>5 DEF TablesOk
<1>6. TablesOk(tl, att, rec2, sl)
  BY <1>2, <1>5 DEF TablesOk
<1> QED
  BY <1>4, <1>6 DEF rec2

(* The updates of a record keep what it was calculated as.                 *)
LEMMA PaidRowFacts ==
  ASSUME NEW r \in PayrollRecord
  PROVE  /\ PaidRow(r) \in PayrollRecord /\ PaidRow(r).model = r.model /\ PaidRow(r).amount = r.amount
         /\ PaidRow(r).moved = r.moved /\ PaidRow(r).reversed = r.reversed
         /\ PaidRow(r).adjusted = r.adjusted /\ PaidRow(r).status = "paid"
         /\ PaidRow(r).receipt = r.amount
<1>0. PICK x : x = [r EXCEPT !.status = "paid", !.version = r.version + 1, !.receipt = r.amount]
  OBVIOUS
<1>1. x = [amount |-> r.amount, model |-> r.model, percent |-> r.percent, status |-> "paid",
           version |-> r.version + 1, receipt |-> r.amount, adjusted |-> r.adjusted,
           moved |-> r.moved, reversed |-> r.reversed]
  BY <1>0 DEF PayrollRecord
<1>2. r.version + 1 \in Nat /\ r.amount \in Int
  BY DEF PayrollRecord
<1>3. PaidRow(r) = x
  BY <1>0 DEF PaidRow
<1> QED
  BY <1>1, <1>2, <1>3 DEF PayrollRecord

(* At most one structure is in force on a day.                             *)
LEMMA InForceOne ==
  ASSUME TablesOk(timeline, attendance, record, sale), NEW e \in Employees, NEW d \in Nat,
         NEW i \in InForce(e, d), NEW j \in InForce(e, d)
  PROVE  i = j
<1> DEFINE rows == timeline[e]
<1>1. Successive(rows) /\ rows \in Seq(StructureRow) /\ MaxDay \in Nat
  BY PayrollAssumption DEF TablesOk, Successive
<1>2. ASSUME NEW x \in InForce(e, d), NEW y \in InForce(e, d), x < y PROVE FALSE
  <2>1. x \in 1..Len(rows) /\ y \in 1..Len(rows) /\ x < y
    BY <1>1, <1>2 DEF InForce
  <2>2. rows[x].to # None /\ rows[x].to <= rows[y].from
    BY <2>1, <1>1 DEF Successive
  <2>3. rows[x] \in StructureRow /\ rows[y] \in StructureRow
    BY <2>1, <1>1
  <2>4. rows[x].to \in Nat /\ rows[y].from \in Nat
    BY <2>2, <2>3, <1>1 DEF StructureRow
  <2>5. rows[x].to > d /\ rows[y].from <= d
    BY <2>2 DEF InForce
  <2> QED
    BY <2>2, <2>4, <2>5
<1>3. i \in Nat /\ j \in Nat
  BY <1>1 DEF InForce
<1> QED
  BY <1>2, <1>3

(* A generation finds the structure of an employee for the period, or      *)
(* passes to the next one.                                                 *)
LEMMA LookUpStep ==
  ASSUME PayrollInvariant, NEW c \in Callers, LookUp(c)
  PROVE  PayrollInvariant'
<1>1. At(c, "read", "generate") /\ UNCHANGED <<timeline, attendance, record, sale, today>>
  BY DEF LookUp, Stay
<1>2. /\ Carried(req[c], timeline, attendance, record) /\ req[c] # Idle /\ req[c].op = "generate"
      /\ TablesOk(timeline, attendance, record, sale) /\ Whole(req[c]) /\ req[c].pc = "read"
  BY <1>1, InFlight
<1>3. req[c].at \in Periods /\ req[c].todo \subseteq Employees
  BY <1>2 DEF Carried
<1> DEFINE at == req[c].at  rest(x) == [req[c] EXCEPT !.todo = req[c].todo \ {x}]
<1>4. PICK e \in req[c].todo :
        req' = [req EXCEPT ![c] =
          IF InForce(e, FirstDay(at)) = {} THEN rest(e)
          ELSE [rest(e) EXCEPT !.pc = "found", !.who = e,
                               !.arg = Latest(timeline[e], InForce(e, FirstDay(at)))]]
  BY DEF LookUp
<1> DEFINE rows == InForce(e, FirstDay(at))  last == Latest(timeline[e], rows)
           r1 == Request("read", "generate", req[c].who, at, req[c].arg, req[c].read, req[c].todo \ {e})
           r2 == Request("found", "generate", e, at, last, req[c].read, req[c].todo \ {e})
<1>5. rest(e) = r1
  BY <1>2 DEF Whole, Request
<1>6. Carried(r1, timeline, attendance, record)
  BY <1>2, <1>3 DEF Carried, Request
<1>7. CASE rows = {}
  <2>1. req' = [req EXCEPT ![c] = r1]
    BY <1>4, <1>5, <1>7
  <2> QED
    BY <2>1, <1>1, <1>6, PayrollQuietStep
<1>8. CASE rows # {}
  <2>1. e \in Employees /\ FirstDay(at) \in Nat
    <3>1. PICK d \in Days : at = PeriodOf(d)
      BY <1>3 DEF Periods
    <3>2. d - 1 \in Nat /\ DaysPerPeriod \in Nat \ {0}
      BY CalendarFacts, PayrollAssumption DEF Days
    <3>3. (d - 1) \div DaysPerPeriod \in Nat
      BY <3>2
    <3>4. PICK k \in Nat : k = (d - 1) \div DaysPerPeriod
      BY <3>3
    <3>5. at = k + 1
      BY <3>1, <3>4 DEF PeriodOf
    <3>6. (at - 1) * DaysPerPeriod \in Nat
      BY <3>5, <3>2
    <3> QED
      BY <3>6, <1>3 DEF FirstDay
  <2>2. PICK i \in rows : TRUE
    BY <1>8
  <2>3. \A j \in rows : j = i
    BY <1>2, <2>1, InForceOne
  <2>4. i \in 1..Len(timeline[e])
    BY <1>2, <2>1 DEF InForce, TablesOk, Successive
  <2>5. timeline[e][i].from \in Int
    <3>1. timeline[e][i] \in StructureRow
      BY <1>2, <2>1, <2>4 DEF TablesOk
    <3> QED
      BY <3>1, PayrollAssumption DEF StructureRow
  <2>6. last = i
    <3> HIDE DEF rows
    <3> QED
      BY <2>2, <2>3, <2>5 DEF Latest
  <2>7. Carried(r2, timeline, attendance, record)
    BY <1>2, <1>3, <2>1, <2>4, <2>6 DEF Carried, Request
  <2>8. [r1 EXCEPT !.pc = "found", !.who = e, !.arg = last] = r2
    <3> HIDE DEF last
    <3> DEFINE x1 == Request("found", "generate", req[c].who, at, req[c].arg, req[c].read, req[c].todo \ {e})
               x2 == Request("found", "generate", e, at, req[c].arg, req[c].read, req[c].todo \ {e})
    <3>1. [r1 EXCEPT !.pc = "found"] = x1
      BY DEF Request
    <3>2. [x1 EXCEPT !.who = e] = x2
      BY DEF Request
    <3>3. [x2 EXCEPT !.arg = last] = r2
      BY DEF Request
    <3> HIDE DEF x1, x2, r1, r2
    <3> QED
      BY <3>1, <3>2, <3>3
  <2>9. req' = [req EXCEPT ![c] = r2]
    <3> HIDE DEF r2, r1, last, rest
    <3> QED
      BY <1>4, <1>5, <1>8, <2>8 DEF last
  <2> QED
    BY <2>7, <2>9, <1>1, PayrollQuietStep
<1> QED
  BY <1>7, <1>8

(* Rounding and the amount of a record are whole numbers, and without an   *)
(* approved day the hourly amount is zero.                                 *)
LEMMA RoundInt ==
  ASSUME NEW n \in Int, NEW k \in Nat \ {0}
  PROVE  RoundHalfUp(n, k) \in Int
<1>1. 2 * k \in Nat \ {0} /\ 2 * n + k \in Int /\ 2 * (-n) + k \in Int
  OBVIOUS
<1>2. \A x \in Int, y \in Nat \ {0} : x \div y \in Int
  OBVIOUS
<1>3. (2 * n + k) \div (2 * k) \in Int /\ (2 * (-n) + k) \div (2 * k) \in Int
  BY <1>1, <1>2
<1> QED
  BY <1>3 DEF RoundHalfUp

(* The paid days of an employee are finitely many days with integral       *)
(* hours, and hours that add up to something come from an approved day.    *)
LEMMA HoursInt ==
  ASSUME TablesOk(timeline, attendance, record, sale), NEW e \in Employees, NEW p
  PROVE  /\ IsFiniteSet(PaidDays(e, p)) /\ \A d \in PaidDays(e, p) : DayHours(e, d) \in Int
         /\ ApprovedHours(e, p) \in Int
         /\ ApprovedHours(e, p) # 0 => ApprovedDay(attendance[e], p)
<1> DEFINE days == PaidDays(e, p)  f == [d \in days |-> DayHours(e, d)]
<1>1. days \subseteq Days /\ IsFiniteSet(days)
  BY CalendarFacts, FS_Subset DEF PaidDays
<1>2. \A d \in days : DayHours(e, d) \in Int
  BY <1>1 DEF TablesOk, AttendanceRow, PaidDays, Counted, Approved, DayHours
<1>3. \A d \in days : f[d] \in Int
  BY <1>2
<1>4. ApprovedHours(e, p) = Sum(f, days)
  BY DEF ApprovedHours
<1> HIDE DEF f
<1>5. ApprovedHours(e, p) \in Int
  BY <1>1, <1>3, <1>4, SumInt
<1>6. days = {} => ApprovedHours(e, p) = 0
  BY <1>4, SumEmpty
<1>7. days # {} => ApprovedDay(attendance[e], p)
  BY DEF PaidDays, Counted, Approved, ApprovedDay
<1> QED
  BY <1>1, <1>2, <1>5, <1>6, <1>7

(* Overtime pay is an integer.                                             *)
LEMMA OverTimeInt ==
  ASSUME TablesOk(timeline, attendance, record, sale), NEW e \in Employees, NEW p,
         NEW s \in Structures
  PROVE  OverTime(s, e, p) \in Int
<1> DEFINE days == PaidDays(e, p)
           over == [d \in days |-> IF DayHours(e, d) > s.threshold THEN DayHours(e, d) - s.threshold ELSE 0]
           normal == [d \in days |-> DayHours(e, d) - over[d]]
<1>1. IsFiniteSet(days) /\ \A d \in days : DayHours(e, d) \in Int
  BY HoursInt
<1>2. s.threshold \in Int /\ s.rate \in Int /\ s.multiplier \in Int
  BY PayrollAssumption DEF Structure
<1>3. (\A d \in days : over[d] \in Int) /\ (\A d \in days : normal[d] \in Int)
  BY <1>1, <1>2
<1>4. OverTime(s, e, p) = Sum(normal, days) * s.rate + Sum(over, days) * s.rate * s.multiplier
  BY DEF OverTime
<1> HIDE DEF over, normal, days
<1>5. Sum(normal, days) \in Int /\ Sum(over, days) \in Int
  BY <1>1, <1>3, SumInt
<1>6. \A x, y \in Int : x * y \in Int /\ x + y \in Int
  OBVIOUS
<1> QED
  BY <1>2, <1>4, <1>5, <1>6

(* The sales a commission is computed from are an integer.                 *)
LEMMA EligibleInt ==
  ASSUME TablesOk(timeline, attendance, record, sale), NEW e, NEW p
  PROVE  EligibleSales(e, p) \in Int
BY PayrollAssumption DEF EligibleSales

(* What a structure pays is an integer, and an hourly structure pays       *)
(* something only for an approved day.                                     *)
LEMMA AmountFacts ==
  ASSUME TablesOk(timeline, attendance, record, sale), NEW e \in Employees, NEW p,
         NEW s \in Structures
  PROVE  /\ Amount(s, e, p) \in Int
         /\ s.model = "HOURLY" /\ Amount(s, e, p) > 0 => ApprovedDay(attendance[e], p)
<1> DEFINE hourly == ApprovedHours(e, p) * s.rate
           commission == RoundHalfUp(EligibleSales(e, p) * s.percent, 100)
           contract == RoundHalfUp(s.fixed, s.months)
           over == OverTime(s, e, p)
<1>1. /\ s.model \in CompensationModels /\ s.fixed \in Nat /\ s.rate \in Nat /\ s.percent \in Nat
      /\ s.months \in Nat \ {0}
  BY PayrollAssumption DEF Structure
<1>2. ApprovedHours(e, p) \in Int /\ EligibleSales(e, p) \in Int /\ over \in Int
  BY HoursInt, EligibleInt, OverTimeInt
<1>3. \A x, y \in Int : x * y \in Int
  OBVIOUS
<1>4. EligibleSales(e, p) * s.percent \in Int /\ hourly \in Int
  BY <1>1, <1>2, <1>3
<1>5. commission \in Int /\ contract \in Int
  BY <1>1, <1>4, RoundInt
<1>6. Amount(s, e, p) =
        [FIXED_MONTHLY |-> s.fixed, HOURLY |-> hourly, PERCENTAGE |-> commission,
         FIXED_PLUS_PERCENTAGE |-> s.fixed + commission, FIXED_PLUS_TIME |-> s.fixed + over,
         CONTRACT |-> contract, CUSTOM |-> s.fixed + hourly + commission][s.model]
  BY DEF Amount
<1>7. ApprovedHours(e, p) = 0 => hourly = 0
  BY <1>1
<1>8. ApprovedHours(e, p) # 0 => ApprovedDay(attendance[e], p)
  BY HoursInt
<1> HIDE DEF hourly, commission, contract, over
<1>9. Amount(s, e, p) \in Int
  BY <1>1, <1>2, <1>4, <1>5, <1>6 DEF CompensationModels
<1>10. s.model = "HOURLY" => Amount(s, e, p) = hourly
  BY <1>6
<1> QED
  BY <1>7, <1>8, <1>9, <1>10

(* A generation computes the amount it will insert; what it carries from   *)
(* here on is typed, and an hourly amount is backed by an approved day.    *)
LEMMA CalculateStep ==
  ASSUME PayrollInvariant, NEW c \in Callers, Calculate(c)
  PROVE  PayrollInvariant'
<1> DEFINE e == req[c].who  p == req[c].at  s == timeline[e][req[c].arg].pay
           new == [amount |-> Amount(s, e, p), model |-> s.model, percent |-> s.percent]
           r == Request("calculated", req[c].op, e, p, req[c].arg, new, req[c].todo)
<1>1. At(c, "found", "generate") /\ UNCHANGED <<timeline, attendance, record, sale, today>>
  BY DEF Calculate, Stay
<1>2. /\ Carried(req[c], timeline, attendance, record) /\ req[c] # Idle /\ req[c].op = "generate"
      /\ TablesOk(timeline, attendance, record, sale) /\ req[c].pc = "found"
  BY <1>1, InFlight
<1>3. c \in DOMAIN req /\ req = [x \in DOMAIN req |-> req[x]] /\ Whole(req[c])
  BY <1>1, InFlight
<1>4. e \in Employees /\ req[c].arg \in 1..Len(timeline[e]) /\ p \in Periods /\ req[c].todo \subseteq Employees
  BY <1>2 DEF Carried
<1>5. s \in Structures
  <2>1. timeline[e] \in Seq(StructureRow)
    BY <1>2, <1>4 DEF TablesOk
  <2>2. timeline[e][req[c].arg] \in StructureRow
    BY <2>1, <1>4
  <2> QED
    BY <2>2 DEF StructureRow
<1>6. /\ Amount(s, e, p) \in Int /\ s.model \in CompensationModels /\ s.percent \in Nat
      /\ s.model = "HOURLY" /\ Amount(s, e, p) > 0 => ApprovedDay(attendance[e], p)
  BY <1>2, <1>4, <1>5, AmountFacts, PayrollAssumption DEF Structure
<1>7. req' = [req EXCEPT ![c].pc = "calculated", ![c].read = new]
  BY DEF Calculate
<1> HIDE DEF s
<1>8. Earned(new, attendance[e], p)
  BY <1>6 DEF Earned
<1>9. Carried(r, timeline, attendance, record)
  <2> DEFINE amount == Amount(s, e, p)
  <2>1. /\ new = [amount |-> new.amount, model |-> new.model, percent |-> new.percent]
        /\ new.amount \in Int /\ new.model \in CompensationModels /\ new.percent \in Nat
    BY <1>6
  <2> HIDE DEF new
  <2> QED
    BY <1>2, <1>4, <1>8, <2>1 DEF Carried, Request, Idle
<1> HIDE DEF new
<1>10. [req EXCEPT ![c].pc = "calculated", ![c].read = new] = [req EXCEPT ![c] = r]
  BY <1>3, ReadWritten
<1>11. req' = [req EXCEPT ![c] = r]
  BY <1>7, <1>10
<1> HIDE DEF r
<1> QED
  BY <1>1, <1>9, <1>11, PayrollQuietStep

(* A table that is left as it is keeps everything.                         *)
LEMMA KeptSelf == \A tl, att, rec : Kept(tl, att, rec, tl, att, rec)
BY DEF Kept

(* The record of an employee and a period is inserted once, pending, and   *)
(* unchanged ledgers stay balanced.                                        *)
LEMMA InsertStep ==
  ASSUME PayrollInvariant, NEW c \in Callers, Insert(c)
  PROVE  PayrollInvariant'
<1> DEFINE e == req[c].who  p == req[c].at  read == req[c].read
           new == [amount |-> read.amount, model |-> read.model, percent |-> read.percent,
                   status |-> "pending", version |-> 0, receipt |-> None, adjusted |-> 0,
                   moved |-> 0, reversed |-> 0]
           r == Request("read", req[c].op, None, p, None, None, req[c].todo)
<1>1. /\ At(c, "calculated", "generate")
      /\ timeline' = timeline /\ attendance' = attendance /\ sale' = sale /\ today' = today
  BY DEF Insert, Stay
<1>2. /\ Carried(req[c], timeline, attendance, record) /\ req[c] # Idle /\ req[c].op = "generate"
      /\ TablesOk(timeline, attendance, record, sale) /\ req[c].pc = "calculated"
  BY <1>1, InFlight
<1>3. c \in DOMAIN req /\ req = [x \in DOMAIN req |-> req[x]] /\ Whole(req[c])
  BY <1>1, InFlight
<1>4. e \in Employees /\ p \in Periods /\ req[c].todo \subseteq Employees
  BY <1>2 DEF Carried
<1>5. /\ read.amount \in Int /\ read.model \in CompensationModels /\ read.percent \in Nat
      /\ Earned(read, attendance[e], p)
  BY <1>2 DEF Carried
<1>6. new \in PayrollRecord /\ Earned(new, attendance[e], p)
  BY <1>5 DEF PayrollRecord, Earned
<1>7. record' = [record EXCEPT ![e][p] = IF record[e][p] = None THEN new ELSE record[e][p]]
  BY DEF Insert, Inserted
<1>8. req' = [req EXCEPT ![c].pc = "read", ![c].who = None, ![c].arg = None, ![c].read = None]
  BY DEF Insert
<1>9. [req EXCEPT ![c].pc = "read", ![c].who = None, ![c].arg = None, ![c].read = None]
        = [req EXCEPT ![c] = r]
  BY <1>3, AnotherFields
<1>10. Carried(r, timeline', attendance', record')
  BY <1>2, <1>4 DEF Carried, Request, Idle
<1> HIDE DEF r
<1>11. req' = [req EXCEPT ![c] = r]
  BY <1>8, <1>9
<1> HIDE DEF new, e, p, read
<1>12. /\ TablesOk(timeline', attendance', record', sale')
       /\ Kept(timeline, attendance, record, timeline', attendance', record')
  <2>1. CASE record[e][p] = None
    <3>1. record' = [record EXCEPT ![e][p] = new]
      BY <1>7, <2>1
    <3> QED
      BY <3>1, <1>1, <1>2, <1>4, <1>6, RecordPut
  <2>2. CASE record[e][p] # None
    <3>1. record' = record
      BY <1>2, <1>4, <1>7, <2>2 DEF TablesOk
    <3> QED
      BY <3>1, <1>1, <1>2, KeptSelf
  <2> QED
    BY <2>1, <2>2
<1> QED
  BY <1>1, <1>10, <1>11, <1>12, PayrollStep

(* A request that ends and changes nothing.                                *)
LEMMA DoneSteps ==
  ASSUME PayrollInvariant, NEW c \in Callers, GenerateDone(c) \/ BulkDone(c)
  PROVE  PayrollInvariant'
<1>1. Finished(c) /\ UNCHANGED <<timeline, attendance, record, sale>>
  BY DEF GenerateDone, BulkDone
<1>2. req' = [req EXCEPT ![c] = Idle] /\ UNCHANGED <<timeline, attendance, record, sale, today>>
  BY <1>1 DEF Finished, Stay
<1> QED
  BY <1>2, IdleCarries, PayrollQuietStep

(* The record a request found is still there.                              *)
LEMMA RecordFound ==
  ASSUME TablesOk(timeline, attendance, record, sale), NEW e \in Employees, NEW p \in Periods,
         record[e][p] # None
  PROVE  /\ record[e][p] \in PayrollRecord /\ Earned(record[e][p], attendance[e], p)
         /\ Effective(record[e][p]) \in Int
<1>1. record[e][p] \in PayrollRecord /\ Earned(record[e][p], attendance[e], p)
  BY DEF TablesOk
<1> QED
  BY <1>1 DEF PayrollRecord, Effective

(* Paying a record.                                                        *)
LEMMA PaidPut ==
  ASSUME TablesOk(timeline, attendance, record, sale), NEW e \in Employees, NEW p \in Periods,
         record[e][p] # None, record' = [record EXCEPT ![e][p] = PaidRow(record[e][p])],
         UNCHANGED <<timeline, attendance, sale>>
  PROVE  /\ TablesOk(timeline', attendance', record', sale')
         /\ Kept(timeline, attendance, record, timeline', attendance', record')
<1>1. record[e][p] \in PayrollRecord /\ Earned(record[e][p], attendance[e], p)
  BY RecordFound
<1>2. PICK r : r = PaidRow(record[e][p])
  OBVIOUS
<1>3. r \in PayrollRecord /\ r.model = record[e][p].model /\ r.amount = record[e][p].amount
  BY <1>1, <1>2, PaidRowFacts
<1>4. Earned(r, attendance[e], p)
  BY <1>1, <1>3 DEF Earned
<1>5. record' = [record EXCEPT ![e][p] = r]
  BY <1>2
<1>6. timeline' = timeline /\ attendance' = attendance /\ sale' = sale
  OBVIOUS
<1>7. /\ TablesOk(timeline, attendance, [record EXCEPT ![e][p] = r], sale)
      /\ Kept(timeline, attendance, record, timeline, attendance, [record EXCEPT ![e][p] = r])
  BY <1>3, <1>4, RecordPut
<1> QED
  BY <1>5, <1>6, <1>7

(* markPaid: a pending record becomes paid, with its receipt.              *)
LEMMA PayStep ==
  ASSUME PayrollInvariant, NEW c \in Callers, Pay(c)
  PROVE  PayrollInvariant'
<1> DEFINE e == req[c].who  p == req[c].at
<1>1. At(c, "read", "pay") /\ Finished(c) /\ UNCHANGED <<timeline, attendance, sale>>
  BY DEF Pay
<1>2. record' = [record EXCEPT ![e][p] = PaidRow(record[e][p])]
  BY DEF Pay
<1>3. e \in Employees /\ p \in Periods /\ record[e][p] # None
  BY <1>1, InFlight DEF Carried
<1>4. TablesOk(timeline, attendance, record, sale)
  BY DEF PayrollInvariant
<1> QED
  BY <1>1, <1>2, <1>3, <1>4, PaidPut, PayrollLastStep

(* A bulk payment: the list of the pending records, then each listed one   *)
(* that is still pending at the version listed.                            *)
LEMMA BulkSteps ==
  ASSUME PayrollInvariant, NEW c \in Callers, ListPending(c) \/ PayListed(c)
  PROVE  PayrollInvariant'
<1>1. CASE ListPending(c)
  <2>1. At(c, "read", "bulk") /\ UNCHANGED <<timeline, attendance, record, sale, today>>
    BY <1>1 DEF ListPending, Stay
  <2> DEFINE pending == {y \in Employees \X Periods : /\ record[y[1]][y[2]] # None
                                                      /\ record[y[1]][y[2]].status = "pending"}
             pick == {[who |-> x[1], at |-> x[2], version |-> record[x[1]][x[2]].version] : x \in pending}
  <2>0. PICK list : list = pick
    OBVIOUS
  <2>2. req' = [req EXCEPT ![c].pc = "listed", ![c].todo = list]
    BY <1>1, <2>0 DEF ListPending
  <2>3. \A x \in list : x.who \in Employees /\ x.at \in Periods /\ record[x.who][x.at] # None
    BY <2>0
  <2> HIDE DEF pick
  <2>4. Carried(req[c], timeline, attendance, record) /\ req[c] # Idle /\ req[c].op = "bulk"
    BY <2>1, InFlight
  <2>5. c \in DOMAIN req /\ req = [x \in DOMAIN req |-> req[x]] /\ Whole(req[c])
    BY <2>1, InFlight
  <2> DEFINE r == Request("listed", req[c].op, req[c].who, req[c].at, req[c].arg, req[c].read, list)
  <2>6. Carried(r, timeline, attendance, record)
    BY <2>3, <2>4 DEF Carried, Request, Idle
  <2>7. [req EXCEPT ![c].pc = "listed", ![c].todo = list] = [req EXCEPT ![c] = r]
    <3> DEFINE r0 == Request("listed", req[c].op, req[c].who, req[c].at, req[c].arg, req[c].read, req[c].todo)
    <3>1. [req[c] EXCEPT !.pc = "listed"] = r0
      BY <2>5 DEF Request, Whole
    <3>2. [req EXCEPT ![c].pc = "listed"] = [req EXCEPT ![c] = r0]
      BY <3>1
    <3>3. [r0 EXCEPT !.todo = list] = r
      BY DEF Request
    <3>4. [[req EXCEPT ![c] = r0] EXCEPT ![c].todo = list] = [req EXCEPT ![c] = r]
      BY <2>5, <3>3
    <3> HIDE DEF r0, r
    <3> QED
      BY <3>2, <3>4
  <2> HIDE DEF r
  <2>8. req' = [req EXCEPT ![c] = r]
    BY <2>2, <2>7
  <2> QED
    BY <2>1, <2>6, <2>8, PayrollQuietStep
<1>2. CASE PayListed(c)
  <2>1. At(c, "listed", "bulk") /\ timeline' = timeline /\ attendance' = attendance /\ sale' = sale /\ today' = today
    BY <1>2 DEF PayListed, Stay
  <2>2. PICK x \in req[c].todo :
          /\ record' = [record EXCEPT ![x.who][x.at] =
                IF Payable(record[x.who][x.at], x.version) THEN PaidRow(record[x.who][x.at])
                ELSE record[x.who][x.at]]
          /\ req' = [req EXCEPT ![c].todo = req[c].todo \ {x}]
    BY <1>2 DEF PayListed
  <2>3. /\ Carried(req[c], timeline, attendance, record) /\ req[c] # Idle /\ req[c].op = "bulk"
        /\ TablesOk(timeline, attendance, record, sale) /\ req[c].pc = "listed" /\ Whole(req[c])
    BY <2>1, InFlight
  <2>4. /\ x.who \in Employees /\ x.at \in Periods /\ record[x.who][x.at] # None
        /\ \A y \in req[c].todo : y.who \in Employees /\ y.at \in Periods /\ record[y.who][y.at] # None
    BY <2>3 DEF Carried
  <2>5. /\ TablesOk(timeline', attendance', record', sale')
        /\ Kept(timeline, attendance, record, timeline', attendance', record')
    <3>1. CASE Payable(record[x.who][x.at], x.version)
      <4>1. record' = [record EXCEPT ![x.who][x.at] = PaidRow(record[x.who][x.at])]
        BY <2>2, <3>1
      <4>2. x.who \in Employees /\ x.at \in Periods /\ record[x.who][x.at] # None
        BY <2>4
      <4> QED
        BY <4>1, <4>2, <2>1, <2>3, PaidPut
    <3>2. CASE ~Payable(record[x.who][x.at], x.version)
      <4>1. record' = record
        BY <2>2, <2>3, <2>4, <3>2 DEF TablesOk
      <4> QED
        BY <4>1, <2>1, <2>3, KeptSelf
    <3> QED
      BY <3>1, <3>2
  <2> DEFINE r == Request("listed", "bulk", req[c].who, req[c].at, req[c].arg, req[c].read, req[c].todo \ {x})
  <2>6. [req[c] EXCEPT !.todo = req[c].todo \ {x}] = r
    BY <2>3 DEF Whole, Request
  <2>7. req' = [req EXCEPT ![c] = r]
    BY <2>2, <2>6
  <2>8. Carried(r, timeline, attendance, record)
    BY <2>3, <2>4 DEF Carried, Request, Idle
  <2>9. Carried(r, timeline', attendance', record')
    BY <2>5, <2>8, CarriedStays
  <2> HIDE DEF r
  <2> QED
    BY <2>1, <2>5, <2>7, <2>9, PayrollStep
<1> QED
  BY <1>1, <1>2

(* A reversal locks the record and reads what it still comes to.           *)
LEMMA LockRecordStep ==
  ASSUME PayrollInvariant, NEW c \in Callers, LockRecord(c)
  PROVE  PayrollInvariant'
<1> DEFINE n == Effective(record[req[c].who][req[c].at])
           r == Request("locked", req[c].op, req[c].who, req[c].at, req[c].arg, n, req[c].todo)
<1>1. At(c, "read", "reverse") /\ UNCHANGED <<timeline, attendance, record, sale, today>>
  BY DEF LockRecord, Stay
<1>2. req' = [req EXCEPT ![c].pc = "locked", ![c].read = n]
  BY DEF LockRecord
<1> HIDE DEF n
<1>3. Carried(req[c], timeline, attendance, record) /\ req[c] # Idle /\ req[c].op = "reverse"
  BY <1>1, InFlight
<1>4. c \in DOMAIN req /\ req = [x \in DOMAIN req |-> req[x]] /\ Whole(req[c])
  BY <1>1, InFlight
<1>5. Carried(r, timeline, attendance, record)
  BY <1>3 DEF Carried, Request, Idle
<1>6. [req EXCEPT ![c].pc = "locked", ![c].read = n] = [req EXCEPT ![c] = r]
  BY <1>4, ReadWritten
<1> HIDE DEF r
<1>7. req' = [req EXCEPT ![c] = r]
  BY <1>2, <1>6
<1> QED
  BY <1>1, <1>5, <1>7, PayrollQuietStep

(* One of the ledgers of a record grows.                                   *)
LEMMA LedgerPut ==
  ASSUME TablesOk(timeline, attendance, record, sale), NEW e \in Employees, NEW p \in Periods,
         record[e][p] # None, NEW r \in PayrollRecord,
         r.model = record[e][p].model, r.amount = record[e][p].amount,
         record' = [record EXCEPT ![e][p] = r],
         UNCHANGED <<timeline, attendance, sale>>
  PROVE  /\ TablesOk(timeline', attendance', record', sale')
         /\ Kept(timeline, attendance, record, timeline', attendance', record')
<1>1. record[e][p] \in PayrollRecord /\ Earned(record[e][p], attendance[e], p)
  BY RecordFound
<1>2. Earned(r, attendance[e], p)
  BY <1>1 DEF Earned
<1>3. timeline' = timeline /\ attendance' = attendance /\ sale' = sale
  OBVIOUS
<1>4. /\ TablesOk(timeline, attendance, [record EXCEPT ![e][p] = r], sale)
      /\ Kept(timeline, attendance, record, timeline, attendance, [record EXCEPT ![e][p] = r])
  BY <1>2, RecordPut
<1> QED
  BY <1>3, <1>4

(* A reversal and an adjustment write one record.                          *)
LEMMA LedgerSteps ==
  ASSUME PayrollInvariant, NEW c \in Callers, Reverse(c) \/ Adjust(c)
  PROVE  PayrollInvariant'
<1> DEFINE e == req[c].who  p == req[c].at  n == req[c].arg
<1>1. /\ At(c, "locked", "reverse") \/ At(c, "read", "adjust")
      /\ Finished(c) /\ UNCHANGED <<timeline, attendance, sale>>
  BY DEF Reverse, Adjust
<1>2. e \in Employees /\ p \in Periods /\ n \in Int /\ record[e][p] # None
  <2>1. /\ Carried(req[c], timeline, attendance, record) /\ req[c] # Idle
        /\ req[c].op \in {"reverse", "adjust"}
    BY <1>1, InFlight
  <2> QED
    BY <2>1 DEF Carried
<1>3. TablesOk(timeline, attendance, record, sale)
  BY DEF PayrollInvariant
<1>4. record[e][p] \in PayrollRecord
  BY <1>2, <1>3, RecordFound
<1>5. PICK r \in PayrollRecord : /\ r.model = record[e][p].model /\ r.amount = record[e][p].amount
                                 /\ record' = [record EXCEPT ![e][p] = r]
  <2>1. CASE Reverse(c)
    <3>1. PICK r : r = [record[e][p] EXCEPT !.reversed = @ + n]
      OBVIOUS
    <3>2. r \in PayrollRecord /\ r.model = record[e][p].model /\ r.amount = record[e][p].amount
      BY <1>2, <1>4, <3>1 DEF PayrollRecord
    <3>3. record' = [record EXCEPT ![e][p] = r]
      BY <2>1, <3>1 DEF Reverse
    <3> QED
      BY <3>2, <3>3
  <2>2. CASE Adjust(c)
    <3>1. PICK r : r = [record[e][p] EXCEPT !.adjusted = @ + n]
      OBVIOUS
    <3>2. r \in PayrollRecord /\ r.model = record[e][p].model /\ r.amount = record[e][p].amount
      BY <1>2, <1>4, <3>1 DEF PayrollRecord
    <3>3. record' = [record EXCEPT ![e][p] = r]
      BY <2>2, <3>1 DEF Adjust
    <3> QED
      BY <3>2, <3>3
  <2> QED
    BY <2>1, <2>2
<1> HIDE DEF e, p, n
<1>6. /\ TablesOk(timeline', attendance', record', sale')
      /\ Kept(timeline, attendance, record, timeline', attendance', record')
  BY <1>1, <1>2, <1>3, <1>5, LedgerPut
<1> QED
  BY <1>1, <1>6, PayrollLastStep

(* A change of attribution computes how much commission moves between the  *)
(* two employees.                                                          *)
LEMMA TakeSaleStep ==
  ASSUME PayrollInvariant, NEW c \in Callers, TakeSale(c)
  PROVE  PayrollInvariant'
<1> DEFINE from == req[c].arg  to == req[c].who  p == PeriodOf(1)
           n == IF Reallocates(from, to, p)
                  THEN <<-Contribution(from, from, p), Contribution(from, to, p)>> ELSE <<0, 0>>
           r == Request("taken", req[c].op, req[c].who, req[c].at, req[c].arg, n, req[c].todo)
<1>1. At(c, "read", "attribute") /\ UNCHANGED <<timeline, attendance, record, sale, today>>
  BY DEF TakeSale, Stay
<1>2. req' = [req EXCEPT ![c].pc = "taken", ![c].read = n]
  BY DEF TakeSale
<1>3. /\ Carried(req[c], timeline, attendance, record) /\ req[c] # Idle /\ req[c].op = "attribute"
      /\ TablesOk(timeline, attendance, record, sale)
  BY <1>1, InFlight
<1>4. c \in DOMAIN req /\ req = [x \in DOMAIN req |-> req[x]] /\ Whole(req[c])
  BY <1>1, InFlight
<1>5. from \in Employees /\ to \in Employees /\ p \in Periods
  BY <1>3, CalendarFacts DEF Carried
<1>6. n # <<0, 0>> => /\ record[from][p] # None /\ record[to][p] # None
                      /\ n[1] \in Int /\ n = <<n[1], -n[1]>>
  <2> SUFFICES ASSUME Reallocates(from, to, p)
               PROVE  /\ record[from][p] # None /\ record[to][p] # None
                      /\ n[1] \in Int /\ n = <<n[1], -n[1]>>
    OBVIOUS
  <2>1. record[from][p] # None /\ record[to][p] # None
    BY DEF Reallocates
  <2>2. record[from][p] \in PayrollRecord
    BY <2>1, <1>3, <1>5, RecordFound
  <2>3. record[from][p].percent \in Nat /\ SaleTotal \in Nat
    BY <2>2, PayrollAssumption DEF PayrollRecord
  <2>4. \A x, y \in Nat : x * y \in Int
    OBVIOUS
  <2>5. SaleTotal * record[from][p].percent \in Int
    BY <2>3, <2>4
  <2>6. PICK k : k = RoundHalfUp(SaleTotal * record[from][p].percent, 100)
    OBVIOUS
  <2>7. k \in Int
    BY <2>5, <2>6, RoundInt
  <2>8. n = <<-k, k>>
    BY <2>6 DEF Contribution
  <2> HIDE DEF n
  <2> QED
    BY <2>1, <2>7, <2>8
<1> HIDE DEF n
<1>7. Carried(r, timeline, attendance, record)
  <2> HIDE DEF PeriodOf
  <2>1. n # <<0, 0>> => /\ record[req[c].arg][PeriodOf(1)] # None /\ record[req[c].who][PeriodOf(1)] # None
                        /\ n[1] \in Int /\ n = <<n[1], -n[1]>>
    BY <1>6
  <2> QED
    BY <1>3, <1>5, <2>1 DEF Carried, Request, Idle
<1>8. [req EXCEPT ![c].pc = "taken", ![c].read = n] = [req EXCEPT ![c] = r]
  BY <1>4, ReadWritten
<1> HIDE DEF r
<1>9. req' = [req EXCEPT ![c] = r]
  BY <1>2, <1>8
<1> QED
  BY <1>1, <1>7, <1>9, PayrollQuietStep

(* What the attribution writes to the two records.                         *)
Moved(r, k) == [r EXCEPT !.moved = @ + k]

WithRecord(rec, e, p, r) == [rec EXCEPT ![e][p] = r]

(* A change of attribution that moves commission writes two records: what  *)
(* one loses the other gets.                                               *)
LEMMA AttributeWrites ==
  ASSUME PayrollInvariant, NEW c \in Callers, Attribute(c), req[c].read # <<0, 0>>
  PROVE  \E k \in Int, r1, r2 \in PayrollRecord, rec \in [Employees -> [Periods -> PayrollRecord \cup {None}]] :
           LET from == req[c].arg  to == req[c].who  p == PeriodOf(1) IN
           /\ from \in Employees /\ to \in Employees /\ p \in Periods
           /\ record[from][p] \in PayrollRecord
           /\ r1 = Moved(record[from][p], k)
           /\ rec = WithRecord(record, from, p, r1)
           /\ rec[to][p] \in PayrollRecord
           /\ r2 = Moved(rec[to][p], -k)
           /\ record' = WithRecord(rec, to, p, r2)
<1> DEFINE from == req[c].arg  to == req[c].who  p == PeriodOf(1)
<1>1. /\ Carried(req[c], timeline, attendance, record) /\ req[c] # Idle /\ req[c].op = "attribute"
      /\ TablesOk(timeline, attendance, record, sale) /\ req[c].pc = "taken"
  BY InFlight DEF Attribute
<1>2. from \in Employees /\ to \in Employees /\ p \in Periods
  BY <1>1, CalendarFacts DEF Carried
<1>3. /\ record[from][p] # None /\ record[to][p] # None
      /\ req[c].read[1] \in Int /\ req[c].read = <<req[c].read[1], -req[c].read[1]>>
  <2> HIDE DEF PeriodOf
  <2> QED BY <1>1 DEF Carried
<1>4. PICK k : k = req[c].read[1]
  OBVIOUS
<1>5. k \in Int /\ req[c].read[1] = k /\ req[c].read[2] = -k
  BY <1>3, <1>4
<1>6. record[from][p] \in PayrollRecord /\ record[to][p] \in PayrollRecord
  BY <1>1, <1>2, <1>3, RecordFound
<1>7. PICK r1 : r1 = [record[from][p] EXCEPT !.moved = @ + k]
  OBVIOUS
<1>8. r1 \in PayrollRecord
  BY <1>5, <1>6, <1>7 DEF PayrollRecord
<1>9. PICK rec : rec = [record EXCEPT ![from][p] = r1]
  OBVIOUS
<1>10. rec \in [Employees -> [Periods -> PayrollRecord \cup {None}]]
  BY <1>1, <1>2, <1>8, <1>9 DEF TablesOk
<1>11. rec[to][p] \in PayrollRecord
  BY <1>1, <1>2, <1>6, <1>8, <1>9 DEF TablesOk
<1>12. PICK r2 : r2 = [rec[to][p] EXCEPT !.moved = @ + (-k)]
  OBVIOUS
<1>13. r2 \in PayrollRecord
  BY <1>5, <1>11, <1>12 DEF PayrollRecord
<1> DEFINE taken == [record EXCEPT ![from][p].moved = @ + req[c].read[1]]
<1>14. record' = [taken EXCEPT ![to][p].moved = @ + req[c].read[2]]
  BY DEF Attribute
<1>15. taken = rec
  BY <1>5, <1>7, <1>9
<1>16. [rec EXCEPT ![to][p].moved = @ + req[c].read[2]] = [rec EXCEPT ![to][p] = r2]
  BY <1>5, <1>12
<1>17. record' = [rec EXCEPT ![to][p] = r2]
  <2> HIDE DEF from, to, p, taken
  <2> QED BY <1>14, <1>15, <1>16
<1>18. r1 = Moved(record[from][p], k) /\ r2 = Moved(rec[to][p], -k)
  BY <1>7, <1>12 DEF Moved
<1>19. rec = WithRecord(record, from, p, r1) /\ record' = WithRecord(rec, to, p, r2)
  BY <1>9, <1>17 DEF WithRecord
<1> QED
  BY <1>2, <1>5, <1>6, <1>8, <1>10, <1>11, <1>13, <1>18, <1>19

(* A change of attribution keeps the invariant, whether it moves           *)
(* commission or only the sale.                                            *)
LEMMA AttributeStep ==
  ASSUME PayrollInvariant, NEW c \in Callers, Attribute(c)
  PROVE  PayrollInvariant'
<1> DEFINE from == req[c].arg  to == req[c].who  p == PeriodOf(1)
<1>1. /\ Finished(c) /\ timeline' = timeline /\ attendance' = attendance
      /\ sale' = [sale EXCEPT !.by = to, !.version = @ + 1]
  BY DEF Attribute
<1>2. TablesOk(timeline, attendance, record, sale)
  BY DEF PayrollInvariant
<1>3. to \in Employees
  BY InFlight DEF Attribute, Carried
<1>4. sale' \in SaleRow
  <2>1. sale \in SaleRow
    BY <1>2 DEF TablesOk
  <2>2. PICK s : s = [sale EXCEPT !.by = to, !.version = sale.version + 1]
    OBVIOUS
  <2>3. s = [by |-> to, version |-> sale.version + 1, refunded |-> sale.refunded,
             refund_by |-> sale.refund_by]
    BY <2>1, <2>2 DEF SaleRow
  <2>4. s \in SaleRow
    BY <1>3, <2>1, <2>3 DEF SaleRow
  <2> QED
    BY <1>1, <2>2, <2>4
<1>5. /\ TablesOk(timeline, attendance, record', sale)
      /\ Kept(timeline, attendance, record, timeline, attendance, record')
  <2>1. CASE req[c].read = <<0, 0>>
    <3>1. record' = record
      BY <2>1 DEF Attribute
    <3> QED
      BY <3>1, <1>2, KeptSelf
  <2>2. CASE req[c].read # <<0, 0>>
    <3>1. PICK k \in Int, r1 \in PayrollRecord, r2 \in PayrollRecord,
               rec \in [Employees -> [Periods -> PayrollRecord \cup {None}]] :
            /\ from \in Employees /\ to \in Employees /\ p \in Periods
            /\ record[from][p] \in PayrollRecord
            /\ r1 = Moved(record[from][p], k)
            /\ rec = WithRecord(record, from, p, r1)
            /\ rec[to][p] \in PayrollRecord
            /\ r2 = Moved(rec[to][p], -k)
            /\ record' = WithRecord(rec, to, p, r2)
      BY <2>2, AttributeWrites
    <3>2. from \in Employees /\ to \in Employees /\ p \in Periods
      BY <3>1
    <3> HIDE DEF from, to, p
    <3>3. record[from][p] # None /\ rec[to][p] # None
      BY <3>1, NoneIsNoRecord
    <3>4. /\ r1.model = record[from][p].model /\ r1.amount = record[from][p].amount
          /\ r2.model = rec[to][p].model /\ r2.amount = rec[to][p].amount
      BY <3>1 DEF Moved, PayrollRecord
    <3>5. Earned(r1, attendance[from], p)
      BY <1>2, <3>2, <3>3, <3>4 DEF Earned, TablesOk
    <3>6. TablesOk(timeline, attendance, rec, sale) /\ Kept(timeline, attendance, record, timeline, attendance, rec)
      BY <1>2, <3>1, <3>2, <3>5, RecordPut DEF WithRecord
    <3>7. Earned(r2, attendance[to], p)
      BY <3>6, <3>2, <3>3, <3>4 DEF Earned, TablesOk
    <3>8. TablesOk(timeline, attendance, record', sale) /\ Kept(timeline, attendance, rec, timeline, attendance, record')
      BY <3>6, <3>1, <3>2, <3>7, RecordPut DEF WithRecord
    <3> QED
      BY <3>6, <3>8 DEF Kept
  <2> QED
    BY <2>1, <2>2
<1>6. TablesOk(timeline', attendance', record', sale')
  BY <1>1, <1>4, <1>5 DEF TablesOk
<1> QED
  BY <1>1, <1>5, <1>6, PayrollLastStep

(* The environment.                                                        *)
LEMMA PayrollWorldSteps ==
  ASSUME PayrollInvariant, Refund \/ NextDay
  PROVE  PayrollInvariant'
<1>1. timeline' = timeline /\ attendance' = attendance /\ record' = record /\ req' = req
  BY DEF Refund, NextDay
<1>2. today' \in Days /\ today \in Nat
  BY PayrollAssumption DEF PayrollInvariant, Days, Refund, NextDay
<1>3. sale' \in SaleRow
  <2>1. sale \in SaleRow
    BY DEF PayrollInvariant, TablesOk
  <2>2. CASE Refund
    <3>1. PICK s : s = [sale EXCEPT !.refunded = today, !.refund_by = sale.by, !.version = sale.version + 1]
      OBVIOUS
    <3>2. s = [by |-> sale.by, version |-> sale.version + 1, refunded |-> today, refund_by |-> sale.by]
      BY <2>1, <3>1 DEF SaleRow
    <3>3. s \in SaleRow
      BY <2>1, <1>2, <3>2 DEF SaleRow
    <3> QED
      BY <2>2, <3>1, <3>3 DEF Refund
  <2>3. CASE NextDay
    BY <2>1, <2>3 DEF NextDay
  <2> QED
    BY <2>2, <2>3
<1> QED
  BY <1>1, <1>2, <1>3 DEF PayrollInvariant, TablesOk

(* The tables of the payroll and what its requests hold stay as described. *)
THEOREM PayrollInvariantHolds == PayrollSpec => []PayrollInvariant
<1>1. ASSUME PayrollInvariant, [PayrollNext]_payrollVars PROVE PayrollInvariant'
  <2>1. ASSUME NEW c \in Callers, Serve(c) PROVE PayrollInvariant'
    BY <1>1, <2>1, ComposeStep, AbandonStep, CompensateStep, AttendStep, HoursSteps, LookUpStep,
       CalculateStep, InsertStep, DoneSteps, PayStep, BulkSteps, LockRecordStep, LedgerSteps,
       TakeSaleStep, AttributeStep DEF Serve
  <2>2. ASSUME UNCHANGED payrollVars PROVE PayrollInvariant'
    BY <1>1, <2>2 DEF PayrollInvariant, payrollVars
  <2> QED
    BY <1>1, <2>1, <2>2, PayrollWorldSteps DEF PayrollNext, PayrollQuiescent
<1> QED
  BY <1>1, PayrollInvariantInit, PTL DEF PayrollSpec

(* However structures are set, one after the other or at once, at most one *)
(* is in force on any day (createEmployeeCompensation).                    *)
THEOREM OneStructurePerDayHolds == PayrollSpec => []OneStructurePerDay
<1>1. ASSUME PayrollInvariant PROVE OneStructurePerDay
  <2> SUFFICES ASSUME NEW e \in Employees, NEW d \in 0..MaxDay
               PROVE  Cardinality(InForce(e, d)) <= 1
    BY DEF OneStructurePerDay
  <2>1. d \in Nat
    BY PayrollAssumption
  <2>2. \A i, j \in InForce(e, d) : i = j
    BY <1>1, <2>1, InForceOne DEF PayrollInvariant
  <2>3. CASE InForce(e, d) = {}
    BY <2>3, FS_EmptySet
  <2>4. CASE InForce(e, d) # {}
    <3>1. PICK i \in InForce(e, d) : TRUE
      BY <2>4
    <3>2. InForce(e, d) = {i}
      BY <2>2, <3>1
    <3> QED
      BY <3>2, FS_Singleton
  <2> QED
    BY <2>3, <2>4
<1> QED
  BY <1>1, PayrollInvariantHolds, PTL

(* Hours nobody approved are never paid (recordSelfAttendance,             *)
(* getApprovedHoursForPeriod).                                             *)
THEOREM ApprovedHoursPaidHolds == PayrollSpec => []ApprovedHoursPaid
<1>1. ASSUME PayrollInvariant PROVE ApprovedHoursPaid
  BY <1>1 DEF PayrollInvariant, TablesOk, Earned, ApprovedDay, ApprovedHoursPaid, Approved
<1> QED
  BY <1>1, PayrollInvariantHolds, PTL

(* The writes of a record but those of the attribution.                    *)
NewRecord(old, r) == old = None /\ r.moved = 0 /\ r.status = "pending"

PaidRecord(old, r) ==
  /\ old \in PayrollRecord /\ old.status = "pending"
  /\ r.amount = old.amount /\ r.model = old.model /\ r.moved = old.moved
  /\ r.adjusted = old.adjusted /\ r.reversed = old.reversed
  /\ r.status = "paid" /\ r.receipt = r.amount

LedgerRecord(old, r, adjusted, reversed) ==
  /\ old \in PayrollRecord
  /\ r.amount = old.amount /\ r.model = old.model /\ r.moved = old.moved
  /\ r.status = old.status /\ r.receipt = old.receipt
  /\ r.adjusted = old.adjusted + adjusted /\ r.reversed = old.reversed + reversed

OneWrite(c, e, p, r) ==
  /\ record' = WithRecord(record, e, p, r)
  /\ \/ NewRecord(record[e][p], r)
     \/ PaidRecord(record[e][p], r)
     \/ Adjust(c) /\ RecordFree(e, p) /\ LedgerRecord(record[e][p], r, req[c].arg, 0)
     \/ Reverse(c) /\ e = req[c].who /\ p = req[c].at /\ LedgerRecord(record[e][p], r, 0, req[c].arg)

(* Paying is one write of the record.                                      *)
LEMMA PaidWrite ==
  ASSUME TablesOk(timeline, attendance, record, sale), NEW c, NEW e \in Employees, NEW p \in Periods,
         record[e][p] # None, record[e][p].status = "pending",
         record' = [record EXCEPT ![e][p] = PaidRow(record[e][p])]
  PROVE  \E r \in PayrollRecord : OneWrite(c, e, p, r)
<1>1. record[e][p] \in PayrollRecord
  BY RecordFound
<1>2. PICK r : r = PaidRow(record[e][p])
  OBVIOUS
<1>3. r \in PayrollRecord /\ PaidRecord(record[e][p], r)
  BY <1>1, <1>2, PaidRowFacts DEF PaidRecord
<1>4. record' = WithRecord(record, e, p, r)
  BY <1>2 DEF WithRecord
<1> QED
  BY <1>3, <1>4 DEF OneWrite

(* Every other step writes one record or none.                             *)
LEMMA RecordWrites ==
  ASSUME PayrollInvariant, NEW c \in Callers, Serve(c), ~Attribute(c)
  PROVE  \/ record' = record
         \/ \E e \in Employees, p \in Periods : \E r \in PayrollRecord : OneWrite(c, e, p, r)
<1>1. TablesOk(timeline, attendance, record, sale)
  BY DEF PayrollInvariant
<1>2. CASE Insert(c)
  <2> DEFINE e == req[c].who  p == req[c].at  read == req[c].read
             new == [amount |-> read.amount, model |-> read.model, percent |-> read.percent,
                     status |-> "pending", version |-> 0, receipt |-> None, adjusted |-> 0,
                     moved |-> 0, reversed |-> 0]
  <2>1. /\ Carried(req[c], timeline, attendance, record) /\ req[c] # Idle /\ req[c].op = "generate"
        /\ req[c].pc = "calculated"
    BY <1>2, InFlight DEF Insert
  <2>2. /\ e \in Employees /\ p \in Periods
        /\ read.amount \in Int /\ read.model \in CompensationModels /\ read.percent \in Nat
    BY <2>1 DEF Carried
  <2>3. new \in PayrollRecord /\ new.moved = 0 /\ new.status = "pending"
    BY <2>2 DEF PayrollRecord
  <2>4. record' = [record EXCEPT ![e][p] = IF record[e][p] = None THEN new ELSE record[e][p]]
    BY <1>2 DEF Insert, Inserted
  <2> HIDE DEF new, e, p, read
  <2>5. CASE record[e][p] # None
    <3>1. record' = record
      BY <1>1, <2>2, <2>4, <2>5 DEF TablesOk
    <3> QED
      BY <3>1
  <2>6. CASE record[e][p] = None
    <3>1. record' = WithRecord(record, e, p, new)
      BY <2>4, <2>6 DEF WithRecord
    <3>2. NewRecord(record[e][p], new)
      BY <2>3, <2>6 DEF NewRecord
    <3>3. OneWrite(c, e, p, new)
      BY <3>1, <3>2 DEF OneWrite
    <3> QED
      BY <2>2, <2>3, <3>3
  <2> QED
    BY <2>5, <2>6
<1>3. CASE Pay(c)
  <2>1. req[c].who \in Employees /\ req[c].at \in Periods /\ record[req[c].who][req[c].at] # None
    BY <1>3, InFlight DEF Pay, Carried
  <2>2. record' = [record EXCEPT ![req[c].who][req[c].at] = PaidRow(record[req[c].who][req[c].at])]
    BY <1>3 DEF Pay
  <2>3. record[req[c].who][req[c].at].status = "pending"
    BY <1>3 DEF Pay, Payable
  <2> QED
    BY <1>1, <2>1, <2>2, <2>3, PaidWrite
<1>4. CASE PayListed(c)
  <2>1. PICK x \in req[c].todo :
          record' = [record EXCEPT ![x.who][x.at] =
                IF Payable(record[x.who][x.at], x.version) THEN PaidRow(record[x.who][x.at])
                ELSE record[x.who][x.at]]
    BY <1>4 DEF PayListed
  <2>2. x.who \in Employees /\ x.at \in Periods /\ record[x.who][x.at] # None
    BY <1>4, InFlight DEF PayListed, Carried
  <2>3. CASE Payable(record[x.who][x.at], x.version)
    <3>1. record' = [record EXCEPT ![x.who][x.at] = PaidRow(record[x.who][x.at])]
      BY <2>1, <2>3
    <3>2. record[x.who][x.at].status = "pending"
      BY <2>3 DEF Payable
    <3> QED
      BY <1>1, <2>2, <3>1, <3>2, PaidWrite
  <2>4. CASE ~Payable(record[x.who][x.at], x.version)
    <3>1. record' = record
      BY <1>1, <2>1, <2>2, <2>4 DEF TablesOk
    <3> QED
      BY <3>1
  <2> QED
    BY <2>3, <2>4
<1>5. CASE Reverse(c) \/ Adjust(c)
  <2> DEFINE e == req[c].who  p == req[c].at  n == req[c].arg
  <2>1. e \in Employees /\ p \in Periods /\ n \in Int /\ record[e][p] # None
    <3>1. /\ Carried(req[c], timeline, attendance, record) /\ req[c] # Idle
          /\ req[c].op \in {"reverse", "adjust"}
      BY <1>5, InFlight DEF Reverse, Adjust
    <3> QED
      BY <3>1 DEF Carried
  <2>2. record[e][p] \in PayrollRecord
    BY <1>1, <2>1, RecordFound
  <2>3. CASE Reverse(c)
    <3>1. PICK r : r = [record[e][p] EXCEPT !.reversed = @ + n]
      OBVIOUS
    <3>0. /\ r \in PayrollRecord
          /\ r.amount = record[e][p].amount /\ r.model = record[e][p].model
          /\ r.moved = record[e][p].moved /\ r.status = record[e][p].status
          /\ r.receipt = record[e][p].receipt /\ r.adjusted = record[e][p].adjusted
          /\ r.reversed = record[e][p].reversed + n
      BY <2>1, <2>2, <3>1 DEF PayrollRecord
    <3>2. r \in PayrollRecord /\ LedgerRecord(record[e][p], r, 0, n)
      <4>1. record[e][p].adjusted \in Int /\ record[e][p].reversed \in Int
        BY <2>2 DEF PayrollRecord
      <4> HIDE DEF e, p, n
      <4> QED BY <2>2, <3>0, <4>1 DEF LedgerRecord
    <3>3. record' = WithRecord(record, e, p, r)
      BY <2>3, <3>1 DEF Reverse, WithRecord
    <3>4. OneWrite(c, e, p, r)
      BY <2>3, <3>2, <3>3 DEF OneWrite
    <3> QED
      BY <2>1, <3>2, <3>4
  <2>4. CASE Adjust(c)
    <3>1. PICK r : r = [record[e][p] EXCEPT !.adjusted = @ + n]
      OBVIOUS
    <3>0. /\ r \in PayrollRecord
          /\ r.amount = record[e][p].amount /\ r.model = record[e][p].model
          /\ r.moved = record[e][p].moved /\ r.status = record[e][p].status
          /\ r.receipt = record[e][p].receipt /\ r.reversed = record[e][p].reversed
          /\ r.adjusted = record[e][p].adjusted + n
      BY <2>1, <2>2, <3>1 DEF PayrollRecord
    <3>2. r \in PayrollRecord /\ LedgerRecord(record[e][p], r, n, 0)
      <4>1. record[e][p].adjusted \in Int /\ record[e][p].reversed \in Int
        BY <2>2 DEF PayrollRecord
      <4> HIDE DEF e, p, n
      <4> QED BY <2>2, <3>0, <4>1 DEF LedgerRecord
    <3>3. record' = WithRecord(record, e, p, r)
      BY <2>4, <3>1 DEF Adjust, WithRecord
    <3>4. RecordFree(e, p)
      BY <2>4 DEF Adjust
    <3>5. OneWrite(c, e, p, r)
      BY <2>4, <3>2, <3>3, <3>4 DEF OneWrite
    <3> QED
      BY <2>1, <3>2, <3>5
  <2> QED
    BY <1>5, <2>3, <2>4
<1>6. CASE ~(Insert(c) \/ Pay(c) \/ PayListed(c) \/ Reverse(c) \/ Adjust(c))
  BY <1>6 DEF Serve, Compose, Ask, Abandon, Compensate, Attend, ReadHours, CorrectHours, LookUp,
              Calculate, GenerateDone, ListPending, BulkDone, LockRecord, TakeSale
<1> QED
  BY <1>2, <1>3, <1>4, <1>5, <1>6

(* What was moved to and from the employees, in one period.                *)
MovedIn(rec, p) == [e \in Employees |-> IF rec[e][p] = None THEN 0 ELSE rec[e][p].moved]

(* Writing one record changes the total by what its own column changes.    *)
LEMMA MovedPut ==
  ASSUME NEW rec \in [Employees -> [Periods -> PayrollRecord \cup {None}]],
         NEW e \in Employees, NEW p \in Periods, NEW r \in PayrollRecord, NEW q \in Periods
  PROVE  /\ Sum(MovedIn(rec, q), Employees) \in Int
         /\ Sum(MovedIn(WithRecord(rec, e, p, r), q), Employees)
              = Sum(MovedIn(rec, q), Employees) + (IF q = p THEN r.moved - MovedIn(rec, p)[e] ELSE 0)
<1> DEFINE rec2 == WithRecord(rec, e, p, r)  f == MovedIn(rec, q)  g == MovedIn(rec2, q)
<1>1. IsFiniteSet(Employees)
  BY PayrollAssumption
<1>2. /\ rec2 \in [Employees -> [Periods -> PayrollRecord \cup {None}]] /\ rec2[e][p] = r
      /\ \A x \in Employees : x # e \/ q # p => rec2[x][q] = rec[x][q]
  BY DEF WithRecord
<1> HIDE DEF rec2
<1>3. r # None
  BY NoneIsNoRecord
<1>4. /\ \A x \in Employees : f[x] \in Int /\ g[x] \in Int
      /\ \A x \in Employees \ {e} : g[x] = f[x]
      /\ g[e] = IF q = p THEN r.moved ELSE f[e]
      /\ f[e] = MovedIn(rec, q)[e] /\ f[e] \in Int /\ r.moved \in Int
  BY <1>2, <1>3 DEF MovedIn, PayrollRecord
<1> HIDE DEF f, g
<1>5. Sum(f, Employees) \in Int /\ Sum(g, Employees) = Sum(f, Employees) + (g[e] - f[e])
  BY <1>1, <1>4, SumChange
<1>6. g[e] - f[e] = IF q = p THEN r.moved - MovedIn(rec, p)[e] ELSE 0
  BY <1>4
<1> QED
  BY <1>5, <1>6 DEF f, g, rec2

(* Moving a sale takes from the one what it gives to the other             *)
(* (setSaleAttribution).                                                   *)
THEOREM CommissionConservedHolds == PayrollSpec => []CommissionConserved
<1>1. CommissionConserved <=> \A q \in Periods : Sum(MovedIn(record, q), Employees) = 0
  BY DEF CommissionConserved, MovedIn
<1>2. CommissionConserved' <=> \A q \in Periods : Sum(MovedIn(record', q), Employees) = 0
  BY DEF CommissionConserved, MovedIn
<1>3. PayrollInit => CommissionConserved
  <2> SUFFICES ASSUME PayrollInit, NEW q \in Periods PROVE Sum(MovedIn(record, q), Employees) = 0
    BY <1>1
  <2>1. IsFiniteSet(Employees) /\ \A e \in Employees : MovedIn(record, q)[e] = 0
    BY PayrollAssumption DEF MovedIn, PayrollInit
  <2> QED
    BY <2>1, SumZero
<1>4. ASSUME PayrollInvariant, CommissionConserved, [PayrollNext]_payrollVars
      PROVE  CommissionConserved'
  <2>1. record \in [Employees -> [Periods -> PayrollRecord \cup {None}]]
    BY <1>4 DEF PayrollInvariant, TablesOk
  <2>2. ASSUME record' = record PROVE CommissionConserved'
    BY <1>1, <1>2, <1>4, <2>2
  <2>3. ASSUME NEW c \in Callers, Serve(c), ~Attribute(c) PROVE CommissionConserved'
    <3>1. ASSUME NEW e \in Employees, NEW p \in Periods, NEW r \in PayrollRecord, OneWrite(c, e, p, r)
          PROVE  CommissionConserved'
      <4>1. r.moved = MovedIn(record, p)[e] /\ r.moved \in Int
        BY <3>1, NoneIsNoRecord DEF OneWrite, NewRecord, PaidRecord, LedgerRecord, MovedIn, PayrollRecord
      <4>2. record' = WithRecord(record, e, p, r)
        BY <3>1 DEF OneWrite
      <4>3. ASSUME NEW q \in Periods PROVE Sum(MovedIn(record', q), Employees) = 0
        <5>1. Sum(MovedIn(record, q), Employees) = 0
          BY <1>1, <1>4
        <5> QED
          BY <2>1, <4>1, <4>2, <5>1, MovedPut
      <4> QED
        BY <1>2, <4>3
    <3> QED
      BY <1>4, <2>2, <2>3, <3>1, RecordWrites
  <2>4. ASSUME NEW c \in Callers, Attribute(c) PROVE CommissionConserved'
    <3>1. CASE req[c].read = <<0, 0>>
      BY <2>2, <2>4, <3>1 DEF Attribute
    <3>2. CASE req[c].read # <<0, 0>>
      <4> DEFINE from == req[c].arg  to == req[c].who  p == PeriodOf(1)
      <4>1. PICK k \in Int, r1 \in PayrollRecord, r2 \in PayrollRecord,
                 rec \in [Employees -> [Periods -> PayrollRecord \cup {None}]] :
              /\ from \in Employees /\ to \in Employees /\ p \in Periods
              /\ record[from][p] \in PayrollRecord
              /\ r1 = Moved(record[from][p], k)
              /\ rec = WithRecord(record, from, p, r1)
              /\ rec[to][p] \in PayrollRecord
              /\ r2 = Moved(rec[to][p], -k)
              /\ record' = WithRecord(rec, to, p, r2)
        BY <1>4, <2>4, <3>2, AttributeWrites
      <4>2. from \in Employees /\ to \in Employees /\ p \in Periods
        BY <4>1
      <4> HIDE DEF from, to, p
      <4>3. /\ r1.moved = MovedIn(record, p)[from] + k /\ MovedIn(record, p)[from] \in Int
            /\ r2.moved = MovedIn(rec, p)[to] - k /\ MovedIn(rec, p)[to] \in Int
        BY <4>1, <4>2, NoneIsNoRecord DEF Moved, MovedIn, PayrollRecord
      <4>4. ASSUME NEW q \in Periods PROVE Sum(MovedIn(record', q), Employees) = 0
        <5>1. Sum(MovedIn(record, q), Employees) = 0
          BY <1>1, <1>4
        <5>2. Sum(MovedIn(rec, q), Employees) = IF q = p THEN k ELSE 0
          BY <2>1, <4>1, <4>2, <4>3, <5>1, MovedPut
        <5>3. Sum(MovedIn(record', q), Employees)
                = Sum(MovedIn(rec, q), Employees) + (IF q = p THEN r2.moved - MovedIn(rec, p)[to] ELSE 0)
          BY <4>1, <4>2, MovedPut
        <5> QED
          BY <4>3, <5>2, <5>3
      <4> QED
        BY <1>2, <4>4
    <3> QED
      BY <3>1, <3>2
  <2>5. ASSUME Refund \/ NextDay \/ UNCHANGED payrollVars PROVE CommissionConserved'
    BY <2>2, <2>5 DEF Refund, NextDay, payrollVars
  <2> QED
    BY <1>4, <2>3, <2>4, <2>5 DEF PayrollNext, PayrollQuiescent
<1> QED
  BY <1>3, <1>4, PayrollInvariantHolds, PTL DEF PayrollSpec

(* Only taking the lock makes a request hold it.                           *)
LEMMA LockedByLock ==
  ASSUME PayrollInvariant, NEW c \in Callers, Serve(c), ~LockRecord(c)
  PROVE  req'[c].pc # "locked" /\ \A d \in Callers \ {c} : req'[d] = req[d]
<1> DEFINE Written(a, b) == req' = [req EXCEPT ![c].pc = a, ![c].read = b]
<1>1. DOMAIN req = Callers /\ req = [x \in Callers |-> req[x]]
  BY DEF PayrollInvariant
<1>2. ASSUME NEW r, req' = [req EXCEPT ![c] = r], r.pc # "locked"
      PROVE  req'[c].pc # "locked" /\ \A d \in Callers \ {c} : req'[d] = req[d]
  BY <1>1, <1>2
<1>3. CASE Finished(c) \/ Abandon(c)
  <2>1. req' = [req EXCEPT ![c] = Idle] /\ Idle.pc # "locked"
    BY <1>3 DEF Finished, Abandon, Idle
  <2> QED
    BY <1>2, <2>1
<1>4. CASE Compose(c)
  <2>1. PICK r : r.pc = "read" /\ Ask(c, r)
    <3>1. \A op, e, at, arg : Asked(op, e, at, arg).pc = "read"
      BY DEF Asked
    <3>2. \A p : [Asked("generate", None, p, None) EXCEPT !.todo = Employees].pc = "read"
      BY DEF Asked
    <3>3. \/ \E op, e, at, arg : Ask(c, Asked(op, e, at, arg))
          \/ \E p : Ask(c, [Asked("generate", None, p, None) EXCEPT !.todo = Employees])
      BY <1>4, Zenon DEF Compose
    <3> QED
      BY <3>1, <3>2, <3>3, Zenon
  <2> QED
    BY <1>2, <2>1 DEF Ask
<1>5. ASSUME NEW a, NEW b, Written(a, b), a # "locked", Whole(req[c])
      PROVE  req'[c].pc # "locked" /\ \A d \in Callers \ {c} : req'[d] = req[d]
  <2> DEFINE r == Request(a, req[c].op, req[c].who, req[c].at, req[c].arg, b, req[c].todo)
  <2>1. [req EXCEPT ![c].pc = a, ![c].read = b] = [req EXCEPT ![c] = r]
    BY <1>1, <1>5, ReadWritten
  <2>2. r.pc = a
    BY DEF Request
  <2> HIDE DEF r
  <2>3. req' = [req EXCEPT ![c] = r]
    BY <1>5, <2>1
  <2> QED
    BY <1>2, <1>5, <2>2, <2>3
<1> HIDE DEF Written
<1>6. Whole(req[c])
  BY DEF PayrollInvariant, Carried, Whole, Request
<1>7. CASE ReadHours(c)
  <2>1. Written("checked", DayHours(req[c].who, req[c].at))
    BY <1>7 DEF ReadHours, Written
  <2> QED
    BY <1>5, <1>6, <2>1
<1>8. CASE Calculate(c)
  <2>1. \E b : Written("calculated", b)
    BY <1>8 DEF Calculate, Written
  <2> QED
    BY <1>5, <1>6, <2>1
<1>9. CASE TakeSale(c)
  <2>1. \E b : Written("taken", b)
    BY <1>9 DEF TakeSale, Written
  <2> QED
    BY <1>5, <1>6, <2>1
<1>10. CASE LookUp(c)
  <2>1. req[c].pc = "read"
    BY <1>10 DEF LookUp, At
  <2>2. PICK e, n, one : LET rest == [req[c] EXCEPT !.todo = req[c].todo \ {e}] IN
          req' = [req EXCEPT ![c] = IF one THEN rest
                                    ELSE [rest EXCEPT !.pc = "found", !.who = e, !.arg = n]]
    BY <1>10 DEF LookUp
  <2> DEFINE rest == [req[c] EXCEPT !.todo = req[c].todo \ {e}]
             r1 == Request("read", req[c].op, req[c].who, req[c].at, req[c].arg, req[c].read, req[c].todo \ {e})
             x1 == Request("found", req[c].op, req[c].who, req[c].at, req[c].arg, req[c].read, req[c].todo \ {e})
             x2 == Request("found", req[c].op, e, req[c].at, req[c].arg, req[c].read, req[c].todo \ {e})
             r2 == Request("found", req[c].op, e, req[c].at, n, req[c].read, req[c].todo \ {e})
  <2>3. rest = r1
    BY <1>6, <2>1 DEF Whole, Request
  <2>4. [r1 EXCEPT !.pc = "found"] = x1
    BY DEF Request
  <2>5. [x1 EXCEPT !.who = e] = x2
    BY DEF Request
  <2>6. [x2 EXCEPT !.arg = n] = r2
    BY DEF Request
  <2>7. r1.pc = "read" /\ r2.pc = "found"
    BY DEF Request
  <2> HIDE DEF r1, x1, x2, r2
  <2>8. [r1 EXCEPT !.pc = "found", !.who = e, !.arg = n] = r2
    BY <2>4, <2>5, <2>6
  <2>9. CASE one
    BY <1>2, <2>2, <2>3, <2>7, <2>9
  <2>10. CASE ~one
    <3>1. req' = [req EXCEPT ![c] = [rest EXCEPT !.pc = "found", !.who = e, !.arg = n]]
      BY <2>2, <2>10
    <3> HIDE DEF rest
    <3>2. req' = [req EXCEPT ![c] = r2]
      BY <2>3, <2>8, <3>1
    <3> QED
      BY <1>2, <2>7, <3>2
  <2> QED
    BY <2>9, <2>10
<1>11. CASE Insert(c)
  <2> DEFINE r == Request("read", req[c].op, None, req[c].at, None, None, req[c].todo)
  <2>1. req' = [req EXCEPT ![c].pc = "read", ![c].who = None, ![c].arg = None, ![c].read = None]
    BY <1>11 DEF Insert
  <2>2. [req EXCEPT ![c].pc = "read", ![c].who = None, ![c].arg = None, ![c].read = None]
          = [req EXCEPT ![c] = r]
    BY <1>1, <1>6, AnotherFields
  <2>3. r.pc = "read"
    BY DEF Request
  <2> HIDE DEF r
  <2> QED
    BY <1>2, <2>1, <2>2, <2>3
<1>12. CASE ListPending(c)
  <2>1. PICK list : req' = [req EXCEPT ![c].pc = "listed", ![c].todo = list]
    BY <1>12 DEF ListPending
  <2> DEFINE r0 == Request("listed", req[c].op, req[c].who, req[c].at, req[c].arg, req[c].read, req[c].todo)
             r == Request("listed", req[c].op, req[c].who, req[c].at, req[c].arg, req[c].read, list)
  <2>2. [req[c] EXCEPT !.pc = "listed"] = r0
    BY <1>6 DEF Request, Whole
  <2>3. [req EXCEPT ![c].pc = "listed"] = [req EXCEPT ![c] = r0]
    BY <2>2
  <2>4. [r0 EXCEPT !.todo = list] = r
    BY DEF Request
  <2>5. [[req EXCEPT ![c] = r0] EXCEPT ![c].todo = list] = [req EXCEPT ![c] = r]
    BY <1>1, <2>4
  <2>6. r.pc = "listed"
    BY DEF Request
  <2> HIDE DEF r0, r
  <2>7. req' = [req EXCEPT ![c] = r]
    BY <2>1, <2>3, <2>5
  <2> QED
    BY <1>2, <2>6, <2>7
<1>13. CASE PayListed(c)
  <2>1. PICK x : req' = [req EXCEPT ![c].todo = req[c].todo \ {x}]
    BY <1>13 DEF PayListed
  <2> DEFINE r == Request("listed", req[c].op, req[c].who, req[c].at, req[c].arg, req[c].read, req[c].todo \ {x})
  <2>2. req[c].pc = "listed"
    BY <1>13 DEF PayListed, At
  <2>3. [req[c] EXCEPT !.todo = req[c].todo \ {x}] = r
    BY <1>6, <2>2 DEF Whole, Request
  <2>4. r.pc = "listed"
    BY DEF Request
  <2> HIDE DEF r
  <2>5. req' = [req EXCEPT ![c] = r]
    BY <2>1, <2>3
  <2> QED
    BY <1>2, <2>4, <2>5
<1> QED
  BY <1>3, <1>4, <1>7, <1>8, <1>9, <1>10, <1>11, <1>12, <1>13
     DEF Serve, Compensate, Attend, CorrectHours, GenerateDone, Pay, BulkDone, Reverse, Adjust, Attribute

(* The lock on a record: one reversal at a time holds it, with its sum.    *)
LEMMA LockedSumStep ==
  ASSUME PayrollInvariant, PayrollInvariant', LockedSum, [PayrollNext]_payrollVars
  PROVE  LockedSum'
<1> USE DEF LockedSum, LockedSums, HoldsRecord, At, Holds
<1>0. record \in [Employees -> [Periods -> PayrollRecord \cup {None}]]
  BY DEF PayrollInvariant, TablesOk
<1>1. ASSUME req' = req, record' = record PROVE LockedSum'
  BY <1>1
<1>2. ASSUME NEW c \in Callers, LockRecord(c) PROVE LockedSum'
  <2> DEFINE n == Effective(record[req[c].who][req[c].at])
             r == Request("locked", req[c].op, req[c].who, req[c].at, req[c].arg, n, req[c].todo)
  <2>1. DOMAIN req = Callers /\ req = [x \in Callers |-> req[x]] /\ Whole(req[c])
    BY DEF PayrollInvariant, Carried, Whole, Request
  <2>2. req' = [req EXCEPT ![c].pc = "locked", ![c].read = n] /\ record' = record
    BY <1>2 DEF LockRecord
  <2>3. RecordFree(req[c].who, req[c].at)
    BY <1>2 DEF LockRecord
  <2>4. r.who = req[c].who /\ r.at = req[c].at /\ r.read = n /\ r.pc = "locked" /\ r.op = req[c].op
    BY DEF Request
  <2> HIDE DEF n
  <2>5. [req EXCEPT ![c].pc = "locked", ![c].read = n] = [req EXCEPT ![c] = r]
    BY <2>1, ReadWritten
  <2> HIDE DEF r
  <2>6. req'[c] = r /\ \A d \in Callers \ {c} : req'[d] = req[d]
    BY <2>1, <2>2, <2>5
  <2>7. ASSUME NEW d \in Callers, HoldsRecord(req'[d])
        PROVE  /\ req'[d].read = Effective(record'[req'[d].who][req'[d].at])
               /\ \A x \in Callers : HoldsRecord(req'[x]) /\ req'[x].who = req'[d].who
                                      /\ req'[x].at = req'[d].at => x = d
    <3>0. ASSUME NEW x \in Callers \ {c}, HoldsRecord(req'[x])
          PROVE  ~(req'[x].who = req[c].who /\ req'[x].at = req[c].at)
      <4>1. req'[x] = req[x]
        BY <2>6
      <4> QED
        BY <4>1, <3>0, <2>3 DEF RecordFree
    <3>1. CASE d = c
      <4>1. req'[d].who = req[c].who /\ req'[d].at = req[c].at /\ req'[d].read = n
        BY <3>1, <2>4, <2>6
      <4>2. req'[d].read = Effective(record'[req'[d].who][req'[d].at])
        BY <4>1, <2>2 DEF n
      <4> QED
        BY <3>0, <3>1, <4>1, <4>2
    <3>2. CASE d # c
      <4>1. req'[d] = req[d] /\ At(d, "locked", "reverse")
        BY <2>6, <2>7, <3>2
      <4>2. ~(req[d].who = req[c].who /\ req[d].at = req[c].at)
        BY <4>1, <2>3 DEF RecordFree
      <4>3. req'[d].read = Effective(record'[req'[d].who][req'[d].at])
        BY <4>1, <2>2
      <4>4. ASSUME NEW x \in Callers, HoldsRecord(req'[x]), req'[x].who = req'[d].who,
                   req'[x].at = req'[d].at
            PROVE  x = d
        <5>1. x # c
          BY <4>1, <4>2, <4>4, <2>4, <2>6
        <5>2. req'[x] = req[x]
          BY <5>1, <2>6
        <5> QED
          BY <4>1, <4>4, <5>2
      <4> QED
        BY <4>3, <4>4
    <3> QED
      BY <3>1, <3>2
  <2> QED
    BY <2>7
<1>3. ASSUME NEW c \in Callers, Serve(c), ~LockRecord(c) PROVE LockedSum'
  <2>1. req'[c].pc # "locked" /\ \A d \in Callers \ {c} : req'[d] = req[d]
    BY <1>3, LockedByLock
  <2>2. ASSUME NEW d \in Callers \ {c}, At(d, "locked", "reverse")
        PROVE  Effective(record'[req[d].who][req[d].at]) = Effective(record[req[d].who][req[d].at])
    <3> DEFINE e == req[d].who  p == req[d].at
    <3>1. e \in Employees /\ p \in Periods /\ record[e][p] # None
      BY <2>2, InFlight DEF Carried
    <3>2. ~RecordFree(e, p) /\ ~(At(c, "locked", "reverse") /\ req[c].who = e /\ req[c].at = p)
      BY <2>2 DEF RecordFree
    <3> HIDE DEF e, p
    <3>3. CASE record' = record
      BY <3>3
    <3>4. ASSUME NEW e2 \in Employees, NEW p2 \in Periods, NEW r \in PayrollRecord, OneWrite(c, e2, p2, r)
          PROVE  Effective(record'[e][p]) = Effective(record[e][p])
      <4>1. CASE e2 = e /\ p2 = p
        <5>1. PaidRecord(record[e][p], r)
          BY <3>1, <3>2, <3>4, <4>1 DEF OneWrite, NewRecord, Reverse
        <5>2. record'[e][p] = r
          BY <1>0, <3>1, <3>4, <4>1 DEF OneWrite, WithRecord
        <5> QED
          BY <5>1, <5>2 DEF PaidRecord, Effective
      <4>2. CASE ~(e2 = e /\ p2 = p)
        <5>1. record'[e][p] = record[e][p]
          BY <1>0, <3>1, <3>4, <4>2 DEF OneWrite, WithRecord
        <5> QED
          BY <5>1
      <4> QED
        BY <4>1, <4>2
    <3>5. CASE Attribute(c) /\ req[c].read # <<0, 0>>
      <4> DEFINE from == req[c].arg  to == req[c].who  q == PeriodOf(1)
      <4>1. PICK k \in Int, r1 \in PayrollRecord, r2 \in PayrollRecord,
                 rec \in [Employees -> [Periods -> PayrollRecord \cup {None}]] :
              /\ from \in Employees /\ to \in Employees /\ q \in Periods
              /\ record[from][q] \in PayrollRecord
              /\ r1 = Moved(record[from][q], k)
              /\ rec = WithRecord(record, from, q, r1)
              /\ rec[to][q] \in PayrollRecord
              /\ r2 = Moved(rec[to][q], -k)
              /\ record' = WithRecord(rec, to, q, r2)
        BY <3>5, AttributeWrites
      <4>2. RecordFree(from, q) /\ RecordFree(to, q)
        BY <3>5 DEF Attribute
      <4> HIDE DEF from, to, q
      <4>3. ~(e = from /\ p = q) /\ ~(e = to /\ p = q)
        BY <3>2, <4>2
      <4>4. rec[e][p] = record[e][p]
        BY <1>0, <3>1, <4>1, <4>3 DEF WithRecord
      <4>5. record'[e][p] = rec[e][p]
        BY <3>1, <4>1, <4>3 DEF WithRecord
      <4> QED
        BY <4>4, <4>5 DEF e, p
    <3>6. CASE Attribute(c) /\ req[c].read = <<0, 0>>
      BY <3>3, <3>6 DEF Attribute
    <3> QED
      BY <1>3, <3>3, <3>4, <3>5, <3>6, RecordWrites DEF e, p
  <2> QED
    BY <2>1, <2>2
<1>4. ASSUME Refund \/ NextDay \/ UNCHANGED payrollVars PROVE LockedSum'
  BY <1>1, <1>4 DEF Refund, NextDay, payrollVars
<1> QED
  BY <1>2, <1>3, <1>4 DEF PayrollNext, PayrollQuiescent

(* What a reversal has read under its lock is what the record still comes  *)
(* to.                                                                     *)
LEMMA LockedSumHolds == PayrollSpec => []LockedSum
<1>1. PayrollInit => LockedSum
  BY DEF PayrollInit, LockedSum, LockedSums, HoldsRecord, Idle
<1> QED
  BY <1>1, LockedSumStep, PayrollInvariantHolds, PTL DEF PayrollSpec

(* No reversal takes what was paid below zero (createPayrollReversal).     *)
THEOREM ReversalsBoundedHolds == PayrollSpec => ReversalsBounded
<1> DEFINE Bounded == \A e \in Employees, p \in Periods :
                        LET old == record[e][p]  new == record'[e][p] IN
                        old # None /\ new.reversed # old.reversed => Effective(new) >= 0
<1>1. ASSUME PayrollInvariant, LockedSum, [PayrollNext]_payrollVars
      PROVE  Bounded
  <2> SUFFICES ASSUME NEW e \in Employees, NEW p \in Periods, record[e][p] # None,
                      record'[e][p].reversed # record[e][p].reversed
               PROVE  Effective(record'[e][p]) >= 0
    OBVIOUS
  <2>0. record \in [Employees -> [Periods -> PayrollRecord \cup {None}]]
    BY <1>1 DEF PayrollInvariant, TablesOk
  <2>1. record' # record
    OBVIOUS
  <2>2. PICK c \in Callers : Serve(c)
    BY <1>1, <2>1 DEF PayrollNext, PayrollQuiescent, Refund, NextDay, payrollVars
  <2>3. CASE Attribute(c)
    <3>1. req[c].read # <<0, 0>>
      BY <2>1, <2>3 DEF Attribute
    <3> DEFINE from == req[c].arg  to == req[c].who  q == PeriodOf(1)
    <3>2. PICK k \in Int, r1 \in PayrollRecord, r2 \in PayrollRecord,
               rec \in [Employees -> [Periods -> PayrollRecord \cup {None}]] :
            /\ from \in Employees /\ to \in Employees /\ q \in Periods
            /\ record[from][q] \in PayrollRecord
            /\ r1 = Moved(record[from][q], k)
            /\ rec = WithRecord(record, from, q, r1)
            /\ rec[to][q] \in PayrollRecord
            /\ r2 = Moved(rec[to][q], -k)
            /\ record' = WithRecord(rec, to, q, r2)
      BY <1>1, <2>3, <3>1, AttributeWrites
    <3>3. r1.reversed = record[from][q].reversed /\ r2.reversed = rec[to][q].reversed
      BY <3>2 DEF Moved, PayrollRecord
    <3> HIDE DEF from, to, q
    <3>4. rec[e][p].reversed = record[e][p].reversed
      BY <2>0, <3>2, <3>3 DEF WithRecord
    <3>5. record'[e][p].reversed = rec[e][p].reversed
      BY <3>2, <3>3 DEF WithRecord
    <3> QED
      BY <3>4, <3>5
  <2>4. CASE ~Attribute(c)
    <3>1. PICK e2 \in Employees, p2 \in Periods : \E r \in PayrollRecord : OneWrite(c, e2, p2, r)
      BY <1>1, <2>1, <2>2, <2>4, RecordWrites
    <3>2. PICK r \in PayrollRecord : OneWrite(c, e2, p2, r)
      BY <3>1
    <3>3. e2 = e /\ p2 = p
      BY <2>0, <3>2 DEF OneWrite, WithRecord
    <3>4. record'[e][p] = r
      BY <2>0, <3>2, <3>3 DEF OneWrite, WithRecord
    <3>5. ~NewRecord(record[e][p], r) /\ ~PaidRecord(record[e][p], r)
      BY <3>4 DEF NewRecord, PaidRecord
    <3>6. record[e][p] \in PayrollRecord
      BY <2>0
    <3>7. ~LedgerRecord(record[e][p], r, req[c].arg, 0)
      BY <3>4, <3>6 DEF LedgerRecord, PayrollRecord
    <3>8. /\ Reverse(c) /\ e = req[c].who /\ p = req[c].at
          /\ LedgerRecord(record[e][p], r, 0, req[c].arg)
      BY <3>2, <3>3, <3>5, <3>7 DEF OneWrite
    <3>9. req[c].read = Effective(record[e][p]) /\ req[c].read + req[c].arg >= 0
      BY <1>1, <3>8 DEF Reverse, LockedSum, LockedSums, HoldsRecord, At
    <3>10. req[c].arg \in Int
      BY <1>1, <3>8, InFlight DEF Reverse, Carried
    <3>11. Effective(r) = Effective(record[e][p]) + req[c].arg
      BY <3>6, <3>8, <3>10 DEF LedgerRecord, Effective, PayrollRecord
    <3> QED
      BY <3>4, <3>9, <3>11
  <2> QED
    BY <2>3, <2>4
<1>2. ASSUME Bounded PROVE [\A e \in Employees, p \in Periods :
                              LET old == record[e][p]  new == record'[e][p] IN
                              old # None /\ new.reversed # old.reversed => Effective(new) >= 0]_payrollVars
  BY <1>2
<1> QED
  BY <1>1, <1>2, PayrollInvariantHolds, LockedSumHolds, PTL DEF PayrollSpec, ReversalsBounded

------------------------------------------------------------------------------
(* What a step makes of a record: the amount stays, a paid record stays    *)
(* paid with its receipt, and one is paid the amount it shows.             *)
RecordKept(old, new) ==
  old # None =>
    /\ new.amount = old.amount /\ new.model = old.model
    /\ old.status = "paid" => new.status = "paid" /\ new.receipt = old.receipt
    /\ new.status = "paid" => new.receipt = new.amount

(* A record that is paid has the receipt of its amount.                    *)
Receipted(r) == r # None /\ r.status = "paid" => r.receipt = r.amount

AllReceipted(rec) == \A e \in Employees, p \in Periods : Receipted(rec[e][p])

AllKept(rec, rec2) == \A e \in Employees, p \in Periods : RecordKept(rec[e][p], rec2[e][p])

(* What one write makes of a record.                                       *)
LEMMA OneWriteKeeps ==
  ASSUME NEW c, NEW e, NEW p, NEW r \in PayrollRecord, OneWrite(c, e, p, r), Receipted(record[e][p])
  PROVE  RecordKept(record[e][p], r) /\ Receipted(r)
<1>1. \/ NewRecord(record[e][p], r) \/ PaidRecord(record[e][p], r)
      \/ \E a, b : LedgerRecord(record[e][p], r, a, b)
  BY DEF OneWrite
<1> QED
  BY <1>1, NoneIsNoRecord DEF NewRecord, PaidRecord, LedgerRecord, RecordKept, Receipted

(* Moving commission touches nothing else.                                 *)
LEMMA MovedKeeps ==
  ASSUME NEW old \in PayrollRecord, NEW k, NEW r, r = Moved(old, k), Receipted(old)
  PROVE  RecordKept(old, r) /\ Receipted(r)
<1>1. /\ r.amount = old.amount /\ r.model = old.model
      /\ r.status = old.status /\ r.receipt = old.receipt
  BY DEF Moved, PayrollRecord
<1>2. old # None
  BY NoneIsNoRecord
<1> QED BY <1>1, <1>2 DEF RecordKept, Receipted

(* Writing one record of a table changes that record only.                 *)
LEMMA WriteKeeps ==
  ASSUME NEW rec \in [Employees -> [Periods -> PayrollRecord \cup {None}]],
         NEW e \in Employees, NEW p \in Periods, NEW r, NEW rec2,
         rec2 = WithRecord(rec, e, p, r), RecordKept(rec[e][p], r), Receipted(r),
         AllReceipted(rec)
  PROVE  AllReceipted(rec2) /\ AllKept(rec, rec2)
<1> SUFFICES ASSUME NEW x \in Employees, NEW q \in Periods
             PROVE  Receipted(rec2[x][q]) /\ RecordKept(rec[x][q], rec2[x][q])
  BY DEF AllReceipted, AllKept
<1>1. rec2[x][q] = IF x = e /\ q = p THEN r ELSE rec[x][q]
  BY DEF WithRecord
<1>2. CASE x = e /\ q = p
  BY <1>1, <1>2
<1>3. CASE ~(x = e /\ q = p)
  BY <1>1, <1>3 DEF RecordKept, Receipted, AllReceipted
<1> QED BY <1>2, <1>3

(* A record that stays stays when it is written again.                     *)
LEMMA KeptTwice ==
  ASSUME NEW old, NEW mid, NEW new, RecordKept(old, mid), RecordKept(mid, new), old # None => mid # None
  PROVE  RecordKept(old, new)
BY DEF RecordKept

(* A step keeps every record, and the receipts match as before.            *)
LEMMA RecordsStep ==
  ASSUME PayrollInvariant, AllReceipted(record), [PayrollNext]_payrollVars
  PROVE  AllReceipted(record') /\ AllKept(record, record')
<1> DEFINE Table == [Employees -> [Periods -> PayrollRecord \cup {None}]]
<1>0. record \in Table
  BY DEF PayrollInvariant, TablesOk
<1>1. ASSUME record' = record
      PROVE  AllReceipted(record') /\ AllKept(record, record')
  BY <1>1 DEF AllReceipted, AllKept, Receipted, RecordKept
<1>3. ASSUME NEW c \in Callers, Serve(c), record' # record
      PROVE  AllReceipted(record') /\ AllKept(record, record')
  <2>1. CASE Attribute(c)
    <3>1. req[c].read # <<0, 0>>
      BY <1>3, <2>1 DEF Attribute
    <3> DEFINE from == req[c].arg  to == req[c].who  q == PeriodOf(1)
    <3>2. PICK k \in Int, r1 \in PayrollRecord, r2 \in PayrollRecord, rec \in Table :
            /\ from \in Employees /\ to \in Employees /\ q \in Periods
            /\ record[from][q] \in PayrollRecord
            /\ r1 = Moved(record[from][q], k)
            /\ rec = WithRecord(record, from, q, r1)
            /\ rec[to][q] \in PayrollRecord
            /\ r2 = Moved(rec[to][q], -k)
            /\ record' = WithRecord(rec, to, q, r2)
      BY <2>1, <3>1, AttributeWrites
    <3> HIDE DEF from, to, q
    <3>3. RecordKept(record[from][q], r1) /\ Receipted(r1)
      <4>1. PICK old : old = record[from][q]
        OBVIOUS
      <4>2. old \in PayrollRecord /\ r1 = Moved(old, k) /\ Receipted(old)
        BY <3>2, <4>1 DEF AllReceipted
      <4>3. RecordKept(old, r1) /\ Receipted(r1)
        BY <4>2, MovedKeeps
      <4> QED BY <4>1, <4>3
    <3>4. AllReceipted(rec) /\ AllKept(record, rec)
      BY <1>0, <3>2, <3>3, WriteKeeps
    <3>5. RecordKept(rec[to][q], r2) /\ Receipted(r2)
      <4>1. PICK old, m : old = rec[to][q] /\ m = -k
        OBVIOUS
      <4>2. old \in PayrollRecord /\ r2 = Moved(old, m) /\ Receipted(old)
        BY <3>2, <3>4, <4>1 DEF AllReceipted
      <4>3. RecordKept(old, r2) /\ Receipted(r2)
        BY <4>2, MovedKeeps
      <4> QED BY <4>1, <4>3
    <3>6. AllReceipted(record') /\ AllKept(rec, record')
      <4>1. PICK rec2 : rec2 = record'
        OBVIOUS
      <4>2. rec2 = WithRecord(rec, to, q, r2)
        BY <3>2, <4>1
      <4>3. AllReceipted(rec2) /\ AllKept(rec, rec2)
        BY <3>2, <3>4, <3>5, <4>2, WriteKeeps
      <4> QED BY <4>1, <4>3
    <3>7. ASSUME NEW x \in Employees, NEW y \in Periods PROVE RecordKept(record[x][y], record'[x][y])
      <4>1. record[x][y] # None => rec[x][y] # None
        BY <1>0, <3>2, NoneIsNoRecord DEF WithRecord
      <4>2. RecordKept(record[x][y], rec[x][y]) /\ RecordKept(rec[x][y], record'[x][y])
        BY <3>4, <3>6 DEF AllKept
      <4> QED BY <4>1, <4>2, KeptTwice
    <3> QED BY <3>6, <3>7 DEF AllKept
  <2>2. CASE ~Attribute(c)
    <3>1. PICK e \in Employees, p \in Periods : \E r \in PayrollRecord : OneWrite(c, e, p, r)
      BY <1>3, <2>2, RecordWrites
    <3>2. PICK r \in PayrollRecord : OneWrite(c, e, p, r)
      BY <3>1
    <3>3. RecordKept(record[e][p], r) /\ Receipted(r)
      BY <3>2, OneWriteKeeps DEF AllReceipted
    <3>4. PICK rec2 : rec2 = record'
      OBVIOUS
    <3>5. rec2 = WithRecord(record, e, p, r)
      BY <3>2, <3>4 DEF OneWrite
    <3>6. AllReceipted(rec2) /\ AllKept(record, rec2)
      BY <1>0, <3>3, <3>5, WriteKeeps
    <3> QED BY <3>4, <3>6
  <2> QED BY <2>1, <2>2
<1>4. CASE Refund \/ NextDay \/ UNCHANGED payrollVars
  BY <1>1, <1>4 DEF Refund, NextDay, payrollVars
<1> QED BY <1>1, <1>3, <1>4 DEF PayrollNext, PayrollQuiescent

(* A record keeps the amount it was first calculated with and, once paid,  *)
(* stays paid with the receipt of that amount (generatePayrollForBusiness, *)
(* markPayrollPaid).                                                       *)
THEOREM RecordsAreKept == PayrollSpec => RecordsKept
<1>1. PayrollInit => AllReceipted(record)
  BY DEF PayrollInit, AllReceipted, Receipted
<1>2. PayrollInvariant /\ AllReceipted(record) /\ [PayrollNext]_payrollVars =>
        AllReceipted(record)' /\ [\A e \in Employees, p \in Periods :
             LET old == record[e][p]  new == record'[e][p] IN
             old # None => /\ new.amount = old.amount /\ new.model = old.model
                           /\ old.status = "paid" => new.status = "paid" /\ new.receipt = old.receipt
                           /\ new.status = "paid" => new.receipt = new.amount]_payrollVars
  BY RecordsStep DEF RecordKept, AllKept
<1> QED
  BY <1>1, <1>2, PayrollInvariantHolds, PTL DEF PayrollSpec, RecordsKept
=============================================================================
