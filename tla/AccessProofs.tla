---------------------------- MODULE AccessProofs -----------------------------
(***************************************************************************)
(* Proofs about Access and its RateLimiter for any callers, passwords,     *)
(* devices and workloads. The invariant says what a request in flight may  *)
(* still rely on when other handlers ran since it read: the account never  *)
(* goes away, its session_version only grows, and a session it found is    *)
(* still there.                                                            *)
(***************************************************************************)
EXTENDS Access, SequenceTheorems, TLAPS

Request == [pc : {"idle", "read", "complete", "open", "verified", "rotated", "bumped", "found"},
            op : Operations \cup {None}, on : Nat, word : Passwords \cup Words \cup {None},
            device : Devices \cup {None}, seen : User \cup {None}, upTo : Nat]

AccountTypes ==
  /\ workload \in Workloads
  /\ user \in User \cup {None}
  /\ sessions \in Seq(Session) /\ tickets \in Seq(Ticket)
  /\ minted \subseteq [session : DOMAIN sessions, version : Nat]
  /\ drawn \in Nat /\ wrong \in Nat /\ asked \in 0..workload.requests
  /\ req \in [Callers -> Request]

(* A request that may run before there is an account.                      *)
Early(q) ==
  \/ q.op \in {None, "invite", "accept"}
  \/ q.op = "signup" /\ q.pc = "read" /\ q.word \notin Words

(* What a request in flight has read is still so.                          *)
Holds(q) ==
  /\ ~Early(q) => user # None
  /\ q.seen # None => user # None /\ q.seen.version <= user.version
  /\ q.op \in {"login", "google"} \/ q.pc \in {"complete", "open"} => q.seen # None
  /\ q.pc \in {"complete", "open"} \/ q.op \in {"signup", "login", "google", "new_device_login"}
       => q.device \in Devices
  /\ q.op \in {"login", "accept", "reset"} => q.word \in Passwords
  /\ q.op \in {"refresh", "logout"} => q.on \in DOMAIN sessions
  /\ q.word \in {"right", "wrong"} => q.op \in Codes
  /\ q.op \in {"accept", "reset"} \/ q.word \in {"right", "wrong"} =>
       q.on \in DOMAIN tickets /\ tickets[q.on].kind = IF q.op = "accept" THEN "invite" ELSE q.op
  /\ q.op = "reset" /\ q.pc = "found" => ~tickets[q.on].taken

(* The account is held by one reset at a time.                             *)
OneReset == \A c, d \in Callers : Resetting(c) /\ Resetting(d) => c = d

(* Without an account nobody is signed in and there is nothing to take     *)
(* but invitations; no access token is ahead of the account.               *)
Behind ==
  /\ user = None => /\ sessions = <<>> /\ minted = {}
                    /\ \A k \in DOMAIN tickets : tickets[k].kind = "invite"
  /\ \A t \in minted : t.version <= user.version

AccessInvariant ==
  /\ AccountTypes
  /\ \A c \in Callers : Holds(req[c])
  /\ Behind
  /\ UsedOnce
  /\ OneReset

(* While its window runs a counter has counted whatever was let through.   *)
LimiterInvariant ==
  /\ LimiterTypeOK
  /\ IF counter # None /\ counter.age = "live"
       THEN admitted <= counter.count /\ admitted <= WindowMax
       ELSE admitted = 0

------------------------------------------------------------------------------
(* A row replaced by another of its type leaves a table of that type.      *)
LEMMA RowsReplaced ==
  ASSUME NEW S, NEW s \in Seq(S), NEW t, t = [i \in DOMAIN s |-> t[i]],
         \A i \in DOMAIN s : t[i] \in S
  PROVE  t \in Seq(S) /\ DOMAIN t = DOMAIN s
<1>1. Len(s) \in Nat /\ DOMAIN s = 1..Len(s)
  BY LenProperties
<1>2. t \in [1..Len(s) -> S]
  BY <1>1
<1> QED BY <1>1, <1>2, SeqDef

(* A row is appended to a table.                                           *)
LEMMA RowAdded ==
  ASSUME NEW S, NEW s \in Seq(S), NEW e \in S
  PROVE  /\ Append(s, e) \in Seq(S)
         /\ Len(s) \in Nat /\ DOMAIN s = 1..Len(s)
         /\ DOMAIN Append(s, e) = DOMAIN s \cup {Len(s) + 1}
         /\ \A i \in DOMAIN s : Append(s, e)[i] = s[i]
         /\ Append(s, e)[Len(s) + 1] = e
<1>1. Len(s) \in Nat /\ DOMAIN s = 1..Len(s)
  BY LenProperties
<1>2. /\ Append(s, e) \in Seq(S) /\ Len(Append(s, e)) = Len(s) + 1
      /\ \A i \in 1..Len(s) : Append(s, e)[i] = s[i]
      /\ Append(s, e)[Len(s) + 1] = e
  BY AppendProperties
<1>3. DOMAIN Append(s, e) = 1..(Len(s) + 1)
  BY <1>2, LenProperties
<1> QED BY <1>1, <1>2, <1>3

(* Updates of a row, field by field.                                       *)
LEMMA TicketUpdate ==
  ASSUME NEW t \in Ticket, NEW new, new = [t EXCEPT !.taken = TRUE, !.uses = @ + 1]
  PROVE  new =
           [kind |-> t.kind, taken |-> TRUE, lapsed |-> t.lapsed, tries |-> t.tries,
            uses |-> t.uses + 1]
BY DEF Ticket

(* A request goes on to its next step with what it read.                   *)
LEMMA RequestUpdate ==
  ASSUME NEW q \in Request, NEW pc, NEW seen, NEW new, new = [q EXCEPT !.pc = pc, !.seen = seen]
  PROVE  new =
           [pc |-> pc, op |-> q.op, on |-> q.on, word |-> q.word, device |-> q.device,
            seen |-> seen, upTo |-> q.upTo]
BY DEF Request

(* A request goes on with the sessions it has found.                       *)
LEMMA RequestFinds ==
  ASSUME NEW q \in Request, NEW n, NEW new, new = [q EXCEPT !.pc = "found", !.upTo = n]
  PROVE  new =
           [pc |-> "found", op |-> q.op, on |-> q.on, word |-> q.word, device |-> q.device,
            seen |-> q.seen, upTo |-> n]
BY DEF Request

(* What a step leaves behind of the tickets: a reset link is only taken as *)
(* the reset that holds the account commits.                               *)
ResetEnds == \E c \in Callers : Resetting(c) /\ req'[c] = Idle

TicketsOnward ==
  /\ tickets' \in Seq(Ticket) /\ UsedOnce' /\ DOMAIN tickets \subseteq DOMAIN tickets'
  /\ \A k \in DOMAIN tickets :
       /\ tickets'[k].kind = tickets[k].kind
       /\ tickets'[k].taken => tickets[k].taken \/ tickets[k].kind # "reset" \/ ResetEnds

(* A conditional claim: a ticket that was open is used for the first time. *)
LEMMA TicketTaken ==
  ASSUME tickets \in Seq(Ticket), UsedOnce, NEW k, ~tickets[k].taken, Take(k),
         tickets[k].kind # "reset" \/ ResetEnds
  PROVE  TicketsOnward
<1>1. tickets' = [i \in DOMAIN tickets |->
                   IF i = k THEN [tickets[i] EXCEPT !.taken = TRUE, !.uses = @ + 1] ELSE tickets[i]]
  BY DEF Take
<1>2. \A i \in DOMAIN tickets : tickets[i] \in Ticket
  BY LenProperties, ElementOfSeq
<1>3. ASSUME NEW i \in DOMAIN tickets
      PROVE  /\ tickets'[i] \in Ticket /\ tickets'[i].kind = tickets[i].kind
             /\ tickets'[i].uses = IF tickets'[i].taken THEN 1 ELSE 0
             /\ tickets'[i].taken => tickets[i].taken \/ i = k
  <2>1. CASE i = k
    <3>1. tickets[k] \in Ticket /\ tickets[k].uses = 0
      BY <1>2, <2>1 DEF UsedOnce
    <3>0. tickets'[k] = [tickets[k] EXCEPT !.taken = TRUE, !.uses = @ + 1]
      BY <1>1, <2>1
    <3>2. tickets'[k] = [kind |-> tickets[k].kind, taken |-> TRUE, lapsed |-> tickets[k].lapsed,
                         tries |-> tickets[k].tries, uses |-> tickets[k].uses + 1]
      BY <3>0, <3>1, TicketUpdate
    <3>3. tickets'[k] \in Ticket
      BY <3>1, <3>2 DEF Ticket
    <3> QED BY <2>1, <3>1, <3>2, <3>3
  <2>2. CASE i # k
    BY <1>1, <1>2, <2>2 DEF UsedOnce
  <2> QED BY <2>1, <2>2
<1>4. tickets' = [i \in DOMAIN tickets |-> tickets'[i]]
  BY <1>1
<1>5. tickets' \in Seq(Ticket) /\ DOMAIN tickets' = DOMAIN tickets
  BY <1>3, <1>4, RowsReplaced
<1> QED BY <1>3, <1>5 DEF UsedOnce, TicketsOnward

(* A ticket that is issued was not used yet.                               *)
LEMMA TicketAdded ==
  ASSUME tickets \in Seq(Ticket), UsedOnce, NEW kind \in Kinds,
         tickets' = Append(tickets, NewTicket(kind))
  PROVE  /\ TicketsOnward
         /\ (\A i \in DOMAIN tickets : tickets[i].kind = "invite") /\ kind = "invite"
              => \A i \in DOMAIN tickets' : tickets'[i].kind = "invite"
<1>1. NewTicket(kind) \in Ticket
  BY DEF NewTicket, Ticket
<1>2. NewTicket(kind).uses = 0 /\ NewTicket(kind).taken = FALSE /\ NewTicket(kind).kind = kind
  BY DEF NewTicket
<1> HIDE DEF NewTicket
<1>3. /\ tickets' \in Seq(Ticket)
      /\ DOMAIN tickets' = DOMAIN tickets \cup {Len(tickets) + 1}
      /\ \A i \in DOMAIN tickets : tickets'[i] = tickets[i]
      /\ tickets'[Len(tickets) + 1] = NewTicket(kind)
  BY <1>1, RowAdded
<1> QED BY <1>2, <1>3 DEF UsedOnce, TicketsOnward

(* Steps that do not take a ticket: their rows stay used as often.         *)
LEMMA TicketChanged ==
  ASSUME tickets \in Seq(Ticket), UsedOnce,
         tickets' = [i \in DOMAIN tickets |-> tickets'[i]],
         \A i \in DOMAIN tickets : /\ tickets'[i] \in Ticket /\ tickets'[i].kind = tickets[i].kind
                                  /\ tickets'[i].uses = tickets[i].uses
                                  /\ tickets'[i].taken = tickets[i].taken
  PROVE  TicketsOnward /\ DOMAIN tickets' = DOMAIN tickets
<1>1. tickets' \in Seq(Ticket) /\ DOMAIN tickets' = DOMAIN tickets
  BY RowsReplaced
<1> QED BY <1>1 DEF UsedOnce, TicketsOnward

------------------------------------------------------------------------------
(* What a step must leave behind besides the request it is part of.        *)
UserOnward ==
  /\ user' \in User \cup {None}
  /\ user # None => user' # None /\ user.version <= user'.version

SessionsOnward == sessions' \in Seq(Session) /\ DOMAIN sessions \subseteq DOMAIN sessions'

Onward ==
  /\ UserOnward /\ SessionsOnward /\ TicketsOnward
  /\ minted' \subseteq [session : DOMAIN sessions', version : Nat]
  /\ drawn' \in Nat /\ wrong' \in Nat
  /\ Behind'

(* The other requests in flight are served by what they had read.          *)
LEMMA OthersHold ==
  ASSUME AccessInvariant, UserOnward, SessionsOnward, TicketsOnward, NEW c \in Callers
  PROVE  req'[c] = req[c] => Holds(req[c])'
<1>1. /\ req[c] \in Request /\ Holds(req[c]) /\ user \in User \cup {None}
  BY DEF AccessInvariant, AccountTypes
<1>2. req[c].seen # None => req[c].seen \in User
  BY <1>1 DEF Request
<1>3. \A u \in User : u.version \in Nat
  BY DEF User
<1>4. SUFFICES ASSUME req'[c] = req[c] PROVE Holds(req[c])'
  OBVIOUS
<1>5. req[c].seen # None => user' # None /\ req[c].seen.version <= user'.version
  BY <1>1, <1>2, <1>3 DEF Holds, UserOnward
<1>6. ~Early(req[c]) => user' # None
  BY <1>1 DEF Holds, UserOnward
<1>7. Early(req[c])' <=> Early(req[c])
  BY <1>4 DEF Early
<1>8. req[c] # Idle \/ req[c].op \notin {"reset"}
  BY <1>1, AccessAssumption DEF Idle, Operations
<1>9. req[c].op = "reset" /\ req[c].pc = "found" => ~ResetEnds
  BY <1>1, <1>4, <1>8 DEF AccessInvariant, OneReset, ResetEnds, Resetting, At
<1>10. /\ req[c].op \in {"accept", "reset"} \/ req[c].word \in {"right", "wrong"} =>
            /\ req[c].on \in DOMAIN tickets'
            /\ tickets'[req[c].on].kind = IF req[c].op = "accept" THEN "invite" ELSE req[c].op
       /\ req[c].op = "reset" /\ req[c].pc = "found" => ~tickets'[req[c].on].taken
  BY <1>1, <1>9 DEF Holds, TicketsOnward
<1> QED BY <1>1, <1>4, <1>5, <1>6, <1>7, <1>10 DEF Holds, SessionsOnward

(* A step that moves one request keeps the others what they were.          *)
LEMMA RequestReplaced ==
  ASSUME AccessInvariant, Onward, workload' = workload, asked' \in 0..workload.requests,
         NEW c \in Callers, NEW r \in Request, req' = [req EXCEPT ![c] = r], Holds(req[c])',
         r.op = "reset" /\ r.pc = "found" => UserFree
  PROVE  AccessInvariant'
<1>1. req \in [Callers -> Request] /\ workload \in Workloads
  BY DEF AccessInvariant, AccountTypes
<1>2. req' \in [Callers -> Request]
  BY <1>1
<1>3. AccountTypes'
  BY <1>1, <1>2 DEF AccountTypes, Onward, UserOnward, SessionsOnward, TicketsOnward
<1>4. ASSUME NEW d \in Callers PROVE Holds(req[d])'
  <2>1. CASE d = c
    BY <2>1
  <2>2. CASE d # c
    BY <1>1, <2>2, OthersHold DEF Onward
  <2> QED BY <2>1, <2>2
<1>5. OneReset'
  BY <1>1 DEF AccessInvariant, OneReset, UserFree, Resetting, At
<1> QED BY <1>3, <1>4, <1>5 DEF AccessInvariant, Onward, TicketsOnward

(* A request ends.                                                         *)
LEMMA Ended ==
  ASSUME AccessInvariant, Onward, NEW c \in Callers, End(c)
  PROVE  AccessInvariant'
<1>1. Idle \in Request
  BY DEF Idle, Request
<1>2. req' = [req EXCEPT ![c] = Idle] /\ workload' = workload /\ asked' = asked
  BY DEF End
<1>3. /\ req \in [Callers -> Request] /\ asked \in 0..workload.requests
  BY DEF AccessInvariant, AccountTypes
<1>4. req'[c] = Idle
  BY <1>2, <1>3
<1>5. Holds(req[c])'
  BY <1>4, AccessAssumption DEF Holds, Early, Idle, Words, Operations
<1>6. Idle.op # "reset"
  BY AccessAssumption DEF Idle, Operations
<1> QED BY <1>1, <1>2, <1>3, <1>5, <1>6, RequestReplaced

(* A request goes on, having read seen.                                    *)
LEMMA Went ==
  ASSUME AccessInvariant, Onward, NEW c \in Callers,
         NEW pc \in {"complete", "open", "verified", "rotated", "bumped"},
         NEW seen \in User \cup {None}, Goto(c, pc, seen), user # None,
         seen # None => seen.version <= user'.version,
         req[c].op \in {"login", "google"} \/ pc \in {"complete", "open"} => seen # None,
         pc \in {"complete", "open"} => req[c].device \in Devices
  PROVE  AccessInvariant'
<1> DEFINE r == [pc |-> pc, op |-> req[c].op, on |-> req[c].on, word |-> req[c].word,
                 device |-> req[c].device, seen |-> seen, upTo |-> req[c].upTo]
<1>1. /\ req \in [Callers -> Request] /\ asked \in 0..workload.requests
      /\ req[c] \in Request /\ Holds(req[c])
  BY DEF AccessInvariant, AccountTypes
<1>2. /\ req' = [req EXCEPT ![c] = [req[c] EXCEPT !.pc = pc, !.seen = seen]]
      /\ workload' = workload /\ asked' = asked
  BY <1>1 DEF Goto, Request
<1>3. [req[c] EXCEPT !.pc = pc, !.seen = seen] = r
  BY <1>1, RequestUpdate
<1>4. r \in Request
  BY <1>1 DEF Request
<1>5. req' = [req EXCEPT ![c] = r] /\ req'[c] = r
  BY <1>1, <1>2, <1>3
<1>6. user' # None /\ DOMAIN sessions \subseteq DOMAIN sessions'
  BY DEF Onward, UserOnward, SessionsOnward
<1>8. /\ DOMAIN tickets \subseteq DOMAIN tickets'
      /\ \A k \in DOMAIN tickets : tickets'[k].kind = tickets[k].kind
  BY DEF Onward, TicketsOnward
<1>7. Holds(req[c])'
  BY <1>1, <1>5, <1>6, <1>8 DEF Holds
<1>9. r.pc # "found"
  OBVIOUS
<1> HIDE DEF r
<1> QED BY <1>1, <1>2, <1>4, <1>5, <1>7, <1>9, RequestReplaced

(* A request arrives, and reads the account.                               *)
LEMMA Asked ==
  ASSUME AccessInvariant, NEW c \in Callers, NEW op \in Operations, NEW on \in Nat,
         NEW word \in Passwords \cup Words \cup {None}, NEW device \in Devices \cup {None},
         Ask(c, op, on, word, device),
         op \in {"invite", "accept"} \/ (op = "signup" /\ word \notin Words) \/ user # None,
         op \in {"signup", "login", "google", "new_device_login"} => device \in Devices,
         op \in {"login", "accept", "reset"} => word \in Passwords,
         op \in {"refresh", "logout"} => on \in DOMAIN sessions,
         word \in {"right", "wrong"} => op \in Codes,
         op \in {"accept", "reset"} \/ word \in {"right", "wrong"} =>
           on \in DOMAIN tickets /\ tickets[on].kind = IF op = "accept" THEN "invite" ELSE op
  PROVE  AccessInvariant'
<1> DEFINE r == [pc |-> "read", op |-> op, on |-> on, word |-> word, device |-> device,
                 seen |-> user, upTo |-> 0]
<1>1. /\ req \in [Callers -> Request] /\ asked \in 0..workload.requests
      /\ user \in User \cup {None} /\ workload \in Workloads
  BY DEF AccessInvariant, AccountTypes
<1>2. /\ req' = [req EXCEPT ![c] = r] /\ asked < workload.requests /\ asked' = asked + 1
      /\ UNCHANGED <<user, sessions, tickets, minted, drawn, wrong, workload>>
  BY DEF Ask
<1>3. r \in Request
  BY <1>1 DEF Request
<1>4. req'[c] = r
  BY <1>1, <1>2
<1>5. \A u \in User : u.version \in Nat
  BY DEF User
<1>6. Holds(req[c])'
  BY <1>1, <1>2, <1>4, <1>5 DEF Holds, Early
<1>7. workload.requests \in Nat
  BY <1>1, AccessAssumption
<1>8. asked' \in 0..workload.requests
  BY <1>1, <1>2, <1>7
<1>9. Onward
  BY <1>2, <1>5 DEF AccessInvariant, AccountTypes, Onward, UserOnward, SessionsOnward,
                    TicketsOnward, Behind, UsedOnce
<1>10. r.pc # "found"
  OBVIOUS
<1> HIDE DEF r
<1> QED BY <1>2, <1>3, <1>6, <1>8, <1>9, <1>10, RequestReplaced

(* Nothing is asked or ended: a reset link is sent, time passes.           *)
LEMMA RequestsWait ==
  ASSUME AccessInvariant, Onward, workload' = workload, asked' \in 0..workload.requests,
         req' = req
  PROVE  AccessInvariant'
<1>1. AccountTypes'
  BY DEF AccessInvariant, AccountTypes, Onward, UserOnward, SessionsOnward, TicketsOnward
<1>2. ASSUME NEW d \in Callers PROVE Holds(req[d])'
  BY OthersHold DEF Onward
<1>3. OneReset'
  BY DEF AccessInvariant, OneReset, Resetting, At
<1> QED BY <1>1, <1>2, <1>3 DEF AccessInvariant, Onward, TicketsOnward

(* What a step leaves alone stays as it was.                               *)
LEMMA LeftAlone ==
  ASSUME AccessInvariant
  PROVE  /\ user' = user => UserOnward
         /\ sessions' = sessions => SessionsOnward
         /\ tickets' = tickets => TicketsOnward
         /\ drawn' = drawn => drawn' \in Nat
         /\ wrong' = wrong => wrong' \in Nat
         /\ workload' = workload /\ asked' = asked => asked' \in 0..workload.requests
<1>1. \A u \in User : u.version \in Nat
  BY DEF User
<1> QED BY <1>1 DEF AccessInvariant, AccountTypes, UserOnward, SessionsOnward, TicketsOnward,
                   UsedOnce

(* A request finds the sessions it is to revoke.                           *)
LEMMA Finds ==
  ASSUME AccessInvariant, NEW c \in Callers, req[c].op \in {"logout_all", "reset"},
         req[c].op = "reset" => UserFree /\ ~tickets[req[c].on].taken,
         Find(c), UNCHANGED <<user, sessions, tickets, minted, drawn, wrong>>
  PROVE  AccessInvariant'
<1> DEFINE r == [pc |-> "found", op |-> req[c].op, on |-> req[c].on, word |-> req[c].word,
                 device |-> req[c].device, seen |-> req[c].seen, upTo |-> Len(sessions)]
<1>1. /\ req \in [Callers -> Request] /\ asked \in 0..workload.requests
      /\ req[c] \in Request /\ Holds(req[c]) /\ sessions \in Seq(Session)
  BY DEF AccessInvariant, AccountTypes
<1>2. /\ req' = [req EXCEPT ![c] = [req[c] EXCEPT !.pc = "found", !.upTo = Len(sessions)]]
      /\ workload' = workload /\ asked' = asked
  BY <1>1 DEF Find, Request
<1>3. [req[c] EXCEPT !.pc = "found", !.upTo = Len(sessions)] = r
  BY <1>1, RequestFinds
<1>4. Len(sessions) \in Nat
  BY <1>1, LenProperties
<1>5. r \in Request
  BY <1>1, <1>4 DEF Request
<1>6. req' = [req EXCEPT ![c] = r] /\ req'[c] = r
  BY <1>1, <1>2, <1>3
<1>7. req[c].op \notin {None, "signup"}
  BY AccessAssumption DEF Operations
<1>8. Holds(req[c])'
  BY <1>1, <1>6, <1>7 DEF Holds, Early
<1>9. Onward
  BY LeftAlone DEF AccessInvariant, AccountTypes, Onward, Behind
<1>10. r.op = "reset" /\ r.pc = "found" => UserFree
  OBVIOUS
<1> HIDE DEF r
<1> QED BY <1>1, <1>2, <1>5, <1>6, <1>8, <1>9, <1>10, RequestReplaced

(* There is an account and no new access token.                            *)
LEMMA AccountGoesOn ==
  ASSUME AccessInvariant, UserOnward, user' # None, SessionsOnward, TicketsOnward,
         minted' = minted, drawn' \in Nat, wrong' \in Nat
  PROVE  Onward
<1>1. minted' \subseteq [session : DOMAIN sessions', version : Nat]
  BY DEF AccessInvariant, AccountTypes, SessionsOnward
<1>2. ASSUME NEW t \in minted PROVE t.version <= user'.version
  <2>1. user # None
    BY <1>2 DEF AccessInvariant, Behind
  <2>2. user \in User /\ user' \in User /\ t.version \in Nat
    BY <1>2, <2>1 DEF AccessInvariant, AccountTypes, UserOnward
  <2>3. user.version \in Nat /\ user'.version \in Nat
    BY <2>2 DEF User
  <2> QED BY <1>2, <2>1, <2>2, <2>3 DEF AccessInvariant, Behind, UserOnward
<1>3. Behind'
  BY <1>2 DEF Behind
<1> QED BY <1>1, <1>3 DEF Onward

(* Sessions that are replaced by others of their type.                     *)
LEMMA SessionsChanged ==
  ASSUME AccessInvariant, sessions' = [i \in DOMAIN sessions |-> sessions'[i]],
         \A i \in DOMAIN sessions : sessions'[i] \in Session
  PROVE  SessionsOnward
<1>1. sessions \in Seq(Session)
  BY DEF AccessInvariant, AccountTypes
<1>2. sessions' \in Seq(Session) /\ DOMAIN sessions' = DOMAIN sessions
  BY <1>1, RowsReplaced
<1> QED BY <1>2 DEF SessionsOnward

(* Every session is a row of its table.                                    *)
LEMMA SessionRows ==
  ASSUME AccessInvariant
  PROVE  \A i \in DOMAIN sessions : sessions[i] \in Session
<1>1. sessions \in Seq(Session)
  BY DEF AccessInvariant, AccountTypes
<1> QED BY <1>1, LenProperties, ElementOfSeq

(* A session that is revoked stays so.                                     *)
LEMMA SessionRevoked ==
  ASSUME AccessInvariant, NEW s, Revoked(s)
  PROVE  SessionsOnward
<1>1. sessions' = [i \in DOMAIN sessions |->
                    IF i = s THEN [sessions[i] EXCEPT !.revoked = TRUE] ELSE sessions[i]]
  BY DEF Revoked
<1>2. ASSUME NEW i \in DOMAIN sessions PROVE sessions'[i] \in Session
  <2>1. sessions[i] \in Session
    BY SessionRows
  <2>2. CASE i = s
    <3>1. sessions'[i] = [sessions[i] EXCEPT !.revoked = TRUE]
      BY <1>1, <2>2
    <3>2. sessions'[i] = [token |-> sessions[i].token, device |-> sessions[i].device,
                          revoked |-> TRUE, idle |-> sessions[i].idle,
                          seen |-> sessions[i].seen, ended |-> sessions[i].ended]
      BY <2>1, <3>1 DEF Session
    <3> QED BY <2>1, <3>2 DEF Session
  <2>3. CASE i # s
    BY <1>1, <2>1, <2>3
  <2> QED BY <2>2, <2>3
<1>3. sessions' = [i \in DOMAIN sessions |-> sessions'[i]]
  BY <1>1
<1> QED BY <1>2, <1>3, SessionsChanged

(* Ending the sessions that were found revokes each of them.               *)
LEMMA SessionsEnded ==
  ASSUME AccessInvariant, NEW n \in Nat, NEW v \in Nat, sessions' = AllEnded(n, v)
  PROVE  SessionsOnward /\ \A i \in DOMAIN sessions' : sessions'[i].revoked \/ i > n
<1>1. sessions' = [i \in DOMAIN sessions |->
                    IF Live(i) /\ i <= n THEN [sessions[i] EXCEPT !.revoked = TRUE, !.ended = v]
                    ELSE sessions[i]]
  BY DEF AllEnded
<1>4. \A i \in DOMAIN sessions : i \in Nat
  BY LenProperties DEF AccessInvariant, AccountTypes
<1>2. ASSUME NEW i \in DOMAIN sessions
      PROVE  sessions'[i] \in Session /\ (sessions'[i].revoked \/ i > n)
  <2>1. sessions[i] \in Session
    BY SessionRows
  <2>2. CASE Live(i) /\ i <= n
    <3>1. sessions'[i] = [sessions[i] EXCEPT !.revoked = TRUE, !.ended = v]
      BY <1>1, <2>2
    <3>2. sessions'[i] = [token |-> sessions[i].token, device |-> sessions[i].device,
                          revoked |-> TRUE, idle |-> sessions[i].idle,
                          seen |-> sessions[i].seen, ended |-> v]
      BY <2>1, <3>1 DEF Session
    <3>3. sessions'[i] \in Session /\ sessions'[i].revoked
      BY <2>1, <3>2 DEF Session
    <3> QED BY <3>3
  <2>3. CASE ~Live(i)
    <3>1. sessions'[i] = sessions[i]
      BY <1>1, <2>3
    <3>2. sessions[i].revoked
      BY <2>3 DEF Live
    <3> QED BY <2>1, <3>1, <3>2
  <2>4. CASE ~(i <= n)
    <3>1. sessions'[i] = sessions[i]
      BY <1>1, <2>4
    <3>2. i > n
      BY <1>4, <2>4
    <3> QED BY <2>1, <3>1, <3>2
  <2> QED BY <2>2, <2>3, <2>4
<1>3. sessions' = [i \in DOMAIN sessions |-> sessions'[i]] /\ DOMAIN sessions' = DOMAIN sessions
  BY <1>1
<1> QED BY <1>2, <1>3, SessionsChanged

(* A session is opened and its first access token minted.                  *)
LEMMA SessionIssued ==
  ASSUME AccessInvariant, NEW u \in User, NEW device \in Devices, Issue(u, device)
  PROVE  /\ SessionsOnward /\ drawn' \in Nat
         /\ minted' \subseteq [session : DOMAIN sessions', version : Nat]
         /\ \A t \in minted' : t \in minted \/ t.version = u.version
<1> DEFINE row == [token |-> drawn + 1, device |-> device, revoked |-> FALSE, idle |-> FALSE,
                   seen |-> u.version, ended |-> 0]
<1>1. sessions \in Seq(Session) /\ drawn \in Nat /\ u.version \in Nat
  BY DEF AccessInvariant, AccountTypes, User
<1>2. row \in Session
  BY <1>1 DEF Session
<1>3. /\ sessions' = Append(sessions, row) /\ drawn' = drawn + 1
      /\ minted' = minted \cup {[session |-> Len(sessions) + 1, version |-> u.version]}
  BY DEF Issue
<1> HIDE DEF row
<1>4. /\ sessions' \in Seq(Session)
      /\ DOMAIN sessions' = DOMAIN sessions \cup {Len(sessions) + 1}
  BY <1>1, <1>2, <1>3, RowAdded
<1>5. SessionsOnward
  BY <1>4 DEF SessionsOnward
<1> QED BY <1>1, <1>3, <1>4, <1>5 DEF AccessInvariant, AccountTypes

(* The account is only ever written with a version that is not lower.      *)
LEMMA RowOnward ==
  ASSUME user' \in User, user \in User => user.version <= user'.version,
         AccessInvariant
  PROVE  UserOnward /\ user' # None
BY NoneIsNothing DEF UserOnward, AccessInvariant, AccountTypes

(* The row of a new account.                                               *)
LEMMA AccountMade ==
  ASSUME NEW p \in Passwords \cup {None}
  PROVE  NewUser(p) \in User /\ NewUser(p).version = 1 /\ NewUser(p) # None
<1>1. (IF p = None THEN <<>> ELSE <<p>>) \in Seq(Passwords)
  <2>1. CASE p = None
    BY <2>1
  <2>2. CASE p # None
    BY <2>2
  <2> QED BY <2>1, <2>2
<1>2. NewUser(p) \in User
  BY <1>1 DEF NewUser, User
<1> QED BY <1>2, NoneIsNothing DEF NewUser
(* Only signing up and invitations go on without an account.               *)
LEMMA Served ==
  ASSUME AccessInvariant, NEW c \in Callers, req[c] # Idle
  PROVE  /\ req[c] \in Request /\ Holds(req[c])
         /\ req[c].op \in Operations \ {"signup", "invite", "accept"} => user \in User
         /\ req[c].op = "signup" /\ (req[c].pc # "read" \/ req[c].word \in Words) => user \in User
         /\ req[c].pc \in {"complete", "open"} \/ req[c].op \in {"login", "google"} =>
              user \in User /\ req[c].seen \in User /\ req[c].seen.version <= user.version
<1>1. req[c] \in Request /\ Holds(req[c]) /\ user \in User \cup {None}
  BY DEF AccessInvariant, AccountTypes
<1>2. None \notin Operations
  BY AccessAssumption
<1>3. req[c].seen \in User \cup {None}
  BY <1>1 DEF Request
<1>4. /\ ~Early(req[c]) => user \in User
      /\ req[c].pc \in {"complete", "open"} \/ req[c].op \in {"login", "google"} =>
           user \in User /\ req[c].seen \in User /\ req[c].seen.version <= user.version
  BY <1>1, <1>3 DEF Holds
<1>5. /\ req[c].op \in Operations \ {"signup", "invite", "accept"} => ~Early(req[c])
      /\ req[c].op = "signup" /\ (req[c].pc # "read" \/ req[c].word \in Words) => ~Early(req[c])
  BY <1>2 DEF Early, Operations
<1> QED BY <1>1, <1>4, <1>5

(* One lemma for each action: it keeps the invariant.                      *)
LEMMA SignupKeeps ==
  ASSUME AccessInvariant, NEW c \in Callers, Signup(c)
  PROVE  AccessInvariant'
<1>1. /\ req[c].op = "signup" /\ req[c].pc = "read" /\ user = None
      /\ user' = [NewUser(req[c].word) EXCEPT !.verified = req[c].word = None,
                                              !.link = req[c].word # None]
      /\ tickets' = Append(tickets, NewTicket("signup"))
      /\ Issue(user', req[c].device)
      /\ End(c) /\ wrong' = wrong
  BY DEF Signup, At
<1>2. req[c] \in Request /\ Holds(req[c]) /\ None \notin Operations
  BY AccessAssumption DEF AccessInvariant, AccountTypes
<1>3. req[c].word \in Passwords \cup {None} /\ req[c].device \in Devices
  BY <1>1, <1>2 DEF Holds, Early, Request, Operations
<1> DEFINE p == req[c].word
           u == NewUser(p)
<1>4. u \in User /\ u.version = 1
  BY <1>3, AccountMade
<1> HIDE DEF u
<1>5. user' = [u EXCEPT !.verified = p = None, !.link = p # None]
  BY <1>1 DEF u
<1>6. user' = [password |-> u.password, past |-> u.past, version |-> u.version,
               failed |-> u.failed, locked |-> u.locked, phone |-> u.phone,
               verified |-> p = None, link |-> p # None]
  BY <1>4, <1>5 DEF User
<1>7. user' \in User /\ user'.version = 1
  BY <1>4, <1>6 DEF User
<1>8. tickets \in Seq(Ticket) /\ UsedOnce /\ "signup" \in Kinds /\ minted = {}
  BY <1>1 DEF AccessInvariant, AccountTypes, Kinds, Behind
<1>9. TicketsOnward
  BY <1>1, <1>8, TicketAdded
<1>10. PICK v \in User : v = user'
  BY <1>7
<1>11. /\ SessionsOnward /\ drawn' \in Nat
       /\ minted' \subseteq [session : DOMAIN sessions', version : Nat]
       /\ \A t \in minted' : t \in minted \/ t.version = v.version
  BY <1>1, <1>3, <1>10, SessionIssued
<1>12. Behind'
  BY <1>7, <1>8, <1>10, <1>11, NoneIsNothing DEF Behind
<1>13. UserOnward /\ wrong' \in Nat
  BY <1>1, <1>7, LeftAlone DEF UserOnward
<1> QED BY <1>1, <1>9, <1>11, <1>12, <1>13, Ended DEF Onward

(* An invitation is issued.                                                *)
LEMMA InviteKeeps ==
  ASSUME AccessInvariant, NEW c \in Callers, Invite(c)
  PROVE  AccessInvariant'
<1>1. /\ tickets' = Append(tickets, NewTicket("invite")) /\ "invite" \in Kinds
      /\ End(c) /\ UNCHANGED <<user, sessions, minted, drawn, wrong>>
  BY DEF Invite, Kinds
<1>2. /\ tickets \in Seq(Ticket) /\ UsedOnce /\ Behind
      /\ minted \subseteq [session : DOMAIN sessions, version : Nat]
  BY DEF AccessInvariant, AccountTypes
<1>3. /\ TicketsOnward
      /\ user = None => \A i \in DOMAIN tickets' : tickets'[i].kind = "invite"
  BY <1>1, <1>2, TicketAdded DEF Behind
<1>4. UserOnward /\ SessionsOnward /\ drawn' \in Nat /\ wrong' \in Nat
  BY <1>1, LeftAlone
<1>5. Behind'
  BY <1>1, <1>2, <1>3 DEF Behind
<1> QED BY <1>1, <1>2, <1>3, <1>4, <1>5, Ended DEF Onward

(* A request may end at any step without a trace.                          *)
LEMMA AbandonKeeps ==
  ASSUME AccessInvariant, NEW c \in Callers, Abandon(c)
  PROVE  AccessInvariant'
<1>1. End(c) /\ UNCHANGED <<user, sessions, tickets, minted, drawn, wrong>>
  BY DEF Abandon
<1>2. /\ UserOnward /\ SessionsOnward /\ TicketsOnward /\ drawn' \in Nat /\ wrong' \in Nat
  BY <1>1, LeftAlone
<1>3. Onward
  BY <1>1, <1>2 DEF AccessInvariant, AccountTypes, Onward, Behind
<1> QED BY <1>1, <1>3, Ended

(* An invitation is claimed and the account it is for is made.             *)
LEMMA AcceptKeeps ==
  ASSUME AccessInvariant, NEW c \in Callers, Accept(c)
  PROVE  AccessInvariant'
<1>1. /\ req[c].op = "accept" /\ ~tickets[req[c].on].taken /\ user = None
      /\ Take(req[c].on)
      /\ user' = [NewUser(req[c].word) EXCEPT !.verified = TRUE]
      /\ End(c) /\ UNCHANGED <<sessions, minted, drawn, wrong>>
  BY DEF Accept, At, OpenInvite
<1>2. /\ tickets \in Seq(Ticket) /\ UsedOnce /\ req[c].word \in Passwords
      /\ tickets[req[c].on].kind = "invite"
  BY <1>1 DEF AccessInvariant, AccountTypes, Holds
<1>3. TicketsOnward
  BY <1>1, <1>2, TicketTaken
<1> DEFINE u == NewUser(req[c].word)
<1>4. u \in User
  BY <1>2, AccountMade
<1> HIDE DEF u
<1>5. user' = [u EXCEPT !.verified = TRUE]
  BY <1>1 DEF u
<1>6. user' = [password |-> u.password, past |-> u.past, version |-> u.version,
               failed |-> u.failed, locked |-> u.locked, phone |-> u.phone,
               verified |-> TRUE, link |-> u.link]
  BY <1>4, <1>5 DEF User
<1>7. user' \in User
  BY <1>4, <1>6 DEF User
<1>8. UserOnward
  BY <1>1, <1>7 DEF UserOnward
<1>9. Onward
  BY <1>1, <1>3, <1>7, <1>8, NoneIsNothing, LeftAlone, AccountGoesOn
<1> QED BY <1>1, <1>9, Ended

(* The link of a mail verifies the address.                                *)
LEMMA VerifyEmailKeeps ==
  ASSUME AccessInvariant, NEW c \in Callers, VerifyEmail(c)
  PROVE  AccessInvariant'
<1>1. /\ req[c].op = "email" /\ req[c].pc = "read"
      /\ user' = [user EXCEPT !.verified = TRUE, !.link = FALSE]
      /\ End(c) /\ UNCHANGED <<sessions, tickets, minted, drawn, wrong>>
  BY DEF VerifyEmail, At
<1>2. user \in User
  BY <1>1, Served DEF Operations, Idle
<1>3. user' = [password |-> user.password, past |-> user.past, version |-> user.version,
               failed |-> user.failed, locked |-> user.locked, phone |-> user.phone,
               verified |-> TRUE, link |-> FALSE]
  BY <1>1, <1>2 DEF User
<1>4. user' \in User /\ user'.version = user.version /\ user.version \in Nat
  BY <1>2, <1>3 DEF User
<1>row. UserOnward /\ user' # None
  BY <1>4, RowOnward
<1>5. Onward
  BY <1>1, <1>row, LeftAlone, AccountGoesOn
<1> QED BY <1>1, <1>5, Ended

(* A wrong password is counted, and the account locked at the limit.       *)
LEMMA WrongPasswordKeeps ==
  ASSUME AccessInvariant, NEW c \in Callers, WrongPassword(c)
  PROVE  AccessInvariant'
<1> DEFINE locked == Attempts(c) >= LockAfter \/ req[c].seen.locked
<1>1. /\ req[c].op = "login" /\ req[c].pc = "read"
      /\ user' = [user EXCEPT !.failed = Attempts(c), !.locked = locked]
      /\ wrong' = wrong + 1
      /\ End(c) /\ UNCHANGED <<sessions, tickets, minted, drawn>>
  BY DEF WrongPassword, At
<1>2. user \in User /\ req[c].seen \in User
  BY <1>1, Served DEF Operations, Idle
<1>3. Attempts(c) \in Nat
  BY <1>2 DEF Attempts, User
<1>4. locked \in BOOLEAN
  BY <1>2 DEF User
<1> HIDE DEF locked, Attempts
<1>5. user' = [password |-> user.password, past |-> user.past, version |-> user.version,
               failed |-> Attempts(c), locked |-> locked, phone |-> user.phone,
               verified |-> user.verified, link |-> user.link]
  BY <1>1, <1>2 DEF User
<1>6. user' \in User /\ user'.version = user.version /\ user.version \in Nat
  BY <1>2, <1>3, <1>4, <1>5 DEF User
<1>7. wrong' \in Nat
  BY <1>1 DEF AccessInvariant, AccountTypes
<1>row. UserOnward /\ user' # None
  BY <1>6, RowOnward
<1>8. Onward
  BY <1>1, <1>row, <1>7, LeftAlone, AccountGoesOn
<1> QED BY <1>1, <1>8, Ended

(* The right password on a device that is known.                           *)
LEMMA KnownDeviceKeeps ==
  ASSUME AccessInvariant, NEW c \in Callers, KnownDevice(c)
  PROVE  AccessInvariant'
<1>1. /\ req[c].op \in {"google", "login"} /\ Goto(c, "complete", req[c].seen)
      /\ UNCHANGED <<user, sessions, tickets, minted, drawn, wrong>>
  BY DEF KnownDevice, Passed, At
<1>2. /\ user \in User /\ req[c].seen \in User /\ req[c].seen.version <= user.version
      /\ req[c].device \in Devices
  BY <1>1, Served, AccessAssumption DEF Holds, Operations, Idle
<1>3. Onward
  BY <1>1, <1>2, NoneIsNothing, LeftAlone, AccountGoesOn
<1> QED BY <1>1, <1>2, <1>3, NoneIsNothing, Went

(* The right password on a new device only issues a code.                  *)
LEMMA NewDeviceKeeps ==
  ASSUME AccessInvariant, NEW c \in Callers, NewDevice(c)
  PROVE  AccessInvariant'
<1>1. /\ req[c].op \in {"google", "login"} /\ "new_device_login" \in Kinds
      /\ tickets' = Append(tickets, NewTicket("new_device_login"))
      /\ End(c) /\ UNCHANGED <<user, sessions, minted, drawn, wrong>>
  BY DEF NewDevice, Passed, At, Kinds
<1>2. user \in User
  BY <1>1, Served, AccessAssumption DEF Operations, Idle
<1>3. TicketsOnward
  BY <1>1, TicketAdded DEF AccessInvariant, AccountTypes
<1>4. Onward
  BY <1>1, <1>2, <1>3, NoneIsNothing, LeftAlone, AccountGoesOn
<1> QED BY <1>1, <1>4, Ended

(* A login clears the failures that were counted.                          *)
LEMMA ClearFailuresKeeps ==
  ASSUME AccessInvariant, NEW c \in Callers, ClearFailures(c)
  PROVE  AccessInvariant'
<1>1. /\ req[c].pc = "complete"
      /\ user' = [user EXCEPT !.failed = 0, !.locked = FALSE]
      /\ wrong' = 0 /\ Goto(c, "open", req[c].seen)
      /\ UNCHANGED <<sessions, tickets, minted, drawn>>
  BY DEF ClearFailures
<1>2. /\ user \in User /\ req[c].seen \in User /\ req[c].seen.version <= user.version
      /\ req[c].device \in Devices
  BY <1>1, Served DEF Holds, Idle
<1>3. user' = [password |-> user.password, past |-> user.past, version |-> user.version,
               failed |-> 0, locked |-> FALSE, phone |-> user.phone,
               verified |-> user.verified, link |-> user.link]
  BY <1>1, <1>2 DEF User
<1>4. user' \in User /\ user'.version = user.version /\ user.version \in Nat
  BY <1>2, <1>3 DEF User
<1>row. UserOnward /\ user' # None
  BY <1>4, RowOnward
<1>5. Onward
  BY <1>1, <1>row, LeftAlone, AccountGoesOn
<1> QED BY <1>1, <1>2, <1>4, <1>5, NoneIsNothing, Went

(* A login opens a session, with the version of the account it had read.   *)
LEMMA OpenSessionKeeps ==
  ASSUME AccessInvariant, NEW c \in Callers, OpenSession(c)
  PROVE  AccessInvariant'
<1>1. /\ req[c].pc = "open" /\ Issue(req[c].seen, req[c].device)
      /\ End(c) /\ UNCHANGED <<user, tickets, wrong>>
  BY DEF OpenSession
<1>2. /\ user \in User /\ req[c].seen \in User /\ req[c].seen.version <= user.version
      /\ req[c].device \in Devices
  BY <1>1, Served DEF Holds, Idle
<1>3. PICK u \in User : u = req[c].seen
  BY <1>2
<1>4. /\ SessionsOnward /\ drawn' \in Nat
      /\ minted' \subseteq [session : DOMAIN sessions', version : Nat]
      /\ \A t \in minted' : t \in minted \/ t.version = u.version
  BY <1>1, <1>2, <1>3, SessionIssued
<1>5. UserOnward /\ TicketsOnward /\ wrong' \in Nat
  BY <1>1, LeftAlone
<1>6. Behind'
  BY <1>1, <1>2, <1>3, <1>4, NoneIsNothing DEF AccessInvariant, Behind
<1> QED BY <1>1, <1>4, <1>5, <1>6, Ended DEF Onward

(* A wrong code is counted on the ticket it was tried on.                  *)
LEMMA WrongCodeKeeps ==
  ASSUME AccessInvariant, NEW c \in Callers, WrongCode(c)
  PROVE  AccessInvariant'
<1> DEFINE k == req[c].on
           more == IF tickets[k].taken THEN 0 ELSE 1
<1>1. /\ req[c].word = "wrong" /\ req[c].pc = "read"
      /\ tickets' = [tickets EXCEPT ![k].tries = @ + more]
      /\ End(c) /\ UNCHANGED <<user, sessions, minted, drawn, wrong>>
  BY DEF WrongCode
<1>2. req[c].op \in Codes
  BY <1>1, Served DEF Idle, Holds
<1>3. user \in User
  BY <1>1, <1>2, Served DEF Codes, Words, Operations, Idle
<1>4. tickets \in Seq(Ticket) /\ UsedOnce
  BY DEF AccessInvariant, AccountTypes
<1>5. \A i \in DOMAIN tickets : tickets[i] \in Ticket
  BY <1>4, LenProperties, ElementOfSeq
<1>6. tickets' = [i \in DOMAIN tickets |->
                   IF i = k THEN [tickets[i] EXCEPT !.tries = @ + more] ELSE tickets[i]]
  BY <1>1
<1>7. more \in Nat
  OBVIOUS
<1> HIDE DEF more
<1>8. ASSUME NEW i \in DOMAIN tickets
      PROVE  /\ tickets'[i] \in Ticket /\ tickets'[i].kind = tickets[i].kind
             /\ tickets'[i].uses = tickets[i].uses /\ tickets'[i].taken = tickets[i].taken
  <2>1. CASE i = k
    <3>1. tickets'[i] = [tickets[i] EXCEPT !.tries = @ + more] /\ tickets[i] \in Ticket
      BY <1>5, <1>6, <2>1
    <3>2. tickets'[i] = [kind |-> tickets[i].kind, taken |-> tickets[i].taken,
                         lapsed |-> tickets[i].lapsed, tries |-> tickets[i].tries + more,
                         uses |-> tickets[i].uses]
      BY <3>1 DEF Ticket
    <3> QED BY <1>7, <3>1, <3>2 DEF Ticket
  <2>2. CASE i # k
    BY <1>5, <1>6, <2>2
  <2> QED BY <2>1, <2>2
<1>9. tickets' = [i \in DOMAIN tickets |-> tickets'[i]]
  BY <1>6
<1>10. TicketsOnward
  BY <1>4, <1>8, <1>9, TicketChanged
<1>11. Onward
  BY <1>1, <1>3, <1>10, NoneIsNothing, LeftAlone, AccountGoesOn
<1> QED BY <1>1, <1>11, Ended

(* A right code claims its ticket.                                         *)
LEMMA RightCodeKeeps ==
  ASSUME AccessInvariant, NEW c \in Callers, RightCode(c)
  PROVE  AccessInvariant'
<1>1. /\ req[c].word = "right" /\ req[c].pc = "read" /\ ~tickets[req[c].on].taken
      /\ Take(req[c].on) /\ Goto(c, "verified", None)
      /\ UNCHANGED <<user, sessions, minted, drawn, wrong>>
  BY DEF RightCode, Claimable
<1>2. req[c].op \in Codes
  BY <1>1, Served DEF Idle, Holds
<1>3. user \in User
  BY <1>1, <1>2, Served DEF Codes, Words, Operations, Idle
<1>6. tickets[req[c].on].kind # "reset"
  BY <1>1, <1>2, Served DEF Idle, Holds, Codes
<1>4. TicketsOnward
  BY <1>1, <1>6, TicketTaken DEF AccessInvariant, AccountTypes
<1>5. Onward
  BY <1>1, <1>3, <1>4, NoneIsNothing, LeftAlone, AccountGoesOn
<1> QED BY <1>1, <1>2, <1>3, <1>5, NoneIsNothing, Went DEF Codes

(* A claimed code of a phone verifies it.                                  *)
LEMMA VerifyPhoneKeeps ==
  ASSUME AccessInvariant, NEW c \in Callers, VerifyPhone(c)
  PROVE  AccessInvariant'
<1>1. /\ req[c].op = "signup" /\ req[c].pc = "verified"
      /\ user' = [user EXCEPT !.phone = TRUE]
      /\ End(c) /\ UNCHANGED <<sessions, tickets, minted, drawn, wrong>>
  BY DEF VerifyPhone, At
<1>2. user \in User
  BY <1>1, Served DEF Idle
<1>3. user' = [password |-> user.password, past |-> user.past, version |-> user.version,
               failed |-> user.failed, locked |-> user.locked, phone |-> TRUE,
               verified |-> user.verified, link |-> user.link]
  BY <1>1, <1>2 DEF User
<1>4. user' \in User /\ user'.version = user.version /\ user.version \in Nat
  BY <1>2, <1>3 DEF User
<1>row. UserOnward /\ user' # None
  BY <1>4, RowOnward
<1>5. Onward
  BY <1>1, <1>row, LeftAlone, AccountGoesOn
<1> QED BY <1>1, <1>5, Ended

(* A claimed code of a device admits it.                                   *)
LEMMA AdmitDeviceKeeps ==
  ASSUME AccessInvariant, NEW c \in Callers, AdmitDevice(c)
  PROVE  AccessInvariant'
<1>1. /\ req[c].op = "new_device_login" /\ req[c].pc = "verified" /\ Goto(c, "complete", user)
      /\ UNCHANGED <<user, sessions, tickets, minted, drawn, wrong>>
  BY DEF AdmitDevice, At
<1>2. user \in User /\ req[c].device \in Devices
  BY <1>1, Served DEF Holds, Operations, Idle
<1>3. user.version \in Nat
  BY <1>2 DEF User
<1>4. Onward
  BY <1>1, <1>2, NoneIsNothing, LeftAlone, AccountGoesOn
<1>5. PICK u \in User : u = user
  BY <1>2
<1> QED BY <1>1, <1>2, <1>3, <1>4, <1>5, NoneIsNothing, Went

(* A refresh revokes the session it came with and opens the next.          *)
LEMMA RotateKeeps ==
  ASSUME AccessInvariant, NEW c \in Callers, Rotate(c)
  PROVE  AccessInvariant'
<1> DEFINE s == req[c].on
<1>1. /\ req[c].op = "refresh" /\ req[c].pc = "read"
      /\ UNCHANGED <<user, tickets, minted, wrong>>
  BY DEF Rotate, At
<1>2. user \in User
  BY <1>1, Served DEF Operations, Idle
<1>3. CASE req[c].word = "idle"
  <2>1. Revoked(s) /\ End(c) /\ drawn' = drawn
    BY <1>3 DEF Rotate
  <2>2. Onward
    BY <1>1, <1>2, <2>1, NoneIsNothing, SessionRevoked, LeftAlone, AccountGoesOn
  <2> QED BY <2>1, <2>2, Ended
<1>4. CASE req[c].word # "idle"
  <2>1. /\ sessions' = [sessions EXCEPT ![s] = Rotated(s)] /\ drawn' = drawn + 1
        /\ Goto(c, "rotated", None)
    BY <1>4 DEF Rotate
  <2>2. drawn \in Nat /\ drawn' \in Nat
    BY <2>1 DEF AccessInvariant, AccountTypes
  <2>3. ASSUME NEW i \in DOMAIN sessions PROVE sessions'[i] \in Session
    <3>1. sessions[i] \in Session
      BY SessionRows
    <3>2. CASE i = s
      <4>1. sessions'[i] = [sessions[i] EXCEPT !.token = drawn + 1, !.idle = FALSE]
        BY <2>1, <3>2 DEF Rotated
      <4>2. sessions'[i] = [token |-> drawn + 1, device |-> sessions[i].device,
                            revoked |-> sessions[i].revoked, idle |-> FALSE,
                            seen |-> sessions[i].seen, ended |-> sessions[i].ended]
        BY <3>1, <4>1 DEF Session
      <4> QED BY <2>2, <3>1, <4>2 DEF Session
    <3>3. CASE i # s
      BY <2>1, <3>1, <3>3
    <3> QED BY <3>2, <3>3
  <2>4. sessions' = [i \in DOMAIN sessions |-> sessions'[i]]
    BY <2>1
  <2>5. SessionsOnward
    BY <2>3, <2>4, SessionsChanged
  <2>6. Onward
    BY <1>1, <1>2, <2>2, <2>5, NoneIsNothing, LeftAlone, AccountGoesOn
  <2> QED BY <1>1, <1>2, <2>1, <2>6, NoneIsNothing, Went
<1> QED BY <1>3, <1>4

(* An access token carries the version of the account as it was read.      *)
LEMMA MintKeeps ==
  ASSUME AccessInvariant, NEW c \in Callers, Mint(c)
  PROVE  AccessInvariant'
<1>1. /\ req[c].op = "refresh" /\ req[c].pc = "rotated"
      /\ minted' = minted \cup {[session |-> req[c].on, version |-> user.version]}
      /\ End(c) /\ UNCHANGED <<user, sessions, tickets, drawn, wrong>>
  BY DEF Mint, At
<1>2. user \in User /\ req[c].on \in DOMAIN sessions
  BY <1>1, Served DEF Holds, Operations, Idle
<1>3. user.version \in Nat
  BY <1>2 DEF User
<1>4. /\ UserOnward /\ SessionsOnward /\ TicketsOnward /\ drawn' \in Nat /\ wrong' \in Nat
  BY <1>1, LeftAlone
<1>5. minted' \subseteq [session : DOMAIN sessions', version : Nat]
  BY <1>1, <1>2, <1>3 DEF AccessInvariant, AccountTypes
<1>6. Behind'
  BY <1>1, <1>2, <1>3, NoneIsNothing DEF AccessInvariant, Behind
<1> QED BY <1>1, <1>4, <1>5, <1>6, Ended DEF Onward

(* A logout revokes its session.                                           *)
LEMMA LogoutKeeps ==
  ASSUME AccessInvariant, NEW c \in Callers, Logout(c)
  PROVE  AccessInvariant'
<1>1. /\ req[c].op = "logout" /\ req[c].pc = "read" /\ Revoked(req[c].on)
      /\ End(c) /\ UNCHANGED <<user, tickets, minted, drawn, wrong>>
  BY DEF Logout, At
<1>2. user \in User
  BY <1>1, Served DEF Operations, Idle
<1>3. Onward
  BY <1>1, <1>2, NoneIsNothing, SessionRevoked, LeftAlone, AccountGoesOn
<1> QED BY <1>1, <1>3, Ended

(* Logging out everywhere first outdates the access tokens ...             *)
LEMMA BumpVersionKeeps ==
  ASSUME AccessInvariant, NEW c \in Callers, BumpVersion(c)
  PROVE  AccessInvariant'
<1>1. /\ req[c].op = "logout_all" /\ req[c].pc = "read"
      /\ user' = [user EXCEPT !.version = @ + 1] /\ Goto(c, "bumped", None)
      /\ UNCHANGED <<sessions, tickets, minted, drawn, wrong>>
  BY DEF BumpVersion, At
<1>2. user \in User
  BY <1>1, Served DEF Operations, Idle
<1>3. user' = [password |-> user.password, past |-> user.past, version |-> user.version + 1,
               failed |-> user.failed, locked |-> user.locked, phone |-> user.phone,
               verified |-> user.verified, link |-> user.link]
  BY <1>1, <1>2 DEF User
<1>4. user' \in User /\ user'.version = user.version + 1 /\ user.version \in Nat
  BY <1>2, <1>3 DEF User
<1>5. user.version <= user'.version
  BY <1>4
<1>6. Onward
  BY <1>1, <1>4, <1>5, RowOnward, LeftAlone, AccountGoesOn
<1> QED BY <1>1, <1>2, <1>6, NoneIsNothing, Went

(* ... then finds the sessions ...                                         *)
LEMMA FindSessionsKeeps ==
  ASSUME AccessInvariant, NEW c \in Callers, FindSessions(c)
  PROVE  AccessInvariant'
BY Finds DEF FindSessions, At

(* ... and revokes those that are live.                                    *)
LEMMA RevokeAllKeeps ==
  ASSUME AccessInvariant, NEW c \in Callers, RevokeAll(c)
  PROVE  AccessInvariant'
<1>1. /\ req[c].op = "logout_all" /\ req[c].pc = "found"
      /\ sessions' = AllEnded(req[c].upTo, user.version)
      /\ End(c) /\ UNCHANGED <<user, tickets, minted, drawn, wrong>>
  BY DEF RevokeAll, At
<1>2. user \in User
  BY <1>1, Served DEF Operations, Idle
<1>3. user.version \in Nat /\ req[c].upTo \in Nat
  BY <1>2 DEF User, AccessInvariant, AccountTypes, Request
<1>4. SessionsOnward
  BY <1>1, <1>3, SessionsEnded
<1>5. Onward
  BY <1>1, <1>2, <1>4, NoneIsNothing, LeftAlone, AccountGoesOn
<1> QED BY <1>1, <1>5, Ended

(* A reset claims its link, one at a time.                                 *)
LEMMA ClaimResetKeeps ==
  ASSUME AccessInvariant, NEW c \in Callers, ClaimReset(c)
  PROVE  AccessInvariant'
BY Finds DEF ClaimReset, Claimable, At

(* It ends the sessions it had found and leaves every token behind it.     *)
LEMMA ResetKeeps ==
  ASSUME AccessInvariant, NEW c \in Callers, Reset(c)
  PROVE  /\ AccessInvariant'
         /\ Resetting(c)
         /\ \A s \in DOMAIN sessions' : sessions'[s].revoked \/ s > req[c].upTo
         /\ \A t \in minted' : t.version # user'.version
<1>1. /\ Resetting(c) /\ req[c].op = "reset" /\ req[c].pc = "found"
      /\ Take(req[c].on)
      /\ user' = [user EXCEPT !.password = req[c].word, !.past = Append(@, req[c].word),
                              !.version = @ + 1]
      /\ sessions' = AllEnded(req[c].upTo, user.version + 1)
      /\ End(c) /\ UNCHANGED <<minted, drawn, wrong>>
  BY DEF Reset, Resetting, At
<1>2. /\ user \in User /\ req[c].word \in Passwords /\ ~tickets[req[c].on].taken
      /\ req[c].upTo \in Nat /\ tickets \in Seq(Ticket) /\ UsedOnce
  <2>1. user \in User /\ Holds(req[c]) /\ req[c] \in Request
    BY <1>1, Served DEF Operations, Idle
  <2> QED BY <1>1, <2>1 DEF Holds, Request, AccessInvariant, AccountTypes
<1>3. user' = [password |-> req[c].word, past |-> Append(user.past, req[c].word),
               version |-> user.version + 1,
               failed |-> user.failed, locked |-> user.locked, phone |-> user.phone,
               verified |-> user.verified, link |-> user.link]
  BY <1>1, <1>2 DEF User
<1>4. Append(user.past, req[c].word) \in Seq(Passwords)
  <2>1. user.past \in Seq(Passwords)
    BY <1>2 DEF User
  <2> QED BY <1>2, <2>1, AppendProperties
<1>5. user' \in User /\ user'.version = user.version + 1 /\ user.version \in Nat
  BY <1>2, <1>3, <1>4 DEF User
<1>6. user.version <= user'.version
  BY <1>5
<1>7. PICK v \in Nat : v = user.version + 1
  BY <1>5
<1>8. /\ SessionsOnward
      /\ \A s \in DOMAIN sessions' : sessions'[s].revoked \/ s > req[c].upTo
  BY <1>1, <1>2, <1>7, SessionsEnded
<1>12. ResetEnds
  BY <1>1 DEF ResetEnds, End, AccessInvariant, AccountTypes
<1>9. TicketsOnward
  BY <1>1, <1>2, <1>12, TicketTaken
<1>10. Onward
  BY <1>1, <1>5, <1>6, <1>8, <1>9, RowOnward, LeftAlone, AccountGoesOn
<1>11. ASSUME NEW t \in minted' PROVE t.version # user'.version
  <2>1. t \in minted /\ t.version \in Nat
    BY <1>1 DEF AccessInvariant, AccountTypes
  <2>2. t.version <= user.version
    BY <1>2, <2>1, NoneIsNothing DEF AccessInvariant, Behind
  <2> QED BY <1>5, <2>1, <2>2
<1> QED BY <1>1, <1>8, <1>10, <1>11, Ended

(* A session passes its idle limit.                                        *)
LEMMA GoIdleKeeps ==
  ASSUME AccessInvariant, NEW s \in DOMAIN sessions, GoIdle(s)
  PROVE  AccessInvariant'
<1>1. /\ sessions' = [sessions EXCEPT ![s].idle = TRUE]
      /\ UNCHANGED <<user, tickets, minted, drawn, wrong, req, asked, workload>>
  BY DEF GoIdle
<1>2. user # None
  <2>1. CASE sessions = <<>>
    BY <2>1, EmptySeq, LenProperties
  <2>2. CASE sessions # <<>>
    BY <2>2 DEF AccessInvariant, Behind
  <2> QED BY <2>1, <2>2
<1>3. ASSUME NEW i \in DOMAIN sessions PROVE sessions'[i] \in Session
  <2>1. sessions[i] \in Session
    BY SessionRows
  <2>2. CASE i = s
    <3>1. sessions'[i] = [sessions[i] EXCEPT !.idle = TRUE]
      BY <1>1, <2>2
    <3>2. sessions'[i] = [token |-> sessions[i].token, device |-> sessions[i].device,
                          revoked |-> sessions[i].revoked, idle |-> TRUE,
                          seen |-> sessions[i].seen, ended |-> sessions[i].ended]
      BY <2>1, <3>1 DEF Session
    <3> QED BY <2>1, <3>2 DEF Session
  <2>3. CASE i # s
    BY <1>1, <2>1, <2>3
  <2> QED BY <2>2, <2>3
<1>4. sessions' = [i \in DOMAIN sessions |-> sessions'[i]]
  BY <1>1
<1>5. SessionsOnward
  BY <1>3, <1>4, SessionsChanged
<1>6. Onward /\ asked' \in 0..workload.requests
  BY <1>1, <1>2, <1>5, LeftAlone, AccountGoesOn
<1> QED BY <1>1, <1>6, RequestsWait

(* A ticket passes its expiry.                                             *)
LEMMA LapseKeeps ==
  ASSUME AccessInvariant, NEW k \in DOMAIN tickets, Lapse(k)
  PROVE  AccessInvariant'
<1>1. /\ tickets' = [tickets EXCEPT ![k].lapsed = TRUE]
      /\ UNCHANGED <<user, sessions, minted, drawn, wrong, req, asked, workload>>
  BY DEF Lapse
<1>2. tickets \in Seq(Ticket) /\ UsedOnce /\ Behind
      /\ minted \subseteq [session : DOMAIN sessions, version : Nat]
  BY DEF AccessInvariant, AccountTypes
<1>3. \A i \in DOMAIN tickets : tickets[i] \in Ticket
  BY <1>2, LenProperties, ElementOfSeq
<1>4. ASSUME NEW i \in DOMAIN tickets
      PROVE  /\ tickets'[i] \in Ticket /\ tickets'[i].kind = tickets[i].kind
             /\ tickets'[i].uses = tickets[i].uses /\ tickets'[i].taken = tickets[i].taken
  <2>1. CASE i = k
    <3>1. tickets'[i] = [tickets[i] EXCEPT !.lapsed = TRUE] /\ tickets[i] \in Ticket
      BY <1>1, <1>3, <2>1
    <3>2. tickets'[i] = [kind |-> tickets[i].kind, taken |-> tickets[i].taken,
                         lapsed |-> TRUE, tries |-> tickets[i].tries, uses |-> tickets[i].uses]
      BY <3>1 DEF Ticket
    <3> QED BY <3>1, <3>2 DEF Ticket
  <2>2. CASE i # k
    BY <1>1, <1>3, <2>2
  <2> QED BY <2>1, <2>2
<1>5. tickets' = [i \in DOMAIN tickets |-> tickets'[i]]
  BY <1>1
<1>6. TicketsOnward /\ DOMAIN tickets' = DOMAIN tickets
  BY <1>2, <1>4, <1>5, TicketChanged
<1>7. Behind'
  BY <1>1, <1>2, <1>4, <1>6 DEF Behind
<1>8. Onward /\ asked' \in 0..workload.requests
  BY <1>1, <1>2, <1>6, <1>7, LeftAlone DEF Onward
<1> QED BY <1>1, <1>8, RequestsWait

(* A login that is refused is only counted.                                *)
LEMMA LoginRefusedKeeps ==
  ASSUME AccessInvariant, LoginRefused
  PROVE  AccessInvariant'
<1>1. /\ asked < workload.requests /\ asked' = asked + 1
      /\ UNCHANGED <<user, sessions, tickets, minted, drawn, wrong, req, workload>>
  BY DEF LoginRefused
<1>2. workload.requests \in Nat /\ asked \in 0..workload.requests
  BY AccessAssumption DEF AccessInvariant, AccountTypes
<1>3. asked' \in 0..workload.requests
  BY <1>1, <1>2
<1>4. Onward
  BY <1>1, LeftAlone DEF AccessInvariant, AccountTypes, Onward, Behind
<1> QED BY <1>1, <1>3, <1>4, RequestsWait

(* A reset of the password is requested.                                   *)
LEMMA RequestResetKeeps ==
  ASSUME AccessInvariant, RequestReset
  PROVE  AccessInvariant'
<1>1. /\ asked < workload.requests /\ asked' = asked + 1 /\ user # None
      /\ tickets' = Append(tickets, NewTicket("reset")) /\ "reset" \in Kinds
      /\ UNCHANGED <<user, sessions, minted, drawn, wrong, req, workload>>
  BY DEF RequestReset, Kinds
<1>2. TicketsOnward
  BY <1>1, TicketAdded DEF AccessInvariant, AccountTypes
<1>3. workload.requests \in Nat /\ asked \in 0..workload.requests
  BY AccessAssumption DEF AccessInvariant, AccountTypes
<1>4. asked' \in 0..workload.requests
  BY <1>1, <1>3
<1>5. Onward
  BY <1>1, <1>2, LeftAlone, AccountGoesOn
<1> QED BY <1>1, <1>4, <1>5, RequestsWait
(* What each kind of request may ask, and when.                            *)
LEMMA AsksKeep ==
  ASSUME AccessInvariant, NEW c \in Callers,
         \/ AskSignup(c) \/ AskInvite(c) \/ AskVerifyEmail(c) \/ AskLogin(c)
         \/ AskGoogleLogin(c) \/ AskLogoutAll(c)
         \/ \E k \in DOMAIN tickets : AskAccept(c, k) \/ AskCode(c, k) \/ AskReset(c, k)
         \/ \E s \in DOMAIN sessions : AskSession(c, s)
  PROVE  AccessInvariant'
<1>1. /\ workload.passwords \subseteq Passwords
      /\ Passwords \cap Words = {} /\ None \notin Words /\ 0 \in Nat
      /\ Codes \subseteq Operations
  BY AccessAssumption DEF AccessInvariant, AccountTypes, Codes, Operations
<1>2. /\ \A k \in DOMAIN tickets : k \in Nat /\ (tickets[k].kind # "invite" => user # None)
      /\ \A s \in DOMAIN sessions : s \in Nat /\ user # None
  <2>1. tickets \in Seq(Ticket) /\ sessions \in Seq(Session) /\ Behind
    BY DEF AccessInvariant, AccountTypes
  <2>2. /\ \A k \in DOMAIN tickets : k \in Nat
        /\ \A s \in DOMAIN sessions : s \in Nat
    BY <2>1, LenProperties
  <2>3. DOMAIN <<>> = {}
    OBVIOUS
  <2> QED BY <2>1, <2>2, <2>3 DEF Behind
<1>3. CASE AskSignup(c)
  <2>1. PICK p \in workload.passwords \cup {None}, d \in Devices : Ask(c, "signup", 0, p, d)
    BY <1>3 DEF AskSignup
  <2>2. p \in Passwords \cup {None} /\ p \notin Words /\ "signup" \in Operations
    BY <1>1, <2>1 DEF Operations
  <2> QED BY <1>1, <2>1, <2>2, Asked DEF Words
<1>4. CASE AskInvite(c)
  <2>1. Ask(c, "invite", 0, None, None) /\ "invite" \in Operations
    BY <1>4 DEF AskInvite, Operations
  <2> QED BY <1>1, <2>1, Asked DEF Words
<1>5. CASE AskVerifyEmail(c)
  <2>1. user # None /\ Ask(c, "email", 0, None, None) /\ "email" \in Operations
    BY <1>5 DEF AskVerifyEmail, Operations
  <2> QED BY <1>1, <2>1, Asked DEF Words
<1>6. CASE AskLogin(c)
  <2>1. PICK p \in Passwords, d \in Devices : user # None /\ Ask(c, "login", 0, p, d)
    BY <1>6 DEF AskLogin
  <2>2. p \notin Words /\ "login" \in Operations
    BY <1>1, <2>1 DEF Operations
  <2> QED BY <1>1, <2>1, <2>2, Asked DEF Words
<1>7. CASE AskGoogleLogin(c)
  <2>1. PICK d \in Devices : user # None /\ Ask(c, "google", 0, None, d)
    BY <1>7 DEF AskGoogleLogin
  <2>2. "google" \in Operations
    BY DEF Operations
  <2> QED BY <1>1, <2>1, <2>2, Asked DEF Words
<1>8. CASE AskLogoutAll(c)
  <2>1. user # None /\ Ask(c, "logout_all", 0, None, None) /\ "logout_all" \in Operations
    BY <1>8 DEF AskLogoutAll, Authenticated, Operations
  <2> QED BY <1>1, <2>1, Asked DEF Words
<1>9. ASSUME NEW k \in DOMAIN tickets, AskAccept(c, k) PROVE AccessInvariant'
  <2>1. PICK p \in workload.passwords : tickets[k].kind = "invite" /\ Ask(c, "accept", k, p, None)
    BY <1>9 DEF AskAccept
  <2>2. p \in Passwords /\ p \notin Words /\ "accept" \in Operations /\ k \in Nat
    BY <1>1, <1>2, <2>1 DEF Operations
  <2> QED BY <1>1, <2>1, <2>2, Asked DEF Words
<1>10. ASSUME NEW k \in DOMAIN tickets, AskCode(c, k) PROVE AccessInvariant'
  <2>1. PICK right \in {"right", "wrong"}, d \in Devices :
          tickets[k].kind \in Codes /\ Ask(c, tickets[k].kind, k, right, d)
    BY <1>10 DEF AskCode, Codes
  <2>2. PICK op \in Codes : op = tickets[k].kind
    BY <2>1
  <2>3. right \in Words /\ op \in Operations /\ k \in Nat /\ user # None
    BY <1>1, <1>2, <2>1, <2>2 DEF Words, Codes
  <2> QED BY <1>1, <2>1, <2>2, <2>3, Asked DEF Words, Codes
<1>11. ASSUME NEW k \in DOMAIN tickets, AskReset(c, k) PROVE AccessInvariant'
  <2>1. PICK p \in Passwords : tickets[k].kind = "reset" /\ Ask(c, "reset", k, p, None)
    BY <1>11 DEF AskReset
  <2>2. p \notin Words /\ "reset" \in Operations /\ k \in Nat /\ user # None
    BY <1>1, <1>2, <2>1 DEF Operations
  <2> QED BY <1>1, <2>1, <2>2, Asked DEF Words
<1>12. ASSUME NEW s \in DOMAIN sessions, AskSession(c, s) PROVE AccessInvariant'
  <2> DEFINE word == IF sessions[s].idle THEN "idle" ELSE None
  <2>1. PICK op \in {"refresh", "logout"} : Ask(c, op, s, word, None)
    BY <1>12 DEF AskSession
  <2>2. word \in Words \cup {None} /\ word \notin {"right", "wrong"}
    BY <1>1 DEF Words
  <2> HIDE DEF word
  <2>3. op \in Operations /\ s \in Nat /\ user # None
    BY <1>2, <2>1 DEF Operations
  <2> QED BY <1>1, <2>1, <2>2, <2>3, Asked DEF Words
<1> QED BY <1>3, <1>4, <1>5, <1>6, <1>7, <1>8, <1>9, <1>10, <1>11, <1>12

(* Every step of the accounts keeps the invariant.                         *)
LEMMA AccessStep ==
  ASSUME AccessInvariant, [Next]_vars
  PROVE  AccessInvariant'
<1>1. ASSUME NEW c \in Callers, Step(c) PROVE AccessInvariant'
  BY <1>1, SignupKeeps, InviteKeeps, AcceptKeeps, VerifyEmailKeeps, WrongPasswordKeeps,
     KnownDeviceKeeps, NewDeviceKeeps, ClearFailuresKeeps, OpenSessionKeeps, WrongCodeKeeps,
     RightCodeKeeps, VerifyPhoneKeeps, AdmitDeviceKeeps, RotateKeeps, MintKeeps, LogoutKeeps,
     BumpVersionKeeps, FindSessionsKeeps, RevokeAllKeeps, ClaimResetKeeps, ResetKeeps,
     AbandonKeeps, AsksKeep DEF Step
<1>2. ASSUME UNCHANGED accountVars PROVE AccessInvariant'
  BY <1>2, LeftAlone, RequestsWait
     DEF accountVars, AccessInvariant, AccountTypes, Onward, Behind
<1>3. UNCHANGED vars => UNCHANGED accountVars
  BY DEF vars
<1>4. CASE Next
  BY <1>1, <1>2, <1>3, <1>4, AsksKeep, LoginRefusedKeeps, RequestResetKeeps, LapseKeeps, GoIdleKeeps
     DEF Next, Quiescent
<1> QED BY <1>2, <1>3, <1>4

(* The invariant holds before anybody came.                                *)
LEMMA AccessInit == Init => AccessInvariant
<1> SUFFICES ASSUME Init PROVE AccessInvariant
  OBVIOUS
<1>1. workload \in Workloads /\ workload.passwords \subseteq Passwords /\ workload.requests \in Nat
  BY AccessAssumption DEF Init
<1>2. user \in User \cup {None} /\ (user # None => user \in User)
  BY <1>1, AccountMade DEF Init
<1>3. Idle \in Request
  BY DEF Idle, Request
<1>4. Holds(Idle)
  BY AccessAssumption DEF Holds, Early, Idle, Words, Operations
<1>5. /\ sessions = <<>> /\ tickets = <<>> /\ minted = {} /\ drawn = 0 /\ wrong = 0 /\ asked = 0
      /\ req = [c \in Callers |-> Idle]
  BY DEF Init
<1>6. OneReset
  BY <1>5 DEF OneReset, Resetting, At, Idle
<1> QED BY <1>1, <1>2, <1>3, <1>4, <1>5, <1>6
        DEF AccessInvariant, AccountTypes, Behind, UsedOnce

(* The upsert counts one more than was let through.                        *)
LEMMA Incremented ==
  ASSUME LimiterInvariant, Increment
  PROVE  /\ counter' \in Counter /\ counter'.age = "live" /\ counter' = Upserted(counter)
         /\ counter'.count \in Nat /\ admitted < counter'.count
<1>1. counter \in Counter \cup {None} /\ admitted \in Nat /\ counter' = Upserted(counter)
  BY DEF LimiterInvariant, LimiterTypeOK, Increment
<1>2. CASE counter = None \/ counter.age # "live"
  <2>1. counter' = [count |-> 1, age |-> "live"] /\ admitted = 0
    BY <1>1, <1>2 DEF Upserted, LimiterInvariant
  <2> QED BY <1>1, <2>1 DEF Counter, Ages
<1>3. CASE counter # None /\ counter.age = "live"
  <2>1. counter \in Counter /\ counter' = [counter EXCEPT !.count = @ + 1]
    BY <1>1, <1>3 DEF Upserted
  <2>2. counter' = [count |-> counter.count + 1, age |-> counter.age] /\ counter.count \in Nat
    BY <2>1 DEF Counter
  <2>3. admitted <= counter.count
    BY <1>3 DEF LimiterInvariant
  <2>4. counter'.count = counter.count + 1 /\ counter'.age = "live"
    BY <1>3, <2>2
  <2>5. counter' \in Counter
    BY <1>3, <2>1, <2>2 DEF Counter
  <2> QED BY <1>1, <2>2, <2>3, <2>4, <2>5
<1> QED BY <1>2, <1>3

(* Every step keeps what the limiter has admitted in its window.           *)
LEMMA LimiterStep ==
  ASSUME LimiterInvariant, [Next]_vars
  PROVE  LimiterInvariant'
<1>1. /\ counter \in Counter \cup {None} /\ admitted \in Nat
      /\ windows \in 0..MaxWindows /\ outages \in 0..MaxOutages
      /\ WindowMax \in Nat /\ MaxWindows \in Nat /\ MaxOutages \in Nat
      /\ 1 <= WindowMax /\ admitted <= WindowMax
  BY LimiterAssumption DEF LimiterInvariant, LimiterTypeOK
<1>2. CASE UNCHANGED limiterVars
  BY <1>2 DEF limiterVars, LimiterInvariant, LimiterTypeOK
<1>3. CASE LetThrough
  <2>1. CASE Increment /\ ~Refused(Upserted(counter)) /\ admitted' = admitted + 1
    <3>1. /\ counter' \in Counter /\ counter'.age = "live" /\ counter' = Upserted(counter)
          /\ counter'.count \in Nat /\ admitted < counter'.count
      BY <2>1, Incremented
    <3>2. counter'.count <= WindowMax
      BY <1>1, <2>1, <3>1 DEF Refused
    <3>3. admitted' \in Nat /\ admitted' <= counter'.count /\ admitted' <= WindowMax
      BY <1>1, <2>1, <3>1, <3>2
    <3>4. windows' = windows /\ outages' = outages
      BY <2>1 DEF Increment
    <3> QED BY <1>1, <3>1, <3>3, <3>4, NoneIsNoCounter DEF LimiterInvariant, LimiterTypeOK
  <2>2. CASE /\ outages < MaxOutages /\ outages' = outages + 1
             /\ UNCHANGED <<counter, admitted, windows>>
    BY <1>1, <2>2 DEF LimiterInvariant, LimiterTypeOK
  <2> QED BY <1>3, <2>1, <2>2 DEF LetThrough
<1>4. CASE TurnedAway
  <2>1. CASE Increment /\ UNCHANGED admitted
    <3>1. /\ counter' \in Counter /\ counter'.age = "live"
          /\ counter'.count \in Nat /\ admitted < counter'.count
      BY <2>1, Incremented
    <3>2. windows' = windows /\ outages' = outages
      BY <2>1 DEF Increment
    <3>3. admitted' \in Nat /\ admitted' <= counter'.count /\ admitted' <= WindowMax
      BY <1>1, <2>1, <3>1
    <3> QED BY <1>1, <3>1, <3>2, <3>3, NoneIsNoCounter DEF LimiterInvariant, LimiterTypeOK
  <2>2. CASE /\ outages < MaxOutages /\ outages' = outages + 1
             /\ UNCHANGED <<counter, admitted, windows>>
    BY <1>1, <2>2 DEF LimiterInvariant, LimiterTypeOK
  <2> QED BY <1>4, <2>1, <2>2 DEF TurnedAway
<1>5. CASE WindowEnds
  <2>1. /\ counter \in Counter /\ counter' = [counter EXCEPT !.age = "over"]
        /\ windows < MaxWindows
        /\ admitted' = 0 /\ windows' = windows + 1 /\ outages' = outages
    BY <1>1, <1>5 DEF WindowEnds
  <2>2. counter' = [count |-> counter.count, age |-> "over"]
    BY <2>1 DEF Counter
  <2>3. counter' \in Counter /\ counter'.age # "live"
    BY <2>1, <2>2 DEF Counter, Ages
  <2> QED BY <1>1, <2>1, <2>3 DEF LimiterInvariant, LimiterTypeOK
<1>6. CASE DayPasses
  <2>1. /\ counter \in Counter /\ counter' = [counter EXCEPT !.age = "old"]
        /\ admitted = 0 /\ UNCHANGED <<admitted, windows, outages>>
    BY <1>1, <1>6 DEF DayPasses, LimiterInvariant
  <2>2. counter' = [count |-> counter.count, age |-> "old"]
    BY <2>1 DEF Counter
  <2>3. counter' \in Counter /\ counter'.age # "live"
    BY <2>1, <2>2 DEF Counter, Ages
  <2> QED BY <1>1, <2>1, <2>3 DEF LimiterInvariant, LimiterTypeOK
<1>7. CASE Cleanup
  <2>1. counter' = None /\ admitted = 0 /\ UNCHANGED <<admitted, windows, outages>>
    BY <1>7 DEF Cleanup, Sweepable, LimiterInvariant
  <2> QED BY <1>1, <2>1 DEF LimiterInvariant, LimiterTypeOK
<1>8. [Next]_vars => UNCHANGED limiterVars \/ LetThrough \/ Limiter
  BY DEF Next, AskLogin, LoginRefused, Quiescent, vars
<1> QED BY <1>2, <1>3, <1>4, <1>5, <1>6, <1>7, <1>8 DEF Limiter

------------------------------------------------------------------------------
(* No step revives a session.                                              *)
LEMMA NoneRevived ==
  ASSUME AccessInvariant, [Next]_vars, NEW s \in DOMAIN sessions, ~Live(s)
  PROVE  sessions'[s].revoked
<1>1. sessions \in Seq(Session) /\ sessions[s] \in Session /\ sessions[s].revoked
  BY SessionRows DEF AccessInvariant, AccountTypes, Live
<1>2. CASE UNCHANGED sessions
  BY <1>1, <1>2
<1>3. ASSUME NEW u, NEW device, Issue(u, device) PROVE sessions'[s].revoked
  <2>1. PICK row : sessions' = Append(sessions, row)
    BY <1>3 DEF Issue
  <2>2. sessions'[s] = sessions[s]
    BY <1>1, <2>1, AppendProperties, LenProperties
  <2> QED BY <1>1, <2>2
<1>4. ASSUME NEW i, Revoked(i) PROVE sessions'[s].revoked
  <2>1. CASE i = s
    <3>1. sessions'[s] = [sessions[s] EXCEPT !.revoked = TRUE]
      BY <1>4, <2>1 DEF Revoked
    <3> QED BY <1>1, <3>1 DEF Session
  <2>2. CASE i # s
    BY <1>1, <1>4, <2>2 DEF Revoked
  <2> QED BY <2>1, <2>2
<1>5. ASSUME NEW i, sessions' = [sessions EXCEPT ![i] = Rotated(i)] PROVE sessions'[s].revoked
  <2>1. CASE i = s
    <3>1. sessions'[s] = [sessions[s] EXCEPT !.token = drawn + 1, !.idle = FALSE]
      BY <1>5, <2>1 DEF Rotated
    <3> QED BY <1>1, <3>1 DEF Session
  <2>2. CASE i # s
    BY <1>1, <1>5, <2>2
  <2> QED BY <2>1, <2>2
<1>6. ASSUME NEW n, NEW v, sessions' = AllEnded(n, v) PROVE sessions'[s].revoked
  BY <1>1, <1>6 DEF AllEnded, Live
<1>7. ASSUME NEW i, GoIdle(i) PROVE sessions'[s].revoked
  <2>1. CASE i = s
    <3>1. sessions'[s] = [sessions[s] EXCEPT !.idle = TRUE]
      BY <1>7, <2>1 DEF GoIdle
    <3> QED BY <1>1, <3>1 DEF Session
  <2>2. CASE i # s
    BY <1>1, <1>7, <2>2 DEF GoIdle
  <2> QED BY <2>1, <2>2
<1>8. ASSUME NEW c \in Callers, Step(c)
      PROVE  \/ UNCHANGED sessions
             \/ \E u, device : Issue(u, device)
             \/ \E i : Revoked(i) \/ sessions' = [sessions EXCEPT ![i] = Rotated(i)]
             \/ \E n, v : sessions' = AllEnded(n, v)
  BY <1>8 DEF Step, AskSignup, Signup, AskInvite, Invite, Accept, AskVerifyEmail, VerifyEmail,
     AskGoogleLogin, WrongPassword, KnownDevice, NewDevice, ClearFailures, OpenSession,
     WrongCode, RightCode, VerifyPhone, AdmitDevice, Rotate, Mint, Logout, AskLogoutAll,
     BumpVersion, FindSessions, RevokeAll, ClaimReset, Reset, Abandon, AskAccept, AskCode, AskReset, AskSession, Ask
<1>9. \/ UNCHANGED sessions
      \/ \E c \in Callers : Step(c)
      \/ \E i \in DOMAIN sessions : GoIdle(i)
  BY DEF Next, AskLogin, LoginRefused, Ask, RequestReset, Lapse, Quiescent, accountVars, vars
<1> QED BY <1>2, <1>3, <1>4, <1>5, <1>6, <1>7, <1>8, <1>9

(* A password changes only in the transaction of a reset.                  *)
LEMMA OnlyResetSets ==
  ASSUME AccessInvariant, [Next]_vars, user # None, user'.password # user.password
  PROVE  \E c \in Callers : Reset(c)
<1>1. user \in User
  BY DEF AccessInvariant, AccountTypes
<1>2. ASSUME NEW c \in Callers, Step(c)
      PROVE  \/ Reset(c) \/ UNCHANGED user
             \/ VerifyEmail(c) \/ WrongPassword(c) \/ ClearFailures(c) \/ VerifyPhone(c)
             \/ BumpVersion(c)
  BY <1>2 DEF Step, AskSignup, Signup, AskInvite, Invite, Accept, AskVerifyEmail,
     AskGoogleLogin, KnownDevice, NewDevice, OpenSession, WrongCode, RightCode, AdmitDevice,
     Rotate, Mint, Logout, AskLogoutAll, FindSessions, RevokeAll, ClaimReset, Abandon, AskAccept, AskCode, AskReset,
     AskSession, Ask
<1>3. ASSUME NEW c \in Callers PROVE ~VerifyEmail(c)
  BY <1>1 DEF VerifyEmail, User
<1>4. ASSUME NEW c \in Callers PROVE ~WrongPassword(c)
  BY <1>1 DEF WrongPassword, User
<1>5. ASSUME NEW c \in Callers PROVE ~ClearFailures(c)
  BY <1>1 DEF ClearFailures, User
<1>6. ASSUME NEW c \in Callers PROVE ~VerifyPhone(c)
  BY <1>1 DEF VerifyPhone, User
<1>7. ASSUME NEW c \in Callers PROVE ~BumpVersion(c)
  BY <1>1 DEF BumpVersion, User
<1>8. UNCHANGED user \/ \E c \in Callers : Step(c)
  BY DEF Next, AskLogin, LoginRefused, Ask, RequestReset, Lapse, GoIdle, Quiescent,
         accountVars, vars
<1> QED BY <1>2, <1>3, <1>4, <1>5, <1>6, <1>7, <1>8

------------------------------------------------------------------------------
(* Whatever requests overlap, a request in flight keeps what it relies on. *)
THEOREM AccountStays == Spec => []AccessInvariant
<1>1. Init => AccessInvariant
  BY AccessInit
<1>2. AccessInvariant /\ [Next]_vars => AccessInvariant'
  BY AccessStep
<1> QED BY <1>1, <1>2, PTL DEF Spec

(* While its window runs a counter has counted whatever was let through,   *)
(* and never lets through more than the limit of the window.               *)
THEOREM LimiterHolds == Spec => []LimiterInvariant
<1>1. Init => LimiterInvariant
  BY LimiterAssumption DEF Init, LimiterInit, LimiterInvariant, LimiterTypeOK
<1>2. LimiterInvariant /\ [Next]_vars => LimiterInvariant'
  BY LimiterStep
<1> QED BY <1>1, <1>2, PTL DEF Spec

(* Every variable keeps its type (module Access, TypeOK).                  *)
THEOREM AccessTypes == Spec => []TypeOK
<1>1. AccessInvariant /\ LimiterInvariant => TypeOK
  BY DEF AccessInvariant, AccountTypes, LimiterInvariant, TypeOK
<1> QED BY <1>1, AccountStays, LimiterHolds, PTL

(* A code, a reset link and an invitation serve once: the claims in        *)
(* otp.ts, resetPassword and acceptStaffInvite, however many race.         *)
THEOREM TicketsServeOnce == Spec => []UsedOnce
<1>1. AccessInvariant => UsedOnce
  BY DEF AccessInvariant
<1> QED BY <1>1, AccountStays, PTL

(* The limiter of rateLimitStore.ts never lets more than max through in a  *)
(* window, whenever the sweep runs.                                        *)
THEOREM LoginsAreBounded == Spec => []WindowBounded
<1>1. LimiterInvariant => WindowBounded
  BY LimiterAssumption DEF LimiterInvariant, LimiterTypeOK, WindowBounded
<1> QED BY <1>1, LimiterHolds, PTL

(* A revoked session stays revoked through any refresh in flight, and the  *)
(* step that sets a password outdates every access token and ends every    *)
(* session but those opened after it had looked for them (rotateSession;   *)
(* resetPassword's transaction).                                           *)
THEOREM RevocationIsFinal == Spec => RevocationHolds
<1> DEFINE Outdated ==
      /\ \E c \in Callers :
           Resetting(c) /\ \A s \in DOMAIN sessions' : sessions'[s].revoked \/ s > req[c].upTo
      /\ \A t \in minted' : t.version # user'.version
<1>1. AccessInvariant /\ [Next]_vars =>
        [/\ \A s \in DOMAIN sessions : ~Live(s) => sessions'[s].revoked
         /\ user # None /\ user'.password # user.password => Outdated]_vars
  <2> SUFFICES ASSUME AccessInvariant, [Next]_vars
               PROVE  /\ \A s \in DOMAIN sessions : ~Live(s) => sessions'[s].revoked
                      /\ user # None /\ user'.password # user.password => Outdated
    OBVIOUS
  <2>1. \A s \in DOMAIN sessions : ~Live(s) => sessions'[s].revoked
    BY NoneRevived
  <2>2. ASSUME user # None, user'.password # user.password PROVE Outdated
    BY <2>2, OnlyResetSets, ResetKeeps
  <2> QED BY <2>1, <2>2
<1> QED BY <1>1, AccountStays, PTL DEF Spec, RevocationHolds
==============================================================================
