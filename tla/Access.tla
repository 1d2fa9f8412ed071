------------------------------- MODULE Access --------------------------------
(***************************************************************************)
(* One person's account: how it comes to be (signup or an accepted         *)
(* invitation, for one e-mail address), how it is signed in to, and how    *)
(* its sessions end. Outside the named transactions every statement is a   *)
(* commit of its own, so a handler is cut wherever another one may run in  *)
(* between; logins pass loginLimiter (RateLimiter.tla). Passwords are      *)
(* model values, tokens are numbers in the order they are drawn. The lock  *)
(* of an account outlives the behaviour (15 minutes); every account stays  *)
(* active, nothing in src/ changes users.status.                           *)
(* Sources: src/services/auth.service.ts, staffInvite.service.ts,          *)
(* emailVerification.service.ts, src/lib/session.ts, otp.ts, password.ts.  *)
(***************************************************************************)
EXTENDS RateLimiter, Sequences, FiniteSetsExt

CONSTANTS
  Callers,      \* requests in flight at once
  Passwords,
  Devices,
  LockAfter,    \* FAILED_LOGIN_LOCK_THRESHOLD
  MaxTries,     \* otp_challenges.max_attempts
  Workloads     \* bound: whether there is an account, what is asked, how often

(* What a request says besides a password: whether the code is right,      *)
(* whether the session was found idle.                                     *)
Words == {"right", "wrong", "idle"}

(* What is asked; a code is named after the kind of its challenge.         *)
Operations == {"signup", "invite", "accept", "email", "login", "google", "new_device_login",
               "refresh", "logout", "logout_all", "reset"}

ASSUME AccessAssumption ==
  /\ None \notin Passwords \cup Devices \cup Words \cup Operations
  /\ Passwords \cap Words = {}
  /\ \A w \in Workloads : w.passwords \subseteq Passwords /\ w.requests \in Nat

Kinds == {"signup", "new_device_login", "reset", "invite"}

User == [password : Passwords \cup {None}, past : Seq(Passwords), version : Nat, failed : Nat,
         locked : BOOLEAN, phone : BOOLEAN, verified : BOOLEAN, link : BOOLEAN]
Session == [token : Nat, device : Devices, revoked : BOOLEAN, idle : BOOLEAN,
            seen : Nat, ended : Nat]
Ticket  == [kind : Kinds, taken : BOOLEAN, lapsed : BOOLEAN, tries : Nat, uses : Nat]

ASSUME NoneIsNothing == None \notin User

VARIABLES
  user,       \* the users row of the address, None before there is one
  sessions,   \* sessions rows; seen, ended: history, the session_version of the
              \* user row a session was opened with and was revoked by
  tickets,    \* otp_challenges, password_reset_tokens and staff_invites rows;
              \* uses: history, the accounts, passwords and logins they were good for
  minted,     \* access tokens: the session they came with, their sessionVersion
  drawn,      \* refresh tokens drawn so far
  wrong,      \* history: wrong passwords since the last login
  req,        \* req[c]: the request caller c has in flight
  asked,
  workload

accountVars == <<user, sessions, tickets, minted, drawn, wrong, req, asked, workload>>
vars == <<accountVars, limiterVars>>

Idle == [pc |-> "idle", op |-> None, on |-> 0, word |-> None, device |-> None, seen |-> None,
         upTo |-> 0]

NewUser(password) ==
  [password |-> password, past |-> IF password = None THEN <<>> ELSE <<password>>,
   version |-> 1, failed |-> 0, locked |-> FALSE, phone |-> FALSE,
   verified |-> FALSE, link |-> FALSE]

NewTicket(kind) == [kind |-> kind, taken |-> FALSE, lapsed |-> FALSE, tries |-> 0, uses |-> 0]

Init ==
  /\ workload \in Workloads
  /\ user \in IF workload.account THEN {NewUser(p) : p \in workload.passwords} ELSE {None}
  /\ sessions = <<>> /\ tickets = <<>> /\ minted = {}
  /\ drawn = 0 /\ wrong = 0 /\ asked = 0
  /\ req = [c \in Callers |-> Idle]
  /\ LimiterInit

Live(s) == ~sessions[s].revoked

Ask(c, op, on, word, device) ==
  /\ op \in workload.ops /\ req[c] = Idle /\ asked < workload.requests
  /\ asked' = asked + 1
  /\ req' = [req EXCEPT ![c] = [pc |-> "read", op |-> op, on |-> on, word |-> word,
                                device |-> device, seen |-> user, upTo |-> 0]]
  /\ UNCHANGED <<user, sessions, tickets, minted, drawn, wrong, workload>>

At(c, op, pc) == req[c].op = op /\ req[c].pc = pc
End(c) == req' = [req EXCEPT ![c] = Idle] /\ UNCHANGED <<asked, workload>>
Goto(c, pc, seen) ==
  /\ req' = [req EXCEPT ![c].pc = pc, ![c].seen = seen]
  /\ UNCHANGED <<asked, workload>>

(* A statement that revokes sessions sees those that are there as it       *)
(* starts: it goes on with them, whatever is opened meanwhile.             *)
Find(c) ==
  /\ req' = [req EXCEPT ![c].pc = "found", ![c].upTo = Len(sessions)]
  /\ UNCHANGED <<asked, workload>>

(* A reset that is not committed yet holds the users row and the sessions  *)
(* it has revoked: who writes them waits, who opens a session does not     *)
(* (a foreign key takes FOR KEY SHARE only).                               *)
Resetting(c) == At(c, "reset", "found")
UserFree == \A c \in Callers : ~Resetting(c)
SessionFree(s) == \A c \in Callers : Resetting(c) => ~Live(s) \/ s > req[c].upTo

(* A refusal after the read, a rollback, or the death of the process.      *)
Abandon(c) ==
  /\ req[c] # Idle /\ End(c)
  /\ UNCHANGED <<user, sessions, tickets, minted, drawn, wrong>>

(* issueSession, and the access token made of the user row u.              *)
Issue(u, device) ==
  /\ drawn' = drawn + 1
  /\ sessions' = Append(sessions, [token |-> drawn + 1, device |-> device, revoked |-> FALSE,
                                   idle |-> FALSE, seen |-> u.version, ended |-> 0])
  /\ minted' = minted \cup {[session |-> Len(sessions) + 1, version |-> u.version]}

(* Bug: the ticket is taken by its id.                                     *)
ClaimableById(k) == TRUE

(* The guard of the UPDATE that takes a challenge or a reset link.         *)
Claimable(k) == ~tickets[k].taken /\ ~tickets[k].lapsed /\ tickets[k].tries < MaxTries

(* acceptStaffInvite's claim: accepted_at null, whether or not it expired. *)
OpenInvite(k) == ~tickets[k].taken

Take(k) == tickets' = [tickets EXCEPT ![k].taken = TRUE, ![k].uses = @ + 1]

------------------------------------------------------------------------------
(* Coming to have an account.                                              *)

(* By password, or with a Google identity and no password.                 *)
AskSignup(c) ==
  /\ user = None
  /\ \E p \in workload.passwords \cup {None}, d \in Devices : Ask(c, "signup", 0, p, d)

(* One transaction; the unique e-mail address makes the loser a 409.       *)
Signup(c) ==
  LET u == [NewUser(req[c].word) EXCEPT !.verified = req[c].word = None,
                                        !.link = req[c].word # None]
  IN /\ At(c, "signup", "read") /\ user = None
     /\ user' = u
     /\ tickets' = Append(tickets, NewTicket("signup"))
     /\ Issue(u, req[c].device)
     /\ End(c) /\ UNCHANGED wrong

(* createStaffInvite: no account and no pending invitation, both read.     *)
AskInvite(c) ==
  /\ user = None
  /\ \A k \in DOMAIN tickets :
       tickets[k].kind = "invite" => tickets[k].taken \/ tickets[k].lapsed
  /\ Ask(c, "invite", 0, None, None)

Invite(c) ==
  /\ At(c, "invite", "read")
  /\ tickets' = Append(tickets, NewTicket("invite"))
  /\ End(c) /\ UNCHANGED <<user, sessions, minted, drawn, wrong>>

AskAccept(c, k) ==
  /\ tickets[k].kind = "invite" /\ ~tickets[k].taken /\ ~tickets[k].lapsed
  /\ \E p \in workload.passwords : Ask(c, "accept", k, p, None)

(* One transaction: the claim rolls back when the address has an account.  *)
Accept(c) ==
  /\ At(c, "accept", "read") /\ OpenInvite(req[c].on) /\ user = None
  /\ Take(req[c].on)
  /\ user' = [NewUser(req[c].word) EXCEPT !.verified = TRUE]
  /\ End(c) /\ UNCHANGED <<sessions, minted, drawn, wrong>>

(* verifyEmail: found by the hash, then cleared by id.                     *)
AskVerifyEmail(c) == user # None /\ user.link /\ Ask(c, "email", 0, None, None)

VerifyEmail(c) ==
  /\ At(c, "email", "read") /\ UserFree
  /\ user' = [user EXCEPT !.verified = TRUE, !.link = FALSE]
  /\ End(c) /\ UNCHANGED <<sessions, tickets, minted, drawn, wrong>>

------------------------------------------------------------------------------
(* Signing in.                                                             *)

(* login: an account that is not locked; a guess is any password.          *)
AskLogin(c) ==
  /\ LetThrough
  /\ user # None
  /\ user.password # None => ~user.locked
  /\ \E p \in Passwords, d \in Devices : Ask(c, "login", 0, p, d)

(* googleLogin: no password and no lock.                                   *)
AskGoogleLogin(c) ==
  /\ user # None /\ user.password = None
  /\ \E d \in Devices : Ask(c, "google", 0, None, d)

(* An address without an account, or one that is locked: the limiter has   *)
(* counted the request, and nothing else comes of it.                      *)
LoginRefused ==
  /\ LetThrough
  /\ "login" \in workload.ops /\ asked < workload.requests
  /\ user # None => user.password # None /\ user.locked
  /\ asked' = asked + 1
  /\ UNCHANGED <<user, sessions, tickets, minted, drawn, wrong, req, workload>>

Attempts(c) == req[c].seen.failed + 1

(* recordFailedLogin: all of it computed from the row the login had read.  *)
WrongPassword(c) ==
  /\ At(c, "login", "read") /\ req[c].word # req[c].seen.password /\ UserFree
  /\ user' = [user EXCEPT !.failed = Attempts(c),
                          !.locked = Attempts(c) >= LockAfter \/ req[c].seen.locked]
  /\ wrong' = wrong + 1
  /\ End(c) /\ UNCHANGED <<sessions, tickets, minted, drawn>>

Passed(c) ==
  \/ At(c, "google", "read")
  \/ At(c, "login", "read") /\ req[c].word = req[c].seen.password

(* challengeNewDeviceIfNeeded: a device is known while it has a session.   *)
Known(d) == ~workload.otp \/ \E s \in DOMAIN sessions : Live(s) /\ sessions[s].device = d

KnownDevice(c) ==
  /\ Passed(c) /\ Known(req[c].device)
  /\ Goto(c, "complete", req[c].seen)
  /\ UNCHANGED <<user, sessions, tickets, minted, drawn, wrong>>

NewDevice(c) ==
  /\ Passed(c) /\ ~Known(req[c].device)
  /\ tickets' = Append(tickets, NewTicket("new_device_login"))
  /\ End(c) /\ UNCHANGED <<user, sessions, minted, drawn, wrong>>

(* completeLogin, two statements: the row is reset, a session is opened.   *)
ClearFailures(c) ==
  /\ req[c].pc = "complete" /\ UserFree
  /\ user' = [user EXCEPT !.failed = 0, !.locked = FALSE]
  /\ wrong' = 0
  /\ Goto(c, "open", req[c].seen)
  /\ UNCHANGED <<sessions, tickets, minted, drawn>>

OpenSession(c) ==
  /\ req[c].pc = "open"
  /\ Issue(req[c].seen, req[c].device)
  /\ End(c) /\ UNCHANGED <<user, tickets, wrong>>

(* verifyOtpChallenge for a login or for the phone of a signup.            *)
AskCode(c, k) ==
  /\ tickets[k].kind \in {"signup", "new_device_login"} /\ Claimable(k)
  /\ \E right \in {"right", "wrong"}, d \in Devices : Ask(c, tickets[k].kind, k, right, d)

Codes == {"signup", "new_device_login"}

WrongCode(c) ==
  /\ req[c].word = "wrong" /\ req[c].pc = "read"
  /\ tickets' = [tickets EXCEPT ![req[c].on].tries = @ + IF tickets[req[c].on].taken THEN 0 ELSE 1]
  /\ End(c) /\ UNCHANGED <<user, sessions, minted, drawn, wrong>>

RightCode(c) ==
  /\ req[c].word = "right" /\ req[c].pc = "read" /\ Claimable(req[c].on)
  /\ Take(req[c].on)
  /\ Goto(c, "verified", None)
  /\ UNCHANGED <<user, sessions, minted, drawn, wrong>>

(* verifySignupPhoneOtp, verifyDeviceOtp: what the code was for.           *)
VerifyPhone(c) ==
  /\ At(c, "signup", "verified") /\ UserFree
  /\ user' = [user EXCEPT !.phone = TRUE]
  /\ End(c) /\ UNCHANGED <<sessions, tickets, minted, drawn, wrong>>

AdmitDevice(c) ==
  /\ At(c, "new_device_login", "verified")
  /\ Goto(c, "complete", user)
  /\ UNCHANGED <<user, sessions, tickets, minted, drawn, wrong>>

------------------------------------------------------------------------------
(* Sessions.                                                               *)

(* refresh, logout: the session is found by the hash of its token.         *)
AskSession(c, s) ==
  /\ Live(s)
  /\ \E op \in {"refresh", "logout"} :
       Ask(c, op, s, IF sessions[s].idle THEN "idle" ELSE None, None)

Revoked(s) == sessions' = [sessions EXCEPT ![s].revoked = TRUE]

(* Bug: the row that was read is written back whole.                       *)
RotatedFromRead(s) == [sessions[s] EXCEPT !.token = drawn + 1, !.idle = FALSE, !.revoked = FALSE]

(* rotateSession's update: by id, of the token and the times.              *)
Rotated(s) == [sessions[s] EXCEPT !.token = drawn + 1, !.idle = FALSE]

Rotate(c) ==
  /\ At(c, "refresh", "read") /\ SessionFree(req[c].on)
  /\ IF req[c].word = "idle"
       THEN Revoked(req[c].on) /\ End(c) /\ UNCHANGED drawn
       ELSE /\ sessions' = [sessions EXCEPT ![req[c].on] = Rotated(req[c].on)]
            /\ drawn' = drawn + 1
            /\ Goto(c, "rotated", None)
  /\ UNCHANGED <<user, tickets, minted, wrong>>

(* refresh reads the user again and signs what it finds.                   *)
Mint(c) ==
  /\ At(c, "refresh", "rotated")
  /\ minted' = minted \cup {[session |-> req[c].on, version |-> user.version]}
  /\ End(c) /\ UNCHANGED <<user, sessions, tickets, drawn, wrong>>

Logout(c) ==
  /\ At(c, "logout", "read") /\ SessionFree(req[c].on)
  /\ Revoked(req[c].on)
  /\ End(c) /\ UNCHANGED <<user, tickets, minted, drawn, wrong>>

(* authenticate: a token of the present session_version.                   *)
Authenticated == user # None /\ \E t \in minted : t.version = user.version

(* invalidateUserSessions' second statement: every session it has found    *)
(* that is not yet revoked.                                                *)
AllEnded(upTo, v) ==
  [s \in DOMAIN sessions |->
     IF Live(s) /\ s <= upTo THEN [sessions[s] EXCEPT !.revoked = TRUE, !.ended = v]
     ELSE sessions[s]]

(* logoutAll runs its two statements on the plain client.                  *)
AskLogoutAll(c) == Authenticated /\ Ask(c, "logout_all", 0, None, None)

BumpVersion(c) ==
  /\ At(c, "logout_all", "read") /\ UserFree
  /\ user' = [user EXCEPT !.version = @ + 1]
  /\ Goto(c, "bumped", None)
  /\ UNCHANGED <<sessions, tickets, minted, drawn, wrong>>

FindSessions(c) ==
  /\ At(c, "logout_all", "bumped") /\ Find(c)
  /\ UNCHANGED <<user, sessions, tickets, minted, drawn, wrong>>

RevokeAll(c) ==
  /\ At(c, "logout_all", "found") /\ \A s \in 1..req[c].upTo : SessionFree(s)
  /\ sessions' = AllEnded(req[c].upTo, user.version)
  /\ End(c) /\ UNCHANGED <<user, tickets, minted, drawn, wrong>>

------------------------------------------------------------------------------
(* A forgotten password.                                                   *)

RequestReset ==
  /\ "reset" \in workload.ops /\ asked < workload.requests
  /\ user # None /\ user.password # None
  /\ tickets' = Append(tickets, NewTicket("reset")) /\ asked' = asked + 1
  /\ UNCHANGED <<user, sessions, minted, drawn, wrong, req, workload>>

(* isPasswordReused: one of the last three, read before the transaction.   *)
Recent(p) == \E i \in DOMAIN user.past : i > Len(user.past) - 3 /\ user.past[i] = p

AskReset(c, k) ==
  /\ tickets[k].kind = "reset" /\ ~tickets[k].taken /\ ~tickets[k].lapsed
  /\ \E p \in Passwords : ~Recent(p) /\ Ask(c, "reset", k, p, None)

(* resetPassword's transaction, up to the UPDATE of the sessions: the      *)
(* claim, the password, its history, session_version. None of it is seen   *)
(* by others yet; a second reset waits for the row.                        *)
ClaimReset(c) ==
  /\ At(c, "reset", "read") /\ Claimable(req[c].on) /\ UserFree
  /\ Find(c)
  /\ UNCHANGED <<user, sessions, tickets, minted, drawn, wrong>>

(* Its COMMIT. A session that a login has opened since is not revoked.     *)
Reset(c) ==
  /\ Resetting(c)
  /\ Take(req[c].on)
  /\ user' = [user EXCEPT !.password = req[c].word, !.past = Append(@, req[c].word),
                          !.version = @ + 1]
  /\ sessions' = AllEnded(req[c].upTo, user.version + 1)
  /\ End(c) /\ UNCHANGED <<minted, drawn, wrong>>

------------------------------------------------------------------------------
(* Time: thirty minutes without a refresh; a ticket expires.               *)
GoIdle(s) ==
  /\ workload.lapses /\ Live(s) /\ ~sessions[s].idle
  /\ sessions' = [sessions EXCEPT ![s].idle = TRUE]
  /\ UNCHANGED <<user, tickets, minted, drawn, wrong, req, asked, workload>>

Lapse(k) ==
  /\ workload.lapses /\ ~tickets[k].lapsed
  /\ tickets' = [tickets EXCEPT ![k].lapsed = TRUE]
  /\ UNCHANGED <<user, sessions, minted, drawn, wrong, req, asked, workload>>

Step(c) ==
  \/ AskSignup(c) \/ Signup(c) \/ AskInvite(c) \/ Invite(c) \/ Accept(c)
  \/ AskVerifyEmail(c) \/ VerifyEmail(c)
  \/ AskGoogleLogin(c) \/ WrongPassword(c) \/ KnownDevice(c) \/ NewDevice(c)
  \/ ClearFailures(c) \/ OpenSession(c)
  \/ WrongCode(c) \/ RightCode(c) \/ VerifyPhone(c) \/ AdmitDevice(c)
  \/ Rotate(c) \/ Mint(c) \/ Logout(c)
  \/ AskLogoutAll(c) \/ BumpVersion(c) \/ FindSessions(c) \/ RevokeAll(c)
  \/ ClaimReset(c) \/ Reset(c) \/ Abandon(c)
  \/ \E k \in DOMAIN tickets : AskAccept(c, k) \/ AskCode(c, k) \/ AskReset(c, k)
  \/ \E s \in DOMAIN sessions : AskSession(c, s)

Limiter == TurnedAway \/ WindowEnds \/ DayPasses \/ Cleanup

Quiescent == (\A c \in Callers : req[c] = Idle) /\ UNCHANGED vars

Next ==
  \/ \E c \in Callers : Step(c) /\ UNCHANGED limiterVars
  \/ (\E c \in Callers : AskLogin(c)) \/ LoginRefused
  \/ RequestReset /\ UNCHANGED limiterVars
  \/ \E k \in DOMAIN tickets : Lapse(k) /\ UNCHANGED limiterVars
  \/ \E s \in DOMAIN sessions : GoIdle(s) /\ UNCHANGED limiterVars
  \/ workload.limited /\ Limiter /\ UNCHANGED accountVars
  \/ Quiescent

Spec == Init /\ [][Next]_vars

------------------------------------------------------------------------------
(* Types of the account and of the limiter.                                *)
TypeOK ==
  /\ LimiterTypeOK
  /\ user \in User \cup {None}
  /\ sessions \in Seq(Session) /\ tickets \in Seq(Ticket)
  /\ minted \subseteq [session : DOMAIN sessions, version : Nat]
  /\ drawn \in Nat /\ wrong \in Nat /\ asked \in 0..workload.requests

(* A code, a reset link and an invitation are good for one login, one new  *)
(* password, one account, and nothing is marked used that was not: the     *)
(* conditional claims of otp.ts, resetPassword and acceptStaffInvite.      *)
UsedOnce == \A k \in DOMAIN tickets : tickets[k].uses = IF tickets[k].taken THEN 1 ELSE 0

(* A revoked session stays revoked through any refresh in flight, and the  *)
(* step that sets a password leaves no access token current and of the     *)
(* sessions only those live that were opened after it had looked for them  *)
(* (rotateSession; resetPassword's transaction).                           *)
RevocationHolds ==
  [][/\ \A s \in DOMAIN sessions : ~Live(s) => sessions'[s].revoked
     /\ user # None /\ user'.password # user.password =>
          /\ \E c \in Callers : Resetting(c) /\
               \A s \in DOMAIN sessions' : sessions'[s].revoked \/ s > req[c].upTo
          /\ \A t \in minted' : t.version # user'.version]_vars

------------------------------------------------------------------------------
(* What comments in src/ say and this model refutes; see the README.       *)

(* "a caller can never observe one half applied without the other"         *)
(* (session.ts:132-134): logoutAll passes the plain client.                *)
InvalidatedTogether == \A s \in DOMAIN sessions : Live(s) => sessions[s].seen >= user.version

(* "revoke every session", not "just the one used to request this reset"   *)
(* (auth.service.ts:511-514): a login opens its session between the UPDATE *)
(* of the sessions and the COMMIT, and keeps it.                           *)
ResetEndsAll ==
  [][user # None /\ user'.password # user.password =>
       \A s \in DOMAIN sessions' : sessions'[s].revoked]_vars

(* "so no refresh can mint a fresh token either" (session.ts:131): a       *)
(* refresh under way signs the version it reads after the revocation.      *)
NoTokenAfter ==
  \A t \in minted : sessions[t.session].ended > 0 => t.version < sessions[t.session].ended

(* "Account temporarily locked due to repeated failed login attempts"      *)
(* (auth.service.ts:356): failures that overlap are counted once.          *)
LockReached == user # None /\ wrong >= LockAfter => user.locked

(* otp_challenges.max_attempts "is the per-challenge backstop"             *)
(* (rateLimit.ts:41-42): wrong codes that overlap all count past it.       *)
TriesBounded == \A k \in DOMAIN tickets : tickets[k].tries <= MaxTries

(* "A pending invite already exists for this email" (staffInvite.service   *)
(* .ts:34): two that looked at once both create one.                       *)
OnePendingInvite ==
  Cardinality({k \in DOMAIN tickets : tickets[k].kind = "invite"
                  /\ ~tickets[k].taken /\ ~tickets[k].lapsed}) <= 1

(* "This password was used recently" (auth.service.ts:491): the history    *)
(* is read before the transaction.                                         *)
NotReused == user # None => \A i, j \in DOMAIN user.past : i < j => user.past[i] # user.past[j]
==============================================================================
