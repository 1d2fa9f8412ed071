--------------------------- MODULE NegotiationProofs ---------------------------
(***************************************************************************)
(* Proofs about a purchase order between two parties (SupplierPortal,      *)
(* Shipments, Negotiation and InboundMail) for any callers, offers and     *)
(* workloads. Its requests read, check and write in separate steps, so the *)
(* invariant says of each request in flight what it may still rely on when *)
(* others ran in between: the rows its transaction holds are as it left    *)
(* them, the terms it was shown are those of their version, and what it    *)
(* was asked to change is still there.                                     *)
(***************************************************************************)
EXTENDS InboundMail, SequenceTheorems, FiniteSetTheorems, TLAPS

(* A table whose rows may be of any kind.                                  *)
Table(rows) == rows \in Seq({rows[i] : i \in DOMAIN rows})

OrderOK ==
  /\ po = [status |-> po.status, received |-> po.received, total |-> po.total, round |-> po.round,
           respond_by |-> po.respond_by, version |-> po.version]
  /\ po.version \in Nat /\ po.round \in Nat

AgreementsOK == Table(agreements) /\ AgreedOnce

(* The row of a shipment: its history is a chain of allowed transitions.   *)
ShipmentRow(row) ==
  /\ row = [line |-> row.line, quantity |-> row.quantity, status |-> row.status,
            version |-> row.version, history |-> row.history, carrier |-> row.carrier,
            arrival |-> row.arrival, windows |-> row.windows, files |-> row.files]
  /\ row.status \in Statuses
  /\ Table(row.history) /\ Len(row.history) > 0
  /\ row.history[1] = [from |-> None, to |-> "pending"]
  /\ row.history[Len(row.history)].to = row.status
  /\ \A i \in 2..Len(row.history) :
       /\ row.history[i].from = row.history[i - 1].to
       /\ ValidTransition(row.history[i].from, row.history[i].to)

ShipmentsOK == Table(shipments) /\ \A s \in DOMAIN shipments : ShipmentRow(shipments[s])

(* The row of a mail: a message, a row in quarantine, or nothing yet.      *)
MailRow(row) ==
  /\ row = [kind |-> row.kind, claimed |-> row.claimed, messages |-> row.messages,
            quarantined |-> row.quarantined, acked |-> row.acked]
  /\ row.claimed \in BOOLEAN /\ row.quarantined \in BOOLEAN
  /\ row.messages = {} \/ \E i \in DOMAIN messages : row.messages = {i}
  /\ row.messages # {} => ~row.quarantined
  /\ row.kind = "malformed" => row.messages = {}
  /\ row.kind # "malformed" => row.claimed = (row.messages # {} \/ row.quarantined)

MailOK ==
  /\ Table(messages)
  /\ mail = [m \in DOMAIN mail |-> mail[m]]
  /\ \A m \in DOMAIN mail : MailRow(mail[m])
  /\ \A m, n \in DOMAIN mail : m # n => mail[m].messages \cap mail[n].messages = {}

(* What a request in flight has read is still so.                          *)
Holds(r) ==
  /\ r = [pc |-> r.pc, op |-> r.op, party |-> r.party, on |-> r.on, shown |-> r.shown,
          seen |-> r.seen, tx |-> r.tx]
  /\ r.pc \in {"marked", "counted", "superseding", "numbered"} =>
       r.on \in DOMAIN proposals /\ proposals[r.on].status = "draft"
  /\ r.pc \in {"counted", "superseding", "numbered"} =>
       r.tx = [revision |-> r.tx.revision, others |-> r.tx.others] /\ r.tx.revision \in Nat
  /\ r.pc = "numbered" => r.tx.others \subseteq Pending
  /\ r.pc \in {"resolved", "applied"} => r.on \in Pending
  /\ r.pc = "read" /\ r.op \in {"submit", "accept"} => r.on \in DOMAIN proposals
  /\ r.pc = "read" /\ r.op = "save" =>
       r.on \in DOMAIN proposals \cup {None} /\ r.party \in Party /\ r.seen \in Offers
  /\ r.pc \in {"read", "found"} /\ r.op = "confirm" =>
       /\ r.shown \in Nat /\ r.shown <= po.version
       /\ r.shown = po.version => r.seen = lines
  /\ r.pc = "read" /\ r.op = "status" => r.seen \in Statuses /\ r.tx \in Transitions[r.seen]
  /\ r.pc = "message" => r.on \in DOMAIN mail /\ mail[r.on].kind = "reply"
  /\ r.op = "mail" /\ r.pc # "idle" => r.on \in DOMAIN mail

RequestsOK ==
  /\ req = [c \in Callers |-> req[c]]
  /\ \A c \in Callers : Holds(req[c])
  /\ \A c, d \in Callers : c # d => Held(c) \cap Held(d) = {}

NegotiationInvariant ==
  /\ OrderOK /\ proposals \in Seq(Proposal) /\ AgreementsOK
  /\ ShipmentsOK /\ MailOK /\ RequestsOK

------------------------------------------------------------------------------
(* What a step of c must leave to the requests of the others.              *)
OrderOnward ==
  /\ OrderOK' /\ po.version <= po'.version
  /\ lines' = lines \/ po.version < po'.version

ProposalsOnward(c) ==
  /\ proposals' \in Seq(Proposal) /\ DOMAIN proposals \subseteq DOMAIN proposals'
  /\ \A d \in Callers \ {c} : \A p \in Held(d) : proposals'[p].status = proposals[p].status

MailOnward ==
  /\ MailOK' /\ DOMAIN mail' = DOMAIN mail
  /\ \A m \in DOMAIN mail : mail'[m].kind = mail[m].kind

Onward(c) ==
  /\ OrderOnward /\ ProposalsOnward(c) /\ AgreementsOK' /\ ShipmentsOK' /\ MailOnward

(* Tables: a row is added, rows are replaced.                              *)
LEMMA TableSeq ==
  ASSUME NEW rows, NEW S, rows \in Seq(S)
  PROVE  Table(rows) /\ Len(rows) \in Nat /\ DOMAIN rows = 1..Len(rows)
<1>1. Len(rows) \in Nat /\ DOMAIN rows = 1..Len(rows) /\ rows \in [1..Len(rows) -> S]
  BY LenProperties
<1>2. rows \in [1..Len(rows) -> {rows[i] : i \in DOMAIN rows}]
  BY <1>1
<1> QED BY <1>1, <1>2, SeqDef DEF Table

(* A function of the first n numbers is a table of n rows.                 *)
LEMMA TableIs ==
  ASSUME NEW rows, NEW n \in Nat, rows = [i \in 1..n |-> rows[i]]
  PROVE  Table(rows) /\ Len(rows) = n /\ DOMAIN rows = 1..n
<1>1. rows \in [1..n -> {rows[i] : i \in DOMAIN rows}] /\ DOMAIN rows = 1..n
  OBVIOUS
<1>2. rows \in Seq({rows[i] : i \in DOMAIN rows})
  BY <1>1, SeqDef
<1> QED BY <1>1, <1>2, LenProperties DEF Table

(* A row is appended, and the rows before it stay.                         *)
LEMMA TableAppend ==
  ASSUME NEW rows, Table(rows), NEW row
  PROVE  /\ Table(Append(rows, row))
         /\ Len(rows) \in Nat /\ DOMAIN rows = 1..Len(rows)
         /\ DOMAIN Append(rows, row) = 1..(Len(rows) + 1)
         /\ Len(Append(rows, row)) = Len(rows) + 1
         /\ \A i \in DOMAIN rows : Append(rows, row)[i] = rows[i]
         /\ Append(rows, row)[Len(rows) + 1] = row
<1> DEFINE S == {rows[i] : i \in DOMAIN rows} \cup {row}
<1>1. Len(rows) \in Nat /\ DOMAIN rows = 1..Len(rows)
  BY LenProperties DEF Table
<1>2. rows \in [1..Len(rows) -> S]
  BY <1>1, LenProperties DEF Table
<1>3. rows \in Seq(S) /\ row \in S
  BY <1>1, <1>2, SeqDef
<1> HIDE DEF S
<1>4. /\ Append(rows, row) \in Seq(S) /\ Len(Append(rows, row)) = Len(rows) + 1
      /\ \A i \in 1..Len(rows) : Append(rows, row)[i] = rows[i]
      /\ Append(rows, row)[Len(rows) + 1] = row
  BY <1>3, AppendProperties
<1> QED BY <1>1, <1>4, TableSeq

(* The rows that a transaction holds are rows of the table.                *)
LEMMA HeldAreRows ==
  ASSUME NegotiationInvariant, NEW d \in Callers
  PROVE  Held(d) \subseteq DOMAIN proposals
<1>1. req[d].pc \in {"marked", "counted", "superseding", "numbered"} =>
        req[d].on \in DOMAIN proposals
  BY DEF NegotiationInvariant, RequestsOK, Holds
<1>2. /\ req[d].pc \in {"resolved", "applied"} => req[d].on \in DOMAIN proposals
      /\ req[d].pc = "numbered" => req[d].tx.others \subseteq DOMAIN proposals
  BY DEF NegotiationInvariant, RequestsOK, Holds, Pending
<1> QED BY <1>1, <1>2 DEF Held

(* The other requests in flight are served by what they had read.          *)
LEMMA OthersHold ==
  ASSUME NegotiationInvariant, NEW c \in Callers, Onward(c), NEW d \in Callers \ {c},
         req'[d] = req[d]
  PROVE  Holds(req[d])' /\ Held(d)' = Held(d)
<1>1. Holds(req[d]) /\ po.version \in Nat /\ po'.version \in Nat
  BY DEF NegotiationInvariant, RequestsOK, OrderOK, Onward, OrderOnward
<1>2. Held(d)' = Held(d)
  BY DEF Held
<1>3. /\ DOMAIN proposals \subseteq DOMAIN proposals'
      /\ \A p \in Held(d) : proposals'[p].status = proposals[p].status
  BY DEF Onward, ProposalsOnward
<1>4. req[d].pc \in {"marked", "counted", "superseding", "numbered"} =>
        req[d].on \in DOMAIN proposals' /\ proposals'[req[d].on].status = "draft"
  BY <1>1, <1>3 DEF Holds, Held
<1>5. req[d].pc = "numbered" => req[d].tx.others \subseteq Pending'
  BY <1>1, <1>3 DEF Holds, Held, Pending
<1>6. req[d].pc \in {"resolved", "applied"} => req[d].on \in Pending'
  BY <1>1, <1>3 DEF Holds, Held, Pending
<1>7. req[d].pc \in {"read", "found"} /\ req[d].op = "confirm" =>
        /\ req[d].shown \in Nat /\ req[d].shown <= po'.version
        /\ req[d].shown = po'.version => req[d].seen = lines'
  BY <1>1 DEF Holds, Onward, OrderOnward
<1>8. /\ req[d].pc = "message" => req[d].on \in DOMAIN mail' /\ mail'[req[d].on].kind = "reply"
      /\ req[d].op = "mail" /\ req[d].pc # "idle" => req[d].on \in DOMAIN mail'
  BY <1>1 DEF Holds, Onward, MailOnward
<1> QED BY <1>1, <1>2, <1>3, <1>4, <1>5, <1>6, <1>7, <1>8 DEF Holds

(* A step that moves one request and leaves the others what they rely on.  *)
LEMMA RequestReplaced ==
  ASSUME NegotiationInvariant, NEW c \in Callers, Onward(c), NEW r,
         req' = [req EXCEPT ![c] = r], Holds(req[c])',
         \A d \in Callers \ {c} : Held(c)' \cap Held(d) = {}
  PROVE  NegotiationInvariant'
<1>1. req = [d \in Callers |-> req[d]]
  BY DEF NegotiationInvariant, RequestsOK
<1>2. req' = [d \in Callers |-> req'[d]] /\ \A d \in Callers \ {c} : req'[d] = req[d]
  BY <1>1
<1>3. \A d \in Callers \ {c} : Holds(req[d])' /\ Held(d)' = Held(d)
  BY <1>2, OthersHold
<1>4. \A d \in Callers : Holds(req[d])'
  BY <1>3
<1>5. \A d, e \in Callers : d # e => Held(d)' \cap Held(e)' = {}
  BY <1>3 DEF NegotiationInvariant, RequestsOK
<1> QED BY <1>2, <1>4, <1>5
        DEF NegotiationInvariant, RequestsOK, Onward, OrderOnward, ProposalsOnward, MailOnward

(* A request ends.                                                         *)
LEMMA Ended ==
  ASSUME NegotiationInvariant, NEW c \in Callers, Onward(c), req' = [req EXCEPT ![c] = Idle]
  PROVE  NegotiationInvariant'
<1>1. req'[c] = Idle
  BY DEF NegotiationInvariant, RequestsOK
<1>2. Holds(req[c])'
  BY <1>1 DEF Holds, Idle
<1>3. Held(c)' = {}
  BY <1>1 DEF Held, Idle
<1> QED BY <1>2, <1>3, RequestReplaced

(* A request arrives: what it read is so, and it holds no row.             *)
LEMMA Asked ==
  ASSUME NegotiationInvariant, NEW c \in Callers, Onward(c), NEW r,
         req' = [req EXCEPT ![c] = r], r.pc = "read", Holds(req[c])'
  PROVE  NegotiationInvariant'
<1>1. req'[c] = r
  BY DEF NegotiationInvariant, RequestsOK
<1>2. Held(c)' = {}
  BY <1>1 DEF Held
<1> QED BY <1>2, RequestReplaced

(* Steps that leave a part of the state alone keep what is said of it.     *)
LEMMA LeftAlone ==
  ASSUME NegotiationInvariant, NEW c
  PROVE  /\ UNCHANGED order => OrderOnward
         /\ UNCHANGED proposals => ProposalsOnward(c)
         /\ po'.round = po.round /\ UNCHANGED <<proposals, agreements>> => AgreementsOK'
         /\ UNCHANGED shipments => ShipmentsOK'
         /\ UNCHANGED <<messages, mail>> => MailOnward
<1>1. UNCHANGED order => OrderOnward
  BY DEF NegotiationInvariant, OrderOK, OrderOnward, order
<1>2. UNCHANGED proposals => ProposalsOnward(c)
  BY DEF NegotiationInvariant, ProposalsOnward
<1>3. po'.round = po.round /\ UNCHANGED <<proposals, agreements>> => AgreementsOK'
  BY DEF NegotiationInvariant, AgreementsOK, AgreedOnce, Table
<1>4. UNCHANGED shipments => ShipmentsOK'
  BY DEF NegotiationInvariant, ShipmentsOK, Table
<1>5. UNCHANGED <<messages, mail>> => MailOnward
  BY DEF NegotiationInvariant, MailOnward, MailOK, MailRow, Table
<1> QED BY <1>1, <1>2, <1>3, <1>4, <1>5
(* The tables beside the order and its links.                              *)
Beside == UNCHANGED <<shipments, proposals, agreements, messages, mail>>

(* A step that writes the order alone, and not its round.                  *)
LEMMA BesideOnward ==
  ASSUME NegotiationInvariant, NEW c, Beside, OrderOnward, po'.round = po.round
  PROVE  Onward(c)
BY LeftAlone DEF Beside, Onward

(* A step that writes neither the order nor a table.                       *)
LEMMA Uninvolved ==
  ASSUME NegotiationInvariant, NEW c, Beside, UNCHANGED order
  PROVE  Onward(c)
BY LeftAlone, BesideOnward DEF order

(* A request that arrives with what it read.                               *)
LEMMA AskKeeps ==
  ASSUME NegotiationInvariant, NEW c \in Callers, NEW r, Ask(c, r), Beside, r.pc = "read",
         Holds(r)
  PROVE  NegotiationInvariant'
<1>1. req' = [req EXCEPT ![c] = r] /\ UNCHANGED order
  BY DEF Ask
<1>2. req'[c] = r
  BY <1>1 DEF NegotiationInvariant, RequestsOK
<1>3. Holds(req[c])'
  BY <1>1, <1>2 DEF Holds, Beside, order, Pending
<1> QED BY <1>1, <1>3, Uninvolved, Asked

(* A request goes on to a step before which it holds no proposal.          *)
LEMMA Went ==
  ASSUME NegotiationInvariant, NEW c \in Callers, Onward(c),
         NEW pc \in {"found", "revoked", "viewing", "message", "quarantine", "answer"}, NEW tx,
         Goes(c, pc, tx), req[c].pc # "idle", pc = "found" => req[c].pc = "read",
         pc = "message" => req[c].op = "mail" /\ mail[req[c].on].kind = "reply"
  PROVE  NegotiationInvariant'
<1> DEFINE r == [pc |-> pc, op |-> req[c].op, party |-> req[c].party, on |-> req[c].on,
                 shown |-> req[c].shown, seen |-> req[c].seen, tx |-> tx]
<1>1. req = [d \in Callers |-> req[d]] /\ Holds(req[c])
  BY DEF NegotiationInvariant, RequestsOK
<1>2. req' = [req EXCEPT ![c] = req'[c]] /\ req'[c] = [req[c] EXCEPT !.pc = pc, !.tx = tx]
  BY <1>1 DEF Goes
<1>3. req'[c] = r
  BY <1>1, <1>2 DEF Holds
<1>4. /\ DOMAIN mail' = DOMAIN mail
      /\ \A m \in DOMAIN mail : mail'[m].kind = mail[m].kind
  BY DEF Onward, MailOnward
<1>7. UNCHANGED <<po, lines>>
  BY DEF Goes, order
<1>5. Holds(req[c])'
  BY <1>1, <1>3, <1>4, <1>7 DEF Holds
<1>6. Held(c)' = {}
  BY <1>3 DEF Held
<1> QED BY <1>2, <1>5, <1>6, RequestReplaced

(* What a request consists of.                                             *)
LEMMA RequestIs ==
  ASSUME NEW op, NEW party, NEW on
  PROVE  Request(op, party, on) =
           [pc |-> "read", op |-> op, party |-> party, on |-> on, shown |-> None,
            seen |-> None, tx |-> None]
<1>1. PICK r : r = Request(op, party, on)
  OBVIOUS
<1>2. r = [pc |-> "read", op |-> op, party |-> party, on |-> on, shown |-> None,
           seen |-> None, tx |-> None]
  BY <1>1 DEF Request, Idle
<1> QED BY <1>1, <1>2

(* Requests that rely on nothing but what they compare again.              *)
LEMMA PlainHolds ==
  ASSUME NEW r, NEW op \in {"regenerate", "revoke", "view", "attach", "reject", "message",
                           "mark_read", "ship", "details", "arrival", "upload", "milestone",
                           "cancel", "deadline", "receive"},
         NEW party, NEW on, NEW shown, NEW seen, NEW tx,
         r = [pc |-> "read", op |-> op, party |-> party, on |-> on, shown |-> shown,
              seen |-> seen, tx |-> tx]
  PROVE  Holds(r) /\ r.pc = "read"
BY DEF Holds

(* The requests of those operations arrive.                                *)
LEMMA PlainAsks ==
  ASSUME NegotiationInvariant, NEW c \in Callers, Beside,
         \/ AskRegenerate(c) \/ AskRevoke(c) \/ AskView(c)
         \/ AskAttach(c) \/ AskReject(c) \/ AskMessage(c) \/ AskRead(c)
         \/ AskShipment(c) \/ AskDetails(c) \/ AskArrival(c) \/ AskUpload(c)
         \/ AskMilestone(c)
  PROVE  NegotiationInvariant'
<1>1. ASSUME NEW op \in {"regenerate", "revoke", "view", "attach", "reject", "message",
                        "mark_read", "ship", "details", "arrival", "upload", "milestone"},
             NEW party, NEW on, Ask(c, Request(op, party, on))
      PROVE  NegotiationInvariant'
  <2>1. PICK r : r = Request(op, party, on)
    OBVIOUS
  <2>2. Holds(r) /\ r.pc = "read"
    BY <2>1, RequestIs, PlainHolds
  <2> QED BY <1>1, <2>1, <2>2, AskKeeps
<1>2. ASSUME NEW op \in {"mark_read", "ship", "arrival", "milestone"}, NEW party, NEW on, NEW seen,
             Ask(c, [Request(op, party, on) EXCEPT !.seen = seen])
      PROVE  NegotiationInvariant'
  <2>1. PICK r : r = [Request(op, party, on) EXCEPT !.seen = seen]
    OBVIOUS
  <2>2. r = [pc |-> "read", op |-> op, party |-> party, on |-> on, shown |-> None,
             seen |-> seen, tx |-> None]
    BY <2>1 DEF Request, Idle
  <2>3. Holds(r) /\ r.pc = "read"
    BY <2>2, PlainHolds
  <2> QED BY <1>2, <2>1, <2>3, AskKeeps
<1>3. ASSUME NEW s, NEW shown, Ask(c, [Request("details", "owner", s) EXCEPT !.shown = shown])
      PROVE  NegotiationInvariant'
  <2>1. PICK r : r = [Request("details", "owner", s) EXCEPT !.shown = shown]
    OBVIOUS
  <2>2. r = [pc |-> "read", op |-> "details", party |-> "owner", on |-> s, shown |-> shown,
             seen |-> None, tx |-> None]
    BY <2>1 DEF Request, Idle
  <2>3. Holds(r) /\ r.pc = "read"
    BY <2>2, PlainHolds
  <2> QED BY <1>3, <2>1, <2>3, AskKeeps
<1>4. CASE AskRegenerate(c) \/ AskRevoke(c) \/ AskView(c) \/ AskAttach(c) \/ AskReject(c)
           \/ AskMessage(c) \/ AskUpload(c)
  BY <1>1, <1>4
     DEF AskRegenerate, AskRevoke, AskView, AskAttach, AskReject, AskMessage, AskUpload
<1>5. CASE AskRead(c) \/ AskShipment(c) \/ AskArrival(c) \/ AskMilestone(c)
  BY <1>2, <1>5 DEF AskRead, AskShipment, AskArrival, AskMilestone
<1>6. CASE AskDetails(c)
  BY <1>3, <1>6 DEF AskDetails
<1> QED BY <1>4, <1>5, <1>6
(* The owner's operations on the order keep the terms they were shown.     *)
LEMMA AskOrderKeeps ==
  ASSUME NegotiationInvariant, NEW c \in Callers, Beside, AskOrder(c)
  PROVE  NegotiationInvariant'
<1>1. PICK op \in {"confirm", "cancel", "deadline", "receive"} :
        Ask(c, [Request(op, "owner", None) EXCEPT !.shown = po.version, !.seen = lines])
  BY DEF AskOrder
<1>2. PICK r : r = [Request(op, "owner", None) EXCEPT !.shown = po.version, !.seen = lines]
  OBVIOUS
<1>3. r = [pc |-> "read", op |-> op, party |-> "owner", on |-> None, shown |-> po.version,
           seen |-> lines, tx |-> None]
  BY <1>2 DEF Request, Idle
<1>4. Holds(r) /\ r.pc = "read"
  BY <1>3 DEF Holds, NegotiationInvariant, OrderOK
<1> QED BY <1>1, <1>2, <1>4, AskKeeps

(* A draft is saved by its party, as new or over the draft it was shown.   *)
LEMMA AskSaveKeeps ==
  ASSUME NegotiationInvariant, NEW c \in Callers, Beside, AskSave(c)
  PROVE  NegotiationInvariant'
<1>1. PICK party \in Party, o \in Offers, on \in DOMAIN proposals \cup {None} :
        Ask(c, [Request("save", party, on) EXCEPT
                  !.seen = o, !.shown = IF on = None THEN None ELSE proposals[on].version])
  BY DEF AskSave
<1> DEFINE shown == IF on = None THEN None ELSE proposals[on].version
<1>2. PICK r : r = [Request("save", party, on) EXCEPT !.seen = o, !.shown = shown]
  OBVIOUS
<1> HIDE DEF shown
<1>3. r = [pc |-> "read", op |-> "save", party |-> party, on |-> on, shown |-> shown,
           seen |-> o, tx |-> None]
  BY <1>2 DEF Request, Idle
<1>4. Holds(r) /\ r.pc = "read"
  BY <1>3 DEF Holds
<1> QED BY <1>1, <1>2, <1>4, AskKeeps DEF shown

(* A submission names a proposal and the version it was shown.             *)
LEMMA AskSubmitKeeps ==
  ASSUME NegotiationInvariant, NEW c \in Callers, Beside, AskSubmit(c)
  PROVE  NegotiationInvariant'
<1>1. PICK p \in DOMAIN proposals :
        Ask(c, [Request("submit", proposals[p].party, p) EXCEPT !.shown = proposals[p].version])
  BY DEF AskSubmit
<1>2. PICK r : r = [Request("submit", proposals[p].party, p) EXCEPT !.shown = proposals[p].version]
  OBVIOUS
<1>3. r = [pc |-> "read", op |-> "submit", party |-> proposals[p].party, on |-> p,
           shown |-> proposals[p].version, seen |-> None, tx |-> None]
  BY <1>2 DEF Request, Idle
<1>4. Holds(r) /\ r.pc = "read"
  BY <1>3 DEF Holds
<1> QED BY <1>1, <1>2, <1>4, AskKeeps

(* An acceptance names a proposal that exists.                             *)
LEMMA AskAcceptKeeps ==
  ASSUME NegotiationInvariant, NEW c \in Callers, Beside, AskAccept(c)
  PROVE  NegotiationInvariant'
<1>1. PICK p \in DOMAIN proposals : Ask(c, Request("accept", "owner", p))
  BY DEF AskAccept, Submitted
<1>2. PICK r : r = Request("accept", "owner", p)
  OBVIOUS
<1>3. Holds(r) /\ r.pc = "read"
  BY <1>2, RequestIs DEF Holds
<1> QED BY <1>1, <1>2, <1>3, AskKeeps

(* A change of status carries a transition allowed from the status read.   *)
LEMMA AskStatusKeeps ==
  ASSUME NegotiationInvariant, NEW c \in Callers, Beside, AskStatus(c)
  PROVE  NegotiationInvariant'
<1>1. PICK s \in DOMAIN shipments : \E to \in Transitions[shipments[s].status] :
        Ask(c, [Request("status", "owner", s) EXCEPT
                  !.shown = shipments[s].version, !.seen = shipments[s].status, !.tx = to])
  BY DEF AskStatus
<1>2. PICK to \in Transitions[shipments[s].status] :
        Ask(c, [Request("status", "owner", s) EXCEPT
                  !.shown = shipments[s].version, !.seen = shipments[s].status, !.tx = to])
  BY <1>1
<1>3. PICK r : r = [Request("status", "owner", s) EXCEPT
                     !.shown = shipments[s].version, !.seen = shipments[s].status, !.tx = to]
  OBVIOUS
<1>4. r = [pc |-> "read", op |-> "status", party |-> "owner", on |-> s,
           shown |-> shipments[s].version, seen |-> shipments[s].status, tx |-> to]
  BY <1>3 DEF Request, Idle
<1>5. shipments[s].status \in Statuses
  BY DEF NegotiationInvariant, ShipmentsOK, ShipmentRow
<1>6. Holds(r) /\ r.pc = "read"
  BY <1>2, <1>4, <1>5 DEF Holds
<1> QED BY <1>2, <1>3, <1>6, AskKeeps

(* A delivery names a mail that was sent.                                  *)
LEMMA DeliverKeeps ==
  ASSUME NegotiationInvariant, NEW c \in Callers, Deliver(c)
  PROVE  NegotiationInvariant'
<1>1. PICK m \in DOMAIN mail : Ask(c, Request("mail", None, m))
  BY DEF Deliver
<1>2. PICK r : r = Request("mail", None, m)
  OBVIOUS
<1>3. Holds(r) /\ r.pc = "read"
  BY <1>2, RequestIs DEF Holds
<1>4. Beside
  BY DEF Beside, Deliver, shipVars, negotiationVars
<1> QED BY <1>1, <1>2, <1>3, <1>4, AskKeeps

------------------------------------------------------------------------------
(* The order: what it becomes keeps its round and raises its version.      *)
LEMMA OrderRaised ==
  ASSUME NegotiationInvariant, NEW c \in Callers, NEW status, NEW received, NEW respond_by,
         po' = [status |-> status, received |-> received, total |-> po.total,
                round |-> po.round, respond_by |-> respond_by, version |-> po.version + 1],
         UNCHANGED lines, Beside, Finished(c)
  PROVE  NegotiationInvariant'
<1>1. po.version \in Nat /\ po.round \in Nat
  BY DEF NegotiationInvariant, OrderOK
<1>2. /\ po'.status = status /\ po'.received = received /\ po'.total = po.total
      /\ po'.round = po.round /\ po'.respond_by = respond_by /\ po'.version = po.version + 1
  OBVIOUS
<1>3. OrderOnward
  BY <1>1, <1>2 DEF OrderOnward, OrderOK
<1> QED BY <1>2, <1>3, BesideOnward, Ended DEF Finished

(* The steps of the owner on the order and of the secure links.            *)
LEMMA PortalKeeps ==
  ASSUME NegotiationInvariant, NEW c \in Callers, PortalStep(c), Beside
  PROVE  NegotiationInvariant'
<1>1. CASE AskRegenerate(c) \/ AskRevoke(c) \/ AskView(c) \/ AskOrder(c)
  BY <1>1, PlainAsks, AskOrderKeeps
<1>2. CASE RevokeOld(c)
  <2>1. Goes(c, "revoked", Written(c)) /\ req[c].pc = "found"
    BY <1>2 DEF RevokeOld, At
  <2>2. Onward(c)
    BY <2>1, Uninvolved DEF Goes
  <2>3. PICK tx : tx = Written(c)
    OBVIOUS
  <2> QED BY <2>1, <2>2, <2>3, Went
<1>10. CASE FindLinks(c)
  <2>1. PICK tx : Goes(c, "found", tx) /\ req[c].pc = "read"
    BY <1>10 DEF FindLinks
  <2>2. Onward(c)
    BY <2>1, Uninvolved DEF Goes
  <2> QED BY <2>1, <2>2, Went
<1>3. CASE ReadView(c)
  <2>1. PICK tx : Goes(c, "viewing", tx) /\ req[c].pc = "read"
    BY <1>3 DEF ReadView, At
  <2>2. Onward(c)
    BY <2>1, Uninvolved DEF Goes
  <2> QED BY <2>1, <2>2, Went
<1>4. CASE CreateLink(c) \/ RevokeLink(c) \/ CountView(c) \/ Abandon(c)
  <2>1. Finished(c) /\ UNCHANGED order
    BY <1>4 DEF CreateLink, RevokeLink, CountView, Abandon, order
  <2> QED BY <2>1, Uninvolved, Ended DEF Finished
<1>5. po = [status |-> po.status, received |-> po.received, total |-> po.total,
           round |-> po.round, respond_by |-> po.respond_by, version |-> po.version]
  BY DEF NegotiationInvariant, OrderOK
<1>6. CASE Confirm(c)
  <2>1. po' = [po EXCEPT !.status = "confirmed", !.version = @ + 1] /\ Finished(c) /\ UNCHANGED lines
    BY <1>6 DEF Confirm
  <2>2. po' = [status |-> "confirmed", received |-> po.received, total |-> po.total,
               round |-> po.round, respond_by |-> po.respond_by, version |-> po.version + 1]
    BY <1>5, <2>1
  <2> QED BY <2>1, <2>2, OrderRaised
<1>7. CASE Cancel(c)
  <2>1. po' = [po EXCEPT !.status = "cancelled", !.version = @ + 1] /\ Finished(c) /\ UNCHANGED lines
    BY <1>7 DEF Cancel
  <2>2. po' = [status |-> "cancelled", received |-> po.received, total |-> po.total,
               round |-> po.round, respond_by |-> po.respond_by, version |-> po.version + 1]
    BY <1>5, <2>1
  <2> QED BY <2>1, <2>2, OrderRaised
<1>8. CASE SetDeadline(c)
  <2>1. PICK d : po' = [po EXCEPT !.respond_by = d, !.version = @ + 1]
    BY <1>8 DEF SetDeadline
  <2>2. po' = [status |-> po.status, received |-> po.received, total |-> po.total,
               round |-> po.round, respond_by |-> d, version |-> po.version + 1]
    BY <1>5, <2>1
  <2>3. Finished(c) /\ UNCHANGED lines
    BY <1>8 DEF SetDeadline
  <2> QED BY <2>2, <2>3, OrderRaised
<1>9. CASE Receive(c)
  <2>1. /\ po' = [po EXCEPT !.status = "received", !.received = TRUE, !.version = @ + 1]
        /\ Finished(c) /\ UNCHANGED lines
    BY <1>9 DEF Receive
  <2>2. po' = [status |-> "received", received |-> TRUE, total |-> po.total,
               round |-> po.round, respond_by |-> po.respond_by, version |-> po.version + 1]
    BY <1>5, <2>1
  <2> QED BY <2>1, <2>2, OrderRaised
<1> QED BY <1>1, <1>2, <1>3, <1>4, <1>6, <1>7, <1>8, <1>9, <1>10 DEF PortalStep
------------------------------------------------------------------------------
(* Shipments.                                                              *)
LEMMA ShipmentWritten ==
  ASSUME ShipmentsOK, NEW i, NEW row, i \in DOMAIN shipments => ShipmentRow(row),
         shipments' = [shipments EXCEPT ![i] = row]
  PROVE  ShipmentsOK'
<1>1. /\ Len(shipments) \in Nat /\ DOMAIN shipments = 1..Len(shipments)
      /\ \A s \in DOMAIN shipments : ShipmentRow(shipments[s])
  BY TableSeq DEF ShipmentsOK, Table
<1>2. /\ shipments' = [s \in 1..Len(shipments) |-> shipments'[s]]
      /\ \A s \in DOMAIN shipments : shipments'[s] = IF s = i THEN row ELSE shipments[s]
  BY <1>1
<1>3. Table(shipments') /\ DOMAIN shipments' = DOMAIN shipments
  BY <1>1, <1>2, TableIs
<1>4. \A s \in DOMAIN shipments : ShipmentRow(shipments'[s])
  BY <1>1, <1>2
<1> QED BY <1>3, <1>4 DEF ShipmentsOK, ShipmentRow, Table

(* A step that writes shipments and nothing else ends its request.         *)
LEMMA ShipmentsOnward ==
  ASSUME NegotiationInvariant, NEW c \in Callers, ShipmentsOK', Finished(c),
         UNCHANGED <<order, proposals, agreements, messages, mail>>
  PROVE  NegotiationInvariant'
<1>1. Onward(c)
  BY LeftAlone DEF Onward, order
<1> QED BY <1>1, Ended DEF Finished

(* A new shipment has a history of its creation alone.                     *)
LEMMA CreateShipmentKeeps ==
  ASSUME NegotiationInvariant, NEW c \in Callers, CreateShipment(c),
         UNCHANGED <<proposals, agreements, messages, mail>>
  PROVE  NegotiationInvariant'
<1> DEFINE first == [from |-> None, to |-> "pending"]
           row == [line |-> req[c].on, quantity |-> req[c].seen, status |-> "pending",
                   version |-> 0, history |-> <<first>>, carrier |-> 0, arrival |-> 0,
                   windows |-> <<>>, files |-> 0]
<1>1. shipments' = Append(shipments, row) /\ Finished(c) /\ UNCHANGED order
  BY DEF CreateShipment
<1>2. <<first>> = [i \in 1..1 |-> <<first>>[i]] /\ <<first>>[1] = first
  OBVIOUS
<1>3. Table(<<first>>) /\ Len(<<first>>) = 1
  BY <1>2, TableIs
<1>4. ShipmentRow(row)
  <2>1. first.to = "pending"
    OBVIOUS
  <2> HIDE DEF first
  <2>2. /\ row.history = <<first>> /\ row.status = "pending"
        /\ row = [line |-> row.line, quantity |-> row.quantity, status |-> row.status,
                  version |-> row.version, history |-> row.history, carrier |-> row.carrier,
                  arrival |-> row.arrival, windows |-> row.windows, files |-> row.files]
    OBVIOUS
  <2> HIDE DEF row
  <2>3. \A i \in 2..1 : FALSE
    OBVIOUS
  <2> QED BY <1>2, <1>3, <2>1, <2>2, <2>3 DEF ShipmentRow, Statuses, first
<1> HIDE DEF row
<1>5. ShipmentsOK'
  <2>1. Table(shipments) /\ \A s \in DOMAIN shipments : ShipmentRow(shipments[s])
    BY DEF NegotiationInvariant, ShipmentsOK
  <2>2. /\ Table(shipments') /\ DOMAIN shipments' = 1..(Len(shipments) + 1)
        /\ Len(shipments) \in Nat /\ DOMAIN shipments = 1..Len(shipments)
        /\ \A s \in DOMAIN shipments : shipments'[s] = shipments[s]
        /\ shipments'[Len(shipments) + 1] = row
    BY <1>1, <2>1, TableAppend
  <2>3. \A s \in DOMAIN shipments' : ShipmentRow(shipments'[s])
    BY <1>4, <2>1, <2>2
  <2> QED BY <2>2, <2>3 DEF ShipmentsOK, ShipmentRow, Table
<1> QED BY <1>1, <1>5, ShipmentsOnward

(* A transition that was allowed when it was asked for is appended while   *)
(* the shipment still has the status it starts from.                       *)
LEMMA UpdateStatusKeeps ==
  ASSUME NegotiationInvariant, NEW c \in Callers, UpdateStatus(c),
         UNCHANGED <<proposals, agreements, messages, mail>>
  PROVE  NegotiationInvariant'
<1> DEFINE old == shipments[req[c].on]
           move == [from |-> req[c].seen, to |-> req[c].tx]
           h == old.history
<1>1. /\ req[c].pc = "read" /\ req[c].op = "status" /\ old.status = req[c].seen
      /\ shipments' = [shipments EXCEPT ![req[c].on] =
           [old EXCEPT !.status = req[c].tx, !.version = @ + 1, !.history = Append(@, move)]]
      /\ Finished(c) /\ UNCHANGED order
  BY DEF UpdateStatus, At, StillAs, Wrote
<1>2. req[c].seen \in Statuses /\ req[c].tx \in Transitions[req[c].seen]
  BY <1>1 DEF NegotiationInvariant, RequestsOK, Holds
<1>3. req[c].tx \in Statuses /\ ValidTransition(req[c].seen, req[c].tx)
  BY <1>2 DEF Statuses, Transitions, ValidTransition
<1>4. PICK row : row = [old EXCEPT !.status = req[c].tx, !.version = @ + 1,
                                   !.history = Append(@, move)]
  OBVIOUS
<1>5. ASSUME req[c].on \in DOMAIN shipments PROVE ShipmentRow(row)
  <2>1. ShipmentRow(old)
    BY <1>5 DEF NegotiationInvariant, ShipmentsOK
  <2>2. row = [line |-> old.line, quantity |-> old.quantity, status |-> req[c].tx,
               version |-> old.version + 1, history |-> Append(h, move),
               carrier |-> old.carrier, arrival |-> old.arrival, windows |-> old.windows,
               files |-> old.files]
    BY <1>4, <2>1 DEF ShipmentRow
  <2>3. /\ Table(h) /\ Len(h) > 0
        /\ h[1] = [from |-> None, to |-> "pending"] /\ h[Len(h)].to = req[c].seen
        /\ \A i \in 2..Len(h) : h[i].from = h[i - 1].to /\ ValidTransition(h[i].from, h[i].to)
    BY <1>1, <2>1 DEF ShipmentRow
  <2>4. move.from = req[c].seen /\ move.to = req[c].tx
    OBVIOUS
  <2> HIDE DEF old, move, h
  <2>5. PICK g : g = Append(h, move)
    OBVIOUS
  <2>6. /\ Table(g) /\ Len(h) \in Nat /\ DOMAIN h = 1..Len(h)
        /\ Len(g) = Len(h) + 1
        /\ \A i \in 1..Len(h) : g[i] = h[i]
        /\ g[Len(h) + 1] = move
    BY <2>3, <2>5, TableAppend
  <2>7. g[1] = h[1] /\ g[Len(g)].to = req[c].tx /\ Len(g) > 0
    BY <2>3, <2>4, <2>6
  <2>8. ASSUME NEW i \in 2..Len(g)
        PROVE  g[i].from = g[i - 1].to /\ ValidTransition(g[i].from, g[i].to)
    <3>1. CASE i \in 2..Len(h)
      BY <2>3, <2>6, <3>1
    <3>2. CASE i = Len(h) + 1
      BY <1>3, <2>3, <2>4, <2>6, <3>2
    <3> QED BY <2>6, <3>1, <3>2
  <2>9. row.status = req[c].tx /\ row.history = g
    BY <2>2, <2>5
  <2>10. row = [line |-> row.line, quantity |-> row.quantity, status |-> row.status,
                version |-> row.version, history |-> row.history, carrier |-> row.carrier,
                arrival |-> row.arrival, windows |-> row.windows, files |-> row.files]
    BY <2>2
  <2> QED BY <1>3, <2>3, <2>6, <2>7, <2>8, <2>9, <2>10 DEF ShipmentRow
<1>6. ShipmentsOK'
  BY <1>1, <1>4, <1>5, ShipmentWritten DEF NegotiationInvariant
<1> QED BY <1>1, <1>6, ShipmentsOnward

(* The other updates of a shipment leave its status and history alone.     *)
LEMMA RowWithSameHistory ==
  ASSUME NEW old, ShipmentRow(old), NEW version, NEW carrier, NEW arrival, NEW windows,
         NEW files, NEW row,
         row = [line |-> old.line, quantity |-> old.quantity, status |-> old.status,
                version |-> version, history |-> old.history, carrier |-> carrier,
                arrival |-> arrival, windows |-> windows, files |-> files]
  PROVE  ShipmentRow(row)
<1>1. row.status = old.status /\ row.history = old.history
  OBVIOUS
<1>2. row = [line |-> row.line, quantity |-> row.quantity, status |-> row.status,
             version |-> row.version, history |-> row.history, carrier |-> row.carrier,
             arrival |-> row.arrival, windows |-> row.windows, files |-> row.files]
  OBVIOUS
<1> QED BY <1>1, <1>2 DEF ShipmentRow

(* Details, windows of arrival and documents are written.                  *)
LEMMA OtherUpdatesKeep ==
  ASSUME NegotiationInvariant, NEW c \in Callers,
         UpdateShipment(c) \/ UpdateEta(c) \/ UploadFile(c),
         UNCHANGED <<proposals, agreements, messages, mail>>
  PROVE  NegotiationInvariant'
<1> DEFINE i == req[c].on
           old == shipments[i]
<1>1. i \in DOMAIN shipments => ShipmentRow(old)
  BY DEF NegotiationInvariant, ShipmentsOK
<1>2. ShipmentsOK
  BY DEF NegotiationInvariant
<1>3. CASE UpdateShipment(c)
  <2>1. /\ shipments' = [shipments EXCEPT ![i] = [old EXCEPT !.carrier = @ + 1, !.version = @ + 1]]
        /\ Finished(c) /\ UNCHANGED order
    BY <1>3 DEF UpdateShipment, Wrote
  <2>2. PICK row : row = [old EXCEPT !.carrier = @ + 1, !.version = @ + 1]
    OBVIOUS
  <2>3. ASSUME i \in DOMAIN shipments PROVE ShipmentRow(row)
    <3>1. ShipmentRow(old)
      BY <1>1, <2>3
    <3>2. row = [line |-> old.line, quantity |-> old.quantity, status |-> old.status,
                 version |-> old.version + 1, history |-> old.history,
                 carrier |-> old.carrier + 1, arrival |-> old.arrival,
                 windows |-> old.windows, files |-> old.files]
      BY <2>2, <3>1 DEF ShipmentRow
    <3> HIDE DEF old
    <3> QED BY <3>1, <3>2, RowWithSameHistory
  <2>4. ShipmentsOK'
    BY <1>2, <2>1, <2>2, <2>3, ShipmentWritten
  <2> QED BY <2>1, <2>4, ShipmentsOnward
<1>4. CASE UpdateEta(c)
  <2> DEFINE next == Len(old.windows) + 1
             windows == Append(old.windows, [old |-> req[c].seen, new |-> next])
  <2>1. /\ shipments' = [shipments EXCEPT ![i] =
             [old EXCEPT !.arrival = next,
                         !.windows = Append(@, [old |-> req[c].seen, new |-> next])]]
        /\ Finished(c) /\ UNCHANGED order
    BY <1>4 DEF UpdateEta, Wrote
  <2>2. PICK row : row = [old EXCEPT !.arrival = next,
                            !.windows = Append(@, [old |-> req[c].seen, new |-> next])]
    OBVIOUS
  <2>3. ASSUME i \in DOMAIN shipments PROVE ShipmentRow(row)
    <3>1. ShipmentRow(old)
      BY <1>1, <2>3
    <3>2. row = [line |-> old.line, quantity |-> old.quantity, status |-> old.status,
                 version |-> old.version, history |-> old.history,
                 carrier |-> old.carrier, arrival |-> next,
                 windows |-> windows, files |-> old.files]
      BY <2>2, <3>1 DEF ShipmentRow
    <3> HIDE DEF old, next, windows
    <3> QED BY <3>1, <3>2, RowWithSameHistory
  <2>4. ShipmentsOK'
    BY <1>2, <2>1, <2>2, <2>3, ShipmentWritten
  <2> QED BY <2>1, <2>4, ShipmentsOnward
<1>5. CASE UploadFile(c)
  <2>1. /\ shipments' = [shipments EXCEPT ![i] = [old EXCEPT !.files = @ + 1]]
        /\ Finished(c) /\ UNCHANGED order
    BY <1>5 DEF UploadFile, Wrote
  <2>2. PICK row : row = [old EXCEPT !.files = @ + 1]
    OBVIOUS
  <2>3. ASSUME i \in DOMAIN shipments PROVE ShipmentRow(row)
    <3>1. ShipmentRow(old)
      BY <1>1, <2>3
    <3>2. row = [line |-> old.line, quantity |-> old.quantity, status |-> old.status,
                 version |-> old.version, history |-> old.history,
                 carrier |-> old.carrier, arrival |-> old.arrival,
                 windows |-> old.windows, files |-> old.files + 1]
      BY <2>2, <3>1 DEF ShipmentRow
    <3> HIDE DEF old
    <3> QED BY <3>1, <3>2, RowWithSameHistory
  <2>4. ShipmentsOK'
    BY <1>2, <2>1, <2>2, <2>3, ShipmentWritten
  <2> QED BY <2>1, <2>4, ShipmentsOnward
<1> QED BY <1>3, <1>4, <1>5

(* The steps on the shipments.                                             *)
LEMMA ShipKeeps ==
  ASSUME NegotiationInvariant, NEW c \in Callers, ShipStep(c),
         UNCHANGED <<proposals, agreements, messages, mail>>
  PROVE  NegotiationInvariant'
<1>1. CASE (AskShipment(c) \/ AskStatus(c) \/ AskDetails(c) \/ AskArrival(c) \/ AskUpload(c)
             \/ AskMilestone(c)) /\ UNCHANGED shipVars
  <2>1. Beside
    BY <1>1 DEF Beside, shipVars
  <2> QED BY <1>1, <2>1, PlainAsks, AskStatusKeeps
<1>2. CASE RecordMilestone(c)
  <2>1. Finished(c) /\ UNCHANGED order /\ Beside
    BY <1>2 DEF RecordMilestone, Beside
  <2> QED BY <2>1, Uninvolved, Ended DEF Finished
<1> QED BY <1>1, <1>2, CreateShipmentKeeps, UpdateStatusKeeps, OtherUpdatesKeep DEF ShipStep
------------------------------------------------------------------------------
(* Proposals.                                                              *)
LEMMA ProposalRows ==
  ASSUME NegotiationInvariant
  PROVE  /\ Len(proposals) \in Nat /\ DOMAIN proposals = 1..Len(proposals)
         /\ \A p \in DOMAIN proposals : proposals[p] \in Proposal
<1>1. proposals \in Seq(Proposal)
  BY DEF NegotiationInvariant
<1> QED BY <1>1, LenProperties, ElementOfSeq

(* Rows are replaced: not one that another transaction holds loses its     *)
(* status, and what is accepted stays what is agreed on.                   *)
LEMMA ProposalsChanged ==
  ASSUME NegotiationInvariant, NEW c \in Callers,
         proposals' = [p \in DOMAIN proposals |-> proposals'[p]],
         \A p \in DOMAIN proposals : proposals'[p] \in Proposal,
         \A p \in DOMAIN proposals :
           proposals'[p].status = proposals[p].status
             \/ /\ "accepted" \notin {proposals[p].status, proposals'[p].status}
                /\ \A d \in Callers \ {c} : p \notin Held(d),
         UNCHANGED <<order, agreements, shipments, messages, mail>>
  PROVE  Onward(c)
<1>1. proposals' \in Seq(Proposal) /\ DOMAIN proposals' = DOMAIN proposals
  BY ProposalRows, SeqDef
<1>2. ASSUME NEW d \in Callers \ {c}, NEW p \in Held(d)
      PROVE  proposals'[p].status = proposals[p].status
  <2>1. p \in DOMAIN proposals
    BY <1>2, HeldAreRows
  <2> QED BY <1>2, <2>1
<1>0. {p \in DOMAIN proposals' : proposals'[p].status = "accepted"}
        = {p \in DOMAIN proposals : proposals[p].status = "accepted"}
  BY <1>1
<1>3. AgreementsOK'
  BY <1>0 DEF NegotiationInvariant, AgreementsOK, AgreedOnce, Table, order
<1>4. OrderOnward /\ ShipmentsOK' /\ MailOnward
  BY LeftAlone
<1> QED BY <1>1, <1>2, <1>3, <1>4 DEF Onward, ProposalsOnward

(* A draft is saved: a new row, or a row no transaction holds.             *)
LEMMA SaveDraftKeeps ==
  ASSUME NegotiationInvariant, NEW c \in Callers, SaveDraft(c),
         UNCHANGED <<shipments, messages, mail>>
  PROVE  NegotiationInvariant'
<1> DEFINE p == req[c].on
           old == proposals[p]
<1>1. /\ req[c].pc = "read" /\ req[c].op = "save" /\ Finished(c)
      /\ UNCHANGED <<order, agreements>>
  BY DEF SaveDraft, At
<1>2. p \in DOMAIN proposals \cup {None} /\ req[c].party \in Party /\ req[c].seen \in Offers
  BY <1>1 DEF NegotiationInvariant, RequestsOK, Holds
<1>3. CASE p = None
  <2> DEFINE row == NewDraft(req[c].party, req[c].seen)
  <2>1. proposals' = Append(proposals, row)
    BY <1>3 DEF SaveDraft
  <2>2. row \in Proposal /\ row.status = "draft"
    BY <1>2 DEF NewDraft, Proposal
  <2> HIDE DEF row
  <2>3. proposals \in Seq(Proposal) /\ Len(proposals) \in Nat /\ DOMAIN proposals = 1..Len(proposals)
    BY ProposalRows DEF NegotiationInvariant
  <2>4. /\ proposals' \in Seq(Proposal) /\ Len(proposals') = Len(proposals) + 1
        /\ \A q \in DOMAIN proposals : proposals'[q] = proposals[q]
        /\ proposals'[Len(proposals) + 1] = row
    BY <2>1, <2>2, <2>3, AppendProperties
  <2>5. DOMAIN proposals' = DOMAIN proposals \cup {Len(proposals) + 1}
    BY <2>3, <2>4, LenProperties
  <2>6. \A d \in Callers : Held(d) \subseteq DOMAIN proposals
    BY HeldAreRows
  <2>7. ProposalsOnward(c)
    BY <2>4, <2>5, <2>6 DEF ProposalsOnward
  <2>8. {q \in DOMAIN proposals' : proposals'[q].status = "accepted"}
          = {q \in DOMAIN proposals : proposals[q].status = "accepted"}
    BY <2>2, <2>4, <2>5
  <2>9. AgreementsOK'
    BY <1>1, <2>8 DEF NegotiationInvariant, AgreementsOK, AgreedOnce, Table, order
  <2>10. Onward(c)
    BY <1>1, <2>7, <2>9, LeftAlone DEF Onward
  <2> QED BY <1>1, <2>10, Ended DEF Finished
<1>4. CASE p # None
  <2>1. /\ old.status = "draft" /\ \A d \in Callers \ {c} : p \notin Held(d)
        /\ proposals' = [proposals EXCEPT ![p].changes = req[c].seen, ![p].files = 0,
                                          ![p].version = @ + 1]
    BY <1>4 DEF SaveDraft, StillDraft, ProposalFree
  <2>2. p \in DOMAIN proposals /\ old \in Proposal
    BY <1>2, <1>4, ProposalRows
  <2>3. \A q \in DOMAIN proposals : q # p => proposals'[q] = proposals[q]
    BY <2>1
  <2>4. proposals'[p] = [old EXCEPT !.changes = req[c].seen, !.files = 0, !.version = @ + 1]
    BY <2>1, <2>2
  <2>5. proposals'[p] = [party |-> old.party, status |-> old.status, changes |-> req[c].seen,
                         revision |-> old.revision, version |-> old.version + 1, files |-> 0]
    BY <2>2, <2>4 DEF Proposal
  <2>6. proposals'[p] \in Proposal /\ proposals'[p].status = old.status
    BY <1>2, <2>2, <2>5 DEF Proposal
  <2>7. proposals' = [q \in DOMAIN proposals |-> proposals'[q]]
    BY <2>1
  <2>8. Onward(c)
    BY <1>1, <2>3, <2>6, <2>7, ProposalRows, ProposalsChanged
  <2> QED BY <1>1, <2>8, Ended DEF Finished
<1> QED BY <1>3, <1>4

(* A file is attached to a proposal.                                       *)
LEMMA AttachKeeps ==
  ASSUME NegotiationInvariant, NEW c \in Callers, Attach(c), UNCHANGED <<shipments, messages, mail>>
  PROVE  NegotiationInvariant'
<1> DEFINE p == req[c].on
           old == proposals[p]
<1>1. /\ proposals' = [proposals EXCEPT ![p].files = @ + 1] /\ Finished(c)
      /\ UNCHANGED <<order, agreements>>
  BY DEF Attach
<1>2. \A q \in DOMAIN proposals : q # p => proposals'[q] = proposals[q]
  BY <1>1
<1>3. ASSUME p \in DOMAIN proposals
      PROVE  proposals'[p] \in Proposal /\ proposals'[p].status = old.status
  <2>1. old \in Proposal /\ proposals'[p] = [old EXCEPT !.files = @ + 1]
    BY <1>1, <1>3, ProposalRows
  <2>2. proposals'[p] = [party |-> old.party, status |-> old.status, changes |-> old.changes,
                         revision |-> old.revision, version |-> old.version,
                         files |-> old.files + 1]
    BY <2>1 DEF Proposal
  <2> QED BY <2>1, <2>2 DEF Proposal
<1>4. proposals' = [q \in DOMAIN proposals |-> proposals'[q]]
  BY <1>1
<1>5. Onward(c)
  BY <1>1, <1>2, <1>3, <1>4, ProposalRows, ProposalsChanged
<1> QED BY <1>1, <1>5, Ended DEF Finished

(* A pending proposal no transaction holds is rejected.                    *)
LEMMA RejectKeeps ==
  ASSUME NegotiationInvariant, NEW c \in Callers, Reject(c), UNCHANGED <<shipments, messages, mail>>
  PROVE  NegotiationInvariant'
<1> DEFINE p == req[c].on
           old == proposals[p]
<1>1. /\ old.status = "pending" /\ \A d \in Callers \ {c} : p \notin Held(d)
      /\ proposals' = [proposals EXCEPT ![p].status = "rejected"] /\ Finished(c)
      /\ UNCHANGED <<order, agreements>>
  BY DEF Reject, StillPending, ProposalFree
<1>2. \A q \in DOMAIN proposals : q # p => proposals'[q] = proposals[q]
  BY <1>1
<1>3. ASSUME p \in DOMAIN proposals
      PROVE  proposals'[p] \in Proposal /\ proposals'[p].status = "rejected"
  <2>1. old \in Proposal /\ proposals'[p] = [old EXCEPT !.status = "rejected"]
    BY <1>1, <1>3, ProposalRows
  <2>2. proposals'[p] = [party |-> old.party, status |-> "rejected", changes |-> old.changes,
                         revision |-> old.revision, version |-> old.version, files |-> old.files]
    BY <2>1 DEF Proposal
  <2> QED BY <2>1, <2>2 DEF Proposal
<1>4. proposals' = [q \in DOMAIN proposals |-> proposals'[q]]
  BY <1>1
<1>5. ASSUME NEW q \in DOMAIN proposals
      PROVE  /\ proposals'[q] \in Proposal
             /\ \/ proposals'[q].status = proposals[q].status
                \/ /\ "accepted" \notin {proposals[q].status, proposals'[q].status}
                   /\ \A d \in Callers \ {c} : q \notin Held(d)
  <2>1. CASE q = p
    BY <1>1, <1>3, <2>1
  <2>2. CASE q # p
    BY <1>2, <2>2, ProposalRows
  <2> QED BY <2>1, <2>2
<1>6. Onward(c)
  BY <1>1, <1>4, <1>5, ProposalsChanged
<1> QED BY <1>1, <1>6, Ended DEF Finished

(* The revision of a submission commits with what it supersedes; it held   *)
(* all those rows since it looked at them.                                 *)
LEMMA CommitSubmitKeeps ==
  ASSUME NegotiationInvariant, NEW c \in Callers, CommitSubmit(c),
         UNCHANGED <<shipments, messages, mail>>
  PROVE  NegotiationInvariant'
<1> DEFINE p == req[c].on
           others == req[c].tx.others
<1>1. /\ req[c].pc = "numbered" /\ Finished(c) /\ UNCHANGED <<order, agreements>>
      /\ proposals' = [q \in DOMAIN proposals |->
           IF q = p
           THEN [proposals[q] EXCEPT !.status = "pending", !.revision = req[c].tx.revision]
           ELSE IF q \in others THEN [proposals[q] EXCEPT !.status = "superseded"]
           ELSE proposals[q]]
  BY DEF CommitSubmit, At
<1>2. /\ p \in DOMAIN proposals /\ proposals[p].status = "draft"
      /\ req[c].tx.revision \in Nat /\ others \subseteq Pending
  BY <1>1 DEF NegotiationInvariant, RequestsOK, Holds
<1>3. Held(c) = {p} \cup others
  BY <1>1 DEF Held
<1>4. \A d \in Callers \ {c} : p \notin Held(d) /\ others \cap Held(d) = {}
  BY <1>3 DEF NegotiationInvariant, RequestsOK
<1>5. ASSUME NEW q \in DOMAIN proposals
      PROVE  /\ proposals'[q] \in Proposal
             /\ \/ proposals'[q].status = proposals[q].status
                \/ /\ "accepted" \notin {proposals[q].status, proposals'[q].status}
                   /\ \A d \in Callers \ {c} : q \notin Held(d)
  <2> DEFINE old == proposals[q]
  <2>1. old \in Proposal
    BY ProposalRows
  <2>2. CASE q = p
    <3>1. proposals'[q] = [old EXCEPT !.status = "pending", !.revision = req[c].tx.revision]
      BY <1>1, <2>2
    <3>2. proposals'[q] = [party |-> old.party, status |-> "pending", changes |-> old.changes,
                           revision |-> req[c].tx.revision, version |-> old.version,
                           files |-> old.files]
      BY <2>1, <3>1 DEF Proposal
    <3>3. proposals'[q] \in Proposal /\ proposals'[q].status = "pending"
      BY <1>2, <2>1, <3>2 DEF Proposal
    <3> QED BY <1>2, <1>4, <2>2, <3>3
  <2>3. CASE q # p /\ q \in others
    <3>1. proposals'[q] = [old EXCEPT !.status = "superseded"] /\ old.status = "pending"
      BY <1>1, <1>2, <2>3 DEF Pending
    <3>2. proposals'[q] = [party |-> old.party, status |-> "superseded", changes |-> old.changes,
                           revision |-> old.revision, version |-> old.version,
                           files |-> old.files]
      BY <2>1, <3>1 DEF Proposal
    <3>3. proposals'[q] \in Proposal /\ proposals'[q].status = "superseded"
      BY <2>1, <3>2 DEF Proposal
    <3> QED BY <1>4, <2>3, <3>1, <3>3
  <2>4. CASE q # p /\ q \notin others
    BY <1>1, <2>1, <2>4
  <2> QED BY <2>2, <2>3, <2>4
<1>6. proposals' = [q \in DOMAIN proposals |-> proposals'[q]]
  BY <1>1
<1>7. Onward(c)
  BY <1>1, <1>5, <1>6, ProposalsChanged
<1> QED BY <1>1, <1>7, Ended DEF Finished
(* A request goes on inside its transaction, and writes nothing yet.       *)
LEMMA Advanced ==
  ASSUME NegotiationInvariant, NEW c \in Callers, Beside, NEW pc, NEW tx, Goes(c, pc, tx), NEW r,
         r = [pc |-> pc, op |-> req[c].op, party |-> req[c].party, on |-> req[c].on,
              shown |-> req[c].shown, seen |-> req[c].seen, tx |-> tx],
         Holds(r)
  PROVE  /\ req'[c] = r
         /\ (\A d \in Callers \ {c} : Held(c)' \cap Held(d) = {}) => NegotiationInvariant'
<1>1. req = [d \in Callers |-> req[d]] /\ Holds(req[c])
  BY DEF NegotiationInvariant, RequestsOK
<1>2. /\ req' = [req EXCEPT ![c] = req'[c]] /\ req'[c] = [req[c] EXCEPT !.pc = pc, !.tx = tx]
      /\ UNCHANGED order
  BY <1>1 DEF Goes
<1>3. req'[c] = r
  BY <1>1, <1>2 DEF Holds
<1>4. Holds(req[c])'
  BY <1>2, <1>3 DEF Holds, Beside, order, Pending
<1> QED BY <1>2, <1>3, <1>4, Uninvolved, RequestReplaced

(* A submission takes the row of its draft, which nobody else holds.       *)
LEMMA MarkPendingKeeps ==
  ASSUME NegotiationInvariant, NEW c \in Callers, MarkPending(c), Beside
  PROVE  NegotiationInvariant'
<1>1. /\ req[c].pc = "read" /\ req[c].op = "submit" /\ proposals[req[c].on].status = "draft"
      /\ \A d \in Callers \ {c} : req[c].on \notin Held(d)
      /\ Goes(c, "marked", None)
  BY DEF MarkPending, At, StillDraft, ProposalFree
<1>2. req[c].on \in DOMAIN proposals
  BY <1>1 DEF NegotiationInvariant, RequestsOK, Holds
<1>3. PICK r : r = [pc |-> "marked", op |-> req[c].op, party |-> req[c].party, on |-> req[c].on,
                    shown |-> req[c].shown, seen |-> req[c].seen, tx |-> None]
  OBVIOUS
<1>4. Holds(r)
  BY <1>1, <1>2, <1>3 DEF Holds
<1>5. req'[c] = r /\ ((\A d \in Callers \ {c} : Held(c)' \cap Held(d) = {}) => NegotiationInvariant')
  BY <1>1, <1>3, <1>4, Advanced
<1>6. Held(c)' = {req[c].on}
  BY <1>3, <1>5 DEF Held
<1> QED BY <1>1, <1>5, <1>6

(* A submission goes on with the row of its draft.                         *)
LEMMA SubmissionGoes ==
  ASSUME NegotiationInvariant, NEW c \in Callers, Beside,
         req[c].pc \in {"marked", "counted"}, NEW pc \in {"counted", "superseding"},
         NEW tx, tx = [revision |-> tx.revision, others |-> tx.others], tx.revision \in Nat,
         req[c].op = "submit", Goes(c, pc, tx)
  PROVE  NegotiationInvariant'
<1>1. req[c].on \in DOMAIN proposals /\ proposals[req[c].on].status = "draft"
  BY DEF NegotiationInvariant, RequestsOK, Holds
<1>2. PICK r : r = [pc |-> pc, op |-> req[c].op, party |-> req[c].party, on |-> req[c].on,
                    shown |-> req[c].shown, seen |-> req[c].seen, tx |-> tx]
  OBVIOUS
<1>3. Holds(r)
  BY <1>1, <1>2 DEF Holds
<1>4. req'[c] = r /\ ((\A d \in Callers \ {c} : Held(c)' \cap Held(d) = {}) => NegotiationInvariant')
  BY <1>2, <1>3, Advanced
<1>5. Held(c)' = Held(c)
  BY <1>2, <1>4 DEF Held
<1> QED BY <1>4, <1>5 DEF NegotiationInvariant, RequestsOK

(* It counts what was submitted before it.                                 *)
LEMMA NumberRevisionKeeps ==
  ASSUME NegotiationInvariant, NEW c \in Callers, NumberRevision(c), Beside
  PROVE  NegotiationInvariant'
<1>1. IsFiniteSet(DOMAIN proposals)
  BY ProposalRows, FS_Interval
<1>2. IsFiniteSet(Submitted)
  BY <1>1, FS_Subset DEF Submitted
<1>3. PICK tx : tx = [revision |-> Cardinality(Submitted) + 1, others |-> {}]
  OBVIOUS
<1>4. tx = [revision |-> tx.revision, others |-> tx.others] /\ tx.revision \in Nat
  BY <1>2, <1>3, FS_CardinalityType
<1> QED BY <1>3, <1>4, SubmissionGoes DEF NumberRevision, At

(* It looks for what it is to supersede.                                   *)
LEMMA FindOthersKeeps ==
  ASSUME NegotiationInvariant, NEW c \in Callers, FindOthers(c), Beside
  PROVE  NegotiationInvariant'
<1>1. PICK others : req[c].pc = "counted" /\ req[c].op = "submit" /\
        Goes(c, "superseding", [req[c].tx EXCEPT !.others = others])
  BY DEF FindOthers, At
<1>2. /\ req[c].tx = [revision |-> req[c].tx.revision, others |-> req[c].tx.others]
      /\ req[c].tx.revision \in Nat
  BY <1>1 DEF NegotiationInvariant, RequestsOK, Holds
<1>3. PICK tx : tx = [req[c].tx EXCEPT !.others = others]
  OBVIOUS
<1>4. tx = [revision |-> req[c].tx.revision, others |-> others]
  BY <1>2, <1>3
<1>5. tx = [revision |-> tx.revision, others |-> tx.others] /\ tx.revision \in Nat
  BY <1>2, <1>4
<1> QED BY <1>1, <1>3, <1>5, SubmissionGoes

(* It takes of these the rows that are still pending, which nobody else    *)
(* holds.                                                                  *)
LEMMA SupersedeOthersKeeps ==
  ASSUME NegotiationInvariant, NEW c \in Callers, SupersedeOthers(c), Beside
  PROVE  NegotiationInvariant'
<1> DEFINE others == req[c].tx.others \cap Pending
           tx == [req[c].tx EXCEPT !.others = @ \cap Pending]
<1>1. /\ req[c].pc = "superseding" /\ req[c].op = "submit"
      /\ \A p \in others : \A d \in Callers \ {c} : p \notin Held(d)
      /\ Goes(c, "numbered", tx)
  BY DEF SupersedeOthers, At, ProposalFree
<1>2. /\ req[c].on \in DOMAIN proposals /\ proposals[req[c].on].status = "draft"
      /\ req[c].tx = [revision |-> req[c].tx.revision, others |-> req[c].tx.others]
      /\ req[c].tx.revision \in Nat
  BY <1>1 DEF NegotiationInvariant, RequestsOK, Holds
<1>3. others \subseteq Pending
  OBVIOUS
<1>4. tx = [revision |-> req[c].tx.revision, others |-> others]
  <2>1. PICK old : old = req[c].tx
    OBVIOUS
  <2>2. old = [revision |-> old.revision, others |-> old.others]
    BY <1>2, <2>1
  <2>3. [old EXCEPT !.others = @ \cap Pending]
          = [revision |-> old.revision, others |-> old.others \cap Pending]
    BY <2>2
  <2> QED BY <2>1, <2>3
<1>6. Held(c) = {req[c].on}
  BY <1>1 DEF Held
<1> HIDE DEF tx, others
<1>7. PICK t : t = tx
  OBVIOUS
<1>5. t = [revision |-> t.revision, others |-> t.others] /\ t.revision \in Nat /\ t.others = others
  BY <1>2, <1>4, <1>7
<1>8. PICK r : r = [pc |-> "numbered", op |-> req[c].op, party |-> req[c].party, on |-> req[c].on,
                    shown |-> req[c].shown, seen |-> req[c].seen, tx |-> t]
  OBVIOUS
<1>9. Holds(r)
  BY <1>1, <1>2, <1>3, <1>5, <1>8 DEF Holds
<1>10. req'[c] = r /\ ((\A d \in Callers \ {c} : Held(c)' \cap Held(d) = {}) => NegotiationInvariant')
  BY <1>1, <1>7, <1>8, <1>9, Advanced
<1>11. Held(c)' = {req[c].on} \cup others
  BY <1>5, <1>8, <1>10 DEF Held
<1>12. \A d \in Callers \ {c} : req[c].on \notin Held(d)
  BY <1>6 DEF NegotiationInvariant, RequestsOK
<1> QED BY <1>1, <1>10, <1>11, <1>12

(* An acceptance takes the row of a pending proposal, which nobody else    *)
(* holds.                                                                  *)
LEMMA ResolveKeeps ==
  ASSUME NegotiationInvariant, NEW c \in Callers, ResolveProposal(c), Beside
  PROVE  NegotiationInvariant'
<1>1. /\ req[c].pc = "read" /\ req[c].op = "accept" /\ proposals[req[c].on].status = "pending"
      /\ \A d \in Callers \ {c} : req[c].on \notin Held(d)
      /\ Goes(c, "resolved", lines)
  BY DEF ResolveProposal, At, StillPending, ProposalFree
<1>2. req[c].on \in Pending
  BY <1>1 DEF NegotiationInvariant, RequestsOK, Holds, Pending
<1>3. PICK t : t = lines
  OBVIOUS
<1>4. PICK r : r = [pc |-> "resolved", op |-> req[c].op, party |-> req[c].party, on |-> req[c].on,
                    shown |-> req[c].shown, seen |-> req[c].seen, tx |-> t]
  OBVIOUS
<1>5. Holds(r)
  BY <1>1, <1>2, <1>4 DEF Holds
<1>6. req'[c] = r /\ ((\A d \in Callers \ {c} : Held(c)' \cap Held(d) = {}) => NegotiationInvariant')
  BY <1>1, <1>3, <1>4, <1>5, Advanced
<1>7. Held(c)' = {req[c].on}
  BY <1>4, <1>6 DEF Held
<1> QED BY <1>1, <1>6, <1>7

(* An acceptance applies the changes and keeps the row it holds.           *)
LEMMA ApplyKeeps ==
  ASSUME NegotiationInvariant, NEW c \in Callers, ApplyChanges(c), Beside
  PROVE  NegotiationInvariant'
<1>1. PICK t : Goes(c, "applied", t)
  BY DEF ApplyChanges
<1>2. req[c].pc = "resolved" /\ req[c].op = "accept"
  BY DEF ApplyChanges, At
<1>3. req[c].on \in Pending
  BY <1>2 DEF NegotiationInvariant, RequestsOK, Holds
<1>4. PICK r : r = [pc |-> "applied", op |-> req[c].op, party |-> req[c].party, on |-> req[c].on,
                    shown |-> req[c].shown, seen |-> req[c].seen, tx |-> t]
  OBVIOUS
<1>5. Holds(r)
  BY <1>2, <1>3, <1>4 DEF Holds
<1>6. req'[c] = r /\ ((\A d \in Callers \ {c} : Held(c)' \cap Held(d) = {}) => NegotiationInvariant')
  BY <1>1, <1>4, <1>5, Advanced
<1>7. Held(c)' = {req[c].on} /\ Held(c) = {req[c].on}
  BY <1>2, <1>4, <1>6 DEF Held
<1> QED BY <1>6, <1>7 DEF NegotiationInvariant, RequestsOK

(* An acceptance commits one more round and one more agreement, of a       *)
(* proposal that was pending since the transaction resolved it.            *)
LEMMA CommitAcceptKeeps ==
  ASSUME NegotiationInvariant, NEW c \in Callers, CommitAccept(c),
         UNCHANGED <<shipments, messages, mail>>
  PROVE  NegotiationInvariant'
<1> DEFINE p == req[c].on
           old == proposals[p]
           agreement == [proposal |-> p, round |-> po.round + 1,
                         items |-> req[c].tx.items, total |-> req[c].tx.total]
<1>1. /\ req[c].pc = "applied"
      /\ po' = [po EXCEPT !.total = req[c].tx.total, !.round = @ + 1, !.version = @ + 1]
      /\ proposals' = [proposals EXCEPT ![p].status = "accepted"]
      /\ agreements' = Append(agreements, agreement)
      /\ Finished(c)
  BY DEF CommitAccept, At, Agreed
<1>2. p \in DOMAIN proposals /\ old.status = "pending" /\ old \in Proposal
  BY <1>1, ProposalRows DEF NegotiationInvariant, RequestsOK, Holds, Pending
<1>3. \A d \in Callers \ {c} : p \notin Held(d)
  BY <1>1 DEF Held, NegotiationInvariant, RequestsOK
<1>4. /\ Table(agreements) /\ po.round = Len(agreements) /\ po.round \in Nat /\ po.version \in Nat
      /\ \A a \in DOMAIN agreements : agreements[a].round = a
      /\ \A a, b \in DOMAIN agreements :
           agreements[a].proposal = agreements[b].proposal => a = b
      /\ {q \in DOMAIN proposals : proposals[q].status = "accepted"}
           = {agreements[a].proposal : a \in DOMAIN agreements}
      /\ po = [status |-> po.status, received |-> po.received, total |-> po.total,
               round |-> po.round, respond_by |-> po.respond_by, version |-> po.version]
  BY DEF NegotiationInvariant, AgreementsOK, AgreedOnce, OrderOK, IsInjective
<1>5. po' = [status |-> po.status, received |-> po.received, total |-> req[c].tx.total,
             round |-> po.round + 1, respond_by |-> po.respond_by, version |-> po.version + 1]
  BY <1>1, <1>4
<1>6. OrderOnward /\ po'.round = po.round + 1
  <2>1. /\ po'.status = po.status /\ po'.received = po.received /\ po'.total = req[c].tx.total
        /\ po'.round = po.round + 1 /\ po'.respond_by = po.respond_by
        /\ po'.version = po.version + 1
    BY <1>5
  <2> QED BY <1>4, <1>5, <2>1 DEF OrderOnward, OrderOK
<1>7. /\ DOMAIN proposals' = DOMAIN proposals
      /\ \A q \in DOMAIN proposals : q # p => proposals'[q] = proposals[q]
  BY <1>1
<1>8. proposals'[p] \in Proposal /\ proposals'[p].status = "accepted"
  <2>1. proposals'[p] = [old EXCEPT !.status = "accepted"]
    BY <1>1, <1>2
  <2>2. proposals'[p] = [party |-> old.party, status |-> "accepted", changes |-> old.changes,
                         revision |-> old.revision, version |-> old.version, files |-> old.files]
    BY <1>2, <2>1 DEF Proposal
  <2> QED BY <1>2, <2>2 DEF Proposal
<1>9. proposals' \in Seq(Proposal)
  <2>1. \A q \in DOMAIN proposals : proposals'[q] \in Proposal
    BY <1>7, <1>8, ProposalRows
  <2>2. proposals' = [q \in DOMAIN proposals |-> proposals'[q]]
    BY <1>1
  <2> QED BY <2>1, <2>2, ProposalRows, SeqDef
<1>10. ProposalsOnward(c)
  <2>1. \A d \in Callers \ {c} : Held(d) \subseteq DOMAIN proposals
    BY HeldAreRows
  <2> QED BY <1>3, <1>7, <1>9, <2>1 DEF ProposalsOnward
<1>11. {q \in DOMAIN proposals' : proposals'[q].status = "accepted"}
         = {q \in DOMAIN proposals : proposals[q].status = "accepted"} \cup {p}
  BY <1>2, <1>7, <1>8
<1>12. agreement.proposal = p /\ agreement.round = po.round + 1
  OBVIOUS
<1> HIDE DEF agreement
<1>13. /\ Table(agreements') /\ Len(agreements) \in Nat /\ DOMAIN agreements = 1..Len(agreements)
       /\ DOMAIN agreements' = 1..(Len(agreements) + 1) /\ Len(agreements') = Len(agreements) + 1
       /\ \A a \in DOMAIN agreements : agreements'[a] = agreements[a]
       /\ agreements'[Len(agreements) + 1] = agreement
  BY <1>1, <1>4, TableAppend
<1>14. \A a \in DOMAIN agreements' : agreements'[a].round = a
  BY <1>4, <1>12, <1>13
<1>15. \A a \in DOMAIN agreements : agreements[a].proposal # p
  BY <1>2, <1>4
<1>16. \A a, b \in DOMAIN agreements' :
         agreements'[a].proposal = agreements'[b].proposal => a = b
  BY <1>4, <1>12, <1>13, <1>15
<1>17. {agreements'[a].proposal : a \in DOMAIN agreements'}
         = {agreements[a].proposal : a \in DOMAIN agreements} \cup {p}
  BY <1>12, <1>13
<1>18. AgreementsOK'
  BY <1>4, <1>6, <1>11, <1>13, <1>14, <1>16, <1>17 DEF AgreementsOK, AgreedOnce, Table, IsInjective
<1>19. Onward(c)
  BY <1>6, <1>10, <1>18, LeftAlone DEF Onward
<1> QED BY <1>1, <1>19, Ended DEF Finished

------------------------------------------------------------------------------
(* Messages are added and marked, never removed.                           *)
LEMMA MessagesChanged ==
  ASSUME NegotiationInvariant, UNCHANGED mail, Table(messages'),
         DOMAIN messages \subseteq DOMAIN messages'
  PROVE  MailOnward
<1>1. \A m \in DOMAIN mail : MailRow(mail[m])'
  <2>1. TAKE m \in DOMAIN mail
  <2>2. MailRow(mail[m])
    BY DEF NegotiationInvariant, MailOK
  <2> QED BY <2>2 DEF MailRow
<1> QED BY <1>1 DEF NegotiationInvariant, MailOK, MailOnward, Table

(* A message is written, or marked as read.                                *)
LEMMA MessagesOnward ==
  ASSUME NegotiationInvariant, NEW c \in Callers, CreateMessage(c) \/ MarkMessageRead(c),
         UNCHANGED <<shipments, mail>>
  PROVE  NegotiationInvariant'
<1>1. Table(messages)
  BY DEF NegotiationInvariant, MailOK
<1>2. Finished(c) /\ UNCHANGED <<order, proposals, agreements>>
  BY DEF CreateMessage, MarkMessageRead
<1>3. Table(messages') /\ DOMAIN messages \subseteq DOMAIN messages'
  <2>1. CASE CreateMessage(c)
    <3>1. PICK row : messages' = Append(messages, row)
      BY <2>1 DEF CreateMessage
    <3> QED BY <1>1, <3>1, TableAppend
  <2>2. CASE MarkMessageRead(c)
    <3>1. messages' = messages
            \/ messages' = [messages EXCEPT ![req[c].on].read_by = req[c].party,
                                            ![req[c].on].told = @ + 1]
      BY <2>2 DEF MarkMessageRead
    <3>2. Len(messages) \in Nat /\ DOMAIN messages = 1..Len(messages)
      BY <1>1, TableSeq DEF Table
    <3>3. CASE messages' = messages
      BY <1>1, <3>3
    <3>4. CASE messages' = [messages EXCEPT ![req[c].on].read_by = req[c].party,
                                            ![req[c].on].told = @ + 1]
      <4>1. messages' = [i \in 1..Len(messages) |-> messages'[i]]
        BY <3>2, <3>4
      <4> QED BY <3>2, <4>1, TableIs
    <3> QED BY <3>1, <3>3, <3>4
  <2> QED BY <2>1, <2>2
<1>4. MailOnward
  BY <1>2, <1>3, MessagesChanged
<1>5. Onward(c)
  BY <1>2, <1>4, LeftAlone DEF Onward, order
<1> QED BY <1>2, <1>5, Ended DEF Finished

(* The two parties' steps in the negotiation.                              *)
LEMMA NegotiationKeeps ==
  ASSUME NegotiationInvariant, NEW c \in Callers, NegotiationStep(c),
         UNCHANGED shipVars, UNCHANGED mail
  PROVE  NegotiationInvariant'
<1>1. UNCHANGED shipments
  BY DEF shipVars
<1>2. CASE UNCHANGED negotiationVars /\
           (AskSave(c) \/ AskAttach(c) \/ AskSubmit(c) \/ AskAccept(c) \/ AskReject(c)
              \/ AskMessage(c) \/ AskRead(c)
              \/ MarkPending(c) \/ NumberRevision(c) \/ FindOthers(c) \/ SupersedeOthers(c)
              \/ ResolveProposal(c) \/ ApplyChanges(c))
  <2>1. Beside
    BY <1>1, <1>2 DEF Beside, negotiationVars
  <2>2. CASE AskSave(c) \/ AskSubmit(c) \/ AskAccept(c)
    BY <2>1, <2>2, AskSaveKeeps, AskSubmitKeeps, AskAcceptKeeps
  <2>3. CASE AskAttach(c) \/ AskReject(c) \/ AskMessage(c) \/ AskRead(c)
    BY <2>1, <2>3, PlainAsks
  <2>4. CASE MarkPending(c) \/ NumberRevision(c) \/ FindOthers(c) \/ SupersedeOthers(c)
    BY <2>1, <2>4, MarkPendingKeeps, NumberRevisionKeeps, FindOthersKeeps, SupersedeOthersKeeps
  <2>5. CASE ResolveProposal(c) \/ ApplyChanges(c)
    BY <2>1, <2>5, ResolveKeeps, ApplyKeeps
  <2> QED BY <1>2, <2>2, <2>3, <2>4, <2>5
<1>3. CASE SaveDraft(c) \/ Attach(c) \/ CommitSubmit(c) \/ CommitAccept(c) \/ Reject(c)
  <2>1. UNCHANGED messages
    BY <1>3 DEF SaveDraft, Attach, CommitSubmit, CommitAccept, Reject
  <2> QED BY <1>1, <1>3, <2>1, SaveDraftKeeps, AttachKeeps, CommitSubmitKeeps,
             CommitAcceptKeeps, RejectKeeps
<1>4. CASE CreateMessage(c) \/ MarkMessageRead(c)
  BY <1>1, <1>4, MessagesOnward
<1> QED BY <1>2, <1>3, <1>4 DEF NegotiationStep

------------------------------------------------------------------------------
(* The row of one mail is written.                                         *)
LEMMA MailWritten ==
  ASSUME NegotiationInvariant, NEW m \in DOMAIN mail, NEW row, mail' = [mail EXCEPT ![m] = row],
         row.kind = mail[m].kind, MailRow(row)', Table(messages'),
         DOMAIN messages \subseteq DOMAIN messages',
         \A n \in DOMAIN mail \ {m} : row.messages \cap mail[n].messages = {}
  PROVE  MailOnward
<1>1. /\ mail = [n \in DOMAIN mail |-> mail[n]] /\ \A n \in DOMAIN mail : MailRow(mail[n])
      /\ \A n, k \in DOMAIN mail : n # k => mail[n].messages \cap mail[k].messages = {}
  BY DEF NegotiationInvariant, MailOK
<1>2. /\ mail' = [n \in DOMAIN mail |-> mail'[n]] /\ DOMAIN mail' = DOMAIN mail /\ mail'[m] = row
      /\ \A n \in DOMAIN mail \ {m} : mail'[n] = mail[n]
  BY <1>1
<1>3. \A n \in DOMAIN mail : MailRow(mail[n])'
  <2>1. TAKE n \in DOMAIN mail
  <2>2. CASE n = m
    BY <1>2, <2>2 DEF MailRow
  <2>3. CASE n # m
    <3>1. MailRow(mail[n]) /\ mail'[n] = mail[n]
      BY <1>1, <1>2, <2>3
    <3> QED BY <3>1 DEF MailRow
  <2> QED BY <2>2, <2>3
<1>4. \A n, k \in DOMAIN mail : n # k => mail'[n].messages \cap mail'[k].messages = {}
  <2>1. TAKE n, k \in DOMAIN mail
  <2>2. CASE n # m /\ k # m
    BY <1>1, <1>2, <2>2
  <2>3. CASE n = m \/ k = m
    BY <1>2, <2>3
  <2> QED BY <2>2, <2>3
<1>5. \A n \in DOMAIN mail : mail'[n].kind = mail[n].kind
  BY <1>2
<1> QED BY <1>2, <1>3, <1>4, <1>5 DEF MailOnward, MailOK, Table

(* A delivery that decides, finds the mail known or fails writes nothing.  *)
LEMMA ContinueKeeps ==
  ASSUME NegotiationInvariant, NEW c \in Callers,
         KnownAlready(c) \/ Decide(c) \/ Duplicate(c) \/ FailQuietly(c)
  PROVE  NegotiationInvariant'
<1>1. PICK pc \in {"message", "quarantine", "answer"} :
        /\ Continue(c, pc) /\ req[c].pc # "idle"
        /\ pc = "message" => req[c].op = "mail" /\ mail[req[c].on].kind = "reply"
  BY DEF KnownAlready, Decide, Duplicate, FailQuietly, At, On
<1>2. Goes(c, pc, None) /\ Beside
  BY <1>1 DEF Continue, Beside, shipVars, negotiationVars
<1>3. Onward(c)
  BY <1>2, Uninvolved DEF Goes
<1> QED BY <1>1, <1>2, <1>3, Went

(* A mail is claimed together with its message, whose index is new.        *)
LEMMA CommitMessageKeeps ==
  ASSUME NegotiationInvariant, NEW c \in Callers, CommitMessage(c)
  PROVE  NegotiationInvariant'
<1> DEFINE m == req[c].on
           old == mail[m]
           next == Len(messages) + 1
<1>1. /\ req[c].pc = "message" /\ req[c].op = "mail" /\ ~old.claimed /\ old.messages = {}
      /\ Goes(c, "answer", None)
      /\ UNCHANGED <<order, shipments, proposals, agreements>>
  BY DEF CommitMessage, At, Unclaimed, Goes, shipVars
<1>2. m \in DOMAIN mail /\ old.kind = "reply" /\ MailRow(old) /\ Table(messages)
  BY <1>1 DEF NegotiationInvariant, RequestsOK, Holds, MailOK
<1>3. /\ Table(messages') /\ Len(messages) \in Nat /\ DOMAIN messages = 1..Len(messages)
      /\ DOMAIN messages' = 1..next /\ Len(messages') = next
  <2>1. PICK row : messages' = Append(messages, row)
    BY DEF CommitMessage
  <2> QED BY <1>2, <2>1, TableAppend
<1>4. PICK row : row = [old EXCEPT !.claimed = TRUE, !.messages = @ \cup {next}]
  OBVIOUS
<1>5. mail' = [mail EXCEPT ![m] = row]
  BY <1>3, <1>4 DEF CommitMessage
<1>6. row = [kind |-> old.kind, claimed |-> TRUE, messages |-> {next},
             quarantined |-> old.quarantined, acked |-> old.acked]
  BY <1>1, <1>2, <1>4 DEF MailRow
<1>7. ~old.quarantined /\ old.quarantined \in BOOLEAN
  BY <1>1, <1>2 DEF MailRow
<1>8. next \in DOMAIN messages' /\ next \notin DOMAIN messages
      /\ DOMAIN messages \subseteq DOMAIN messages'
  BY <1>3
<1>9. /\ row.kind = "reply" /\ row.claimed = TRUE /\ row.messages = {next}
      /\ row.quarantined = FALSE
      /\ row = [kind |-> row.kind, claimed |-> row.claimed, messages |-> row.messages,
                quarantined |-> row.quarantined, acked |-> row.acked]
  BY <1>2, <1>6, <1>7
<1> HIDE DEF next
<1>10. MailRow(row)'
  BY <1>8, <1>9 DEF MailRow
<1>11. \A n \in DOMAIN mail \ {m} : row.messages \cap mail[n].messages = {}
  <2>1. \A n \in DOMAIN mail : MailRow(mail[n])
    BY DEF NegotiationInvariant, MailOK
  <2>2. \A n \in DOMAIN mail : mail[n].messages \subseteq DOMAIN messages
    BY <2>1 DEF MailRow
  <2> QED BY <1>8, <1>9, <2>2
<1>12. MailOnward
  BY <1>2, <1>3, <1>5, <1>8, <1>9, <1>10, <1>11, MailWritten
<1>13. Onward(c)
  BY <1>1, <1>12, LeftAlone DEF Onward, order
<1> QED BY <1>1, <1>13, Went

(* A mail is claimed together with its row in quarantine.                  *)
LEMMA QuarantineKeeps ==
  ASSUME NegotiationInvariant, NEW c \in Callers, Quarantine(c)
  PROVE  NegotiationInvariant'
<1> DEFINE m == req[c].on
           old == mail[m]
           claimed == old.claimed \/ old.kind # "malformed"
<1>1. /\ req[c].pc = "quarantine" /\ req[c].op = "mail" /\ ~old.claimed
      /\ Goes(c, "answer", None)
      /\ UNCHANGED <<order, shipments, proposals, agreements, messages>>
      /\ mail' = [mail EXCEPT ![m].claimed = @ \/ old.kind # "malformed",
                              ![m].quarantined = TRUE]
  BY DEF Quarantine, At, Unclaimed, Goes, shipVars, negotiationVars
<1>2. m \in DOMAIN mail /\ MailRow(old) /\ Table(messages)
  BY <1>1 DEF NegotiationInvariant, RequestsOK, Holds, MailOK
<1>3. PICK row : row = [old EXCEPT !.claimed = @ \/ old.kind # "malformed", !.quarantined = TRUE]
  OBVIOUS
<1>4. mail' = [mail EXCEPT ![m] = row]
  BY <1>1, <1>3
<1>5. row = [kind |-> old.kind, claimed |-> claimed, messages |-> old.messages,
             quarantined |-> TRUE, acked |-> old.acked]
  BY <1>2, <1>3 DEF MailRow
<1>6. claimed \in BOOLEAN /\ claimed = (old.kind # "malformed")
  BY <1>1, <1>2 DEF MailRow
<1>7. old.messages = {}
  BY <1>1, <1>2 DEF MailRow
<1> HIDE DEF claimed
<1>8. /\ row.kind = old.kind /\ row.claimed = claimed /\ row.messages = {}
      /\ row.quarantined = TRUE
      /\ row = [kind |-> row.kind, claimed |-> row.claimed, messages |-> row.messages,
                quarantined |-> row.quarantined, acked |-> row.acked]
  BY <1>5, <1>7
<1> HIDE DEF old
<1>9. MailRow(row)'
  BY <1>6, <1>8 DEF MailRow
<1>10. MailOnward
  <2>1. /\ m \in DOMAIN mail /\ row.kind = mail[m].kind
        /\ Table(messages') /\ DOMAIN messages \subseteq DOMAIN messages'
        /\ \A n \in DOMAIN mail \ {m} : row.messages \cap mail[n].messages = {}
    BY <1>1, <1>2, <1>8 DEF old
  <2> QED BY <1>4, <1>9, <2>1, MailWritten
<1>11. Onward(c)
  BY <1>1, <1>10, LeftAlone DEF Onward, order
<1> QED BY <1>1, <1>11, Went

(* A mail is acknowledged, whatever became of it.                          *)
LEMMA AcknowledgeKeeps ==
  ASSUME NegotiationInvariant, NEW c \in Callers, Acknowledge(c)
  PROVE  NegotiationInvariant'
<1> DEFINE m == req[c].on
           old == mail[m]
<1>1. /\ req[c].pc = "answer" /\ req[c].op = "mail"
      /\ mail' = [mail EXCEPT ![m].acked = TRUE] /\ Finished(c)
      /\ UNCHANGED <<order, shipments, proposals, agreements, messages>>
  BY DEF Acknowledge, At, shipVars, negotiationVars
<1>2. /\ m \in DOMAIN mail /\ MailRow(old) /\ Table(messages)
      /\ \A n \in DOMAIN mail : n # m => old.messages \cap mail[n].messages = {}
  BY <1>1 DEF NegotiationInvariant, RequestsOK, Holds, MailOK
<1>3. PICK row : row = [old EXCEPT !.acked = TRUE]
  OBVIOUS
<1>4. mail' = [mail EXCEPT ![m] = row]
  BY <1>1, <1>3
<1>5. row = [kind |-> old.kind, claimed |-> old.claimed, messages |-> old.messages,
             quarantined |-> old.quarantined, acked |-> TRUE]
  BY <1>2, <1>3 DEF MailRow
<1>6. /\ row.kind = old.kind /\ row.claimed = old.claimed /\ row.messages = old.messages
      /\ row.quarantined = old.quarantined
      /\ row = [kind |-> row.kind, claimed |-> row.claimed, messages |-> row.messages,
                quarantined |-> row.quarantined, acked |-> row.acked]
  BY <1>5
<1>7. MailRow(row)'
  BY <1>1, <1>2, <1>6 DEF MailRow
<1>8. MailOnward
  BY <1>1, <1>2, <1>4, <1>6, <1>7, MailWritten
<1>9. Onward(c)
  BY <1>1, <1>8, LeftAlone DEF Onward, order
<1> QED BY <1>1, <1>9, Ended DEF Finished

------------------------------------------------------------------------------
(* What the invariant is about is left alone.                              *)
LEMMA NothingWritten ==
  ASSUME NegotiationInvariant, Beside, UNCHANGED <<order, req>>
  PROVE  NegotiationInvariant'
<1>1. OrderOK' /\ proposals' \in Seq(Proposal)
  BY DEF NegotiationInvariant, OrderOK, Beside, order
<1>2. AgreementsOK' /\ ShipmentsOK' /\ MailOK'
  BY LeftAlone DEF Beside, order, MailOnward
<1>3. RequestsOK'
  <2>1. req' = [c \in Callers |-> req'[c]]
    BY DEF NegotiationInvariant, RequestsOK
  <2>2. ASSUME NEW c \in Callers PROVE Holds(req[c])' /\ Held(c)' = Held(c)
    <3>1. Holds(req[c])
      BY DEF NegotiationInvariant, RequestsOK
    <3>2. Holds(req[c])'
      BY <3>1 DEF Holds, Beside, order, Pending
    <3> QED BY <3>2 DEF Held
  <2> QED BY <2>1, <2>2 DEF NegotiationInvariant, RequestsOK
<1> QED BY <1>1, <1>2, <1>3 DEF NegotiationInvariant

(* Every step of the parties, the mails and the clock keeps the invariant. *)
LEMMA InvariantStep ==
  ASSUME NegotiationInvariant, [MailNext]_mailVars
  PROVE  NegotiationInvariant'
<1>1. ASSUME NEW c \in Callers, PortalStep(c), UNCHANGED <<shipVars, negotiationVars, mail>>
      PROVE  NegotiationInvariant'
  BY <1>1, PortalKeeps DEF Beside, shipVars, negotiationVars
<1>2. ASSUME NEW c \in Callers, ShipStep(c), UNCHANGED <<negotiationVars, mail>>
      PROVE  NegotiationInvariant'
  BY <1>2, ShipKeeps DEF negotiationVars
<1>3. ASSUME NEW c \in Callers, NegotiationStep(c), UNCHANGED <<shipVars, mail>>
      PROVE  NegotiationInvariant'
  BY <1>3, NegotiationKeeps
<1>4. CASE LapseLinks /\ UNCHANGED <<shipVars, negotiationVars, mail>>
  BY <1>4, NothingWritten DEF LapseLinks, Beside, shipVars, negotiationVars
<1>5. CASE UNCHANGED mailVars
  BY <1>5, NothingWritten
     DEF mailVars, vars, portalVars, shipVars, negotiationVars, Beside, order
<1>6. ASSUME NEW c \in Callers, MailStep(c) PROVE NegotiationInvariant'
  BY <1>6, DeliverKeeps, ContinueKeeps, CommitMessageKeeps, QuarantineKeeps, AcknowledgeKeeps
     DEF MailStep
<1>7. CASE Quiescent /\ UNCHANGED mail
  BY <1>5, <1>7 DEF Quiescent, mailVars
<1> QED BY <1>1, <1>2, <1>3, <1>4, <1>5, <1>6, <1>7 DEF MailNext, Next

(* A table without rows.                                                   *)
LEMMA EmptyTable == Table(<<>>) /\ Len(<<>>) = 0 /\ DOMAIN <<>> = {}
<1>1. <<>> \in Seq({}) /\ Len(<<>>) = 0
  BY EmptySeq
<1>2. PICK rows : rows = <<>>
  OBVIOUS
<1>3. Table(rows) /\ Len(rows) = 0 /\ DOMAIN rows = 1..0
  BY <1>1, <1>2, TableSeq
<1> QED BY <1>2, <1>3

(* A behaviour starts with proposals nobody has resolved and nothing else. *)
LEMMA InvariantInit ==
  ASSUME MailInit
  PROVE  NegotiationInvariant
<1>1. /\ workload \in Workloads /\ proposals = workload.proposals
      /\ po = [status |-> "sent", received |-> FALSE, total |-> TotalOf(lines), round |-> 0,
               respond_by |-> None, version |-> 0]
      /\ req = [c \in Callers |-> Idle] /\ shipments = <<>> /\ agreements = <<>>
      /\ messages = <<>>
      /\ mail = [m \in DOMAIN workload.mails |-> NewMail(workload.mails[m])]
  BY DEF MailInit, Init, PortalInit, ShipInit
<1>2. OrderOK /\ po.round = 0
  <2>1. PICK total : total = TotalOf(lines)
    OBVIOUS
  <2>2. po = [status |-> "sent", received |-> FALSE, total |-> total, round |-> 0,
              respond_by |-> None, version |-> 0]
    BY <1>1, <2>1
  <2>3. /\ po.status = "sent" /\ po.received = FALSE /\ po.total = total /\ po.round = 0
        /\ po.respond_by = None /\ po.version = 0
    BY <2>2
  <2> QED BY <2>2, <2>3 DEF OrderOK
<1>3. /\ proposals \in Seq(Proposal)
      /\ \A p \in DOMAIN proposals : proposals[p].status # "accepted"
  BY <1>1, StartAssumption
<1>4. AgreementsOK
  <2>1. {p \in DOMAIN proposals : proposals[p].status = "accepted"} = {}
    BY <1>3
  <2>2. {agreements[a].proposal : a \in DOMAIN agreements} = {}
    BY <1>1, EmptyTable
  <2>3. IsInjective([a \in DOMAIN agreements |-> agreements[a].proposal])
    BY <1>1, EmptyTable DEF IsInjective
  <2> QED BY <1>1, <1>2, <2>1, <2>2, <2>3, EmptyTable DEF AgreementsOK, AgreedOnce
<1>5. ShipmentsOK
  BY <1>1, EmptyTable DEF ShipmentsOK
<1>6. MailOK
  <2>1. \A m \in DOMAIN mail : mail[m] = NewMail(workload.mails[m])
    BY <1>1
  <2>2. ASSUME NEW m \in DOMAIN mail PROVE MailRow(mail[m]) /\ mail[m].messages = {}
    <3>1. PICK kind : kind = workload.mails[m]
      OBVIOUS
    <3>2. mail[m] = [kind |-> kind, claimed |-> FALSE, messages |-> {}, quarantined |-> FALSE,
                     acked |-> FALSE]
      BY <2>1, <3>1 DEF NewMail
    <3>3. /\ mail[m].kind = kind /\ mail[m].claimed = FALSE /\ mail[m].messages = {}
          /\ mail[m].quarantined = FALSE /\ mail[m].acked = FALSE
      BY <3>2
    <3> QED BY <3>2, <3>3 DEF MailRow
  <2>3. mail = [m \in DOMAIN mail |-> mail[m]]
    BY <1>1
  <2> QED BY <1>1, <2>2, <2>3, EmptyTable DEF MailOK
<1>7. RequestsOK
  BY <1>1 DEF RequestsOK, Holds, Held, Idle
<1> QED BY <1>2, <1>3, <1>4, <1>5, <1>6, <1>7 DEF NegotiationInvariant

------------------------------------------------------------------------------
(* The rows held, the terms shown and the mails claimed stay what they are *)
(* said to be, whatever the callers ask for and in whichever order they    *)
(* are served.                                                             *)
THEOREM InvariantHolds == MailSpec => []NegotiationInvariant
<1>1. MailInit => NegotiationInvariant
  BY InvariantInit
<1>2. NegotiationInvariant /\ [MailNext]_mailVars => NegotiationInvariant'
  BY InvariantStep
<1> QED BY <1>1, <1>2, PTL DEF MailSpec

(* The agreements are numbered by their rounds, each of a proposal of its  *)
(* own that was accepted, and none is missing (acceptProposal).            *)
THEOREM EachIsAgreedOnce == MailSpec => []AgreedOnce
<1>1. NegotiationInvariant => AgreedOnce
  BY DEF NegotiationInvariant, AgreementsOK
<1> QED BY <1>1, InvariantHolds, PTL

(* The history of a shipment is one chain of allowed transitions from its  *)
(* creation to where it is (updateShipmentStatus).                         *)
THEOREM HistoriesAreChains == MailSpec => []HistoryChained
<1>1. NegotiationInvariant => HistoryChained
  BY DEF NegotiationInvariant, ShipmentsOK, ShipmentRow, HistoryChained
<1> QED BY <1>1, InvariantHolds, PTL

(* However often a mail is delivered, it is one message or one row in      *)
(* quarantine and never both, and there is no claim without either         *)
(* (resendInboundWebhook.service.ts).                                      *)
THEOREM MailsCountOnce == MailSpec => []MailOnce
<1>1. ASSUME NegotiationInvariant PROVE MailOnce
  <2>1. \A m \in DOMAIN mail : MailRow(mail[m])
    BY <1>1 DEF NegotiationInvariant, MailOK
  <2>2. \A m, n \in DOMAIN mail : m # n => mail[m].messages \cap mail[n].messages = {}
    BY <1>1 DEF NegotiationInvariant, MailOK
  <2>3. ASSUME NEW m \in DOMAIN mail
        PROVE  Cardinality(mail[m].messages) + (IF mail[m].quarantined THEN 1 ELSE 0) <= 1
    <3>1. MailRow(mail[m])
      BY <2>1
    <3>2. CASE mail[m].messages = {}
      <4>1. Cardinality(mail[m].messages) = 0
        BY <3>2, FS_EmptySet
      <4> QED BY <4>1
    <3>3. CASE mail[m].messages # {}
      <4>1. PICK i : mail[m].messages = {i}
        BY <3>1, <3>3 DEF MailRow
      <4>2. Cardinality(mail[m].messages) = 1
        BY <4>1, FS_Singleton
      <4>3. ~mail[m].quarantined
        BY <3>1, <3>3 DEF MailRow
      <4> QED BY <4>2, <4>3
    <3> QED BY <3>2, <3>3
  <2>4. \A m \in DOMAIN mail : mail[m].kind # "malformed" =>
          mail[m].claimed = (mail[m].messages # {} \/ mail[m].quarantined)
    BY <2>1 DEF MailRow
  <2> QED BY <2>2, <2>3, <2>4 DEF MailOnce
<1> QED BY <1>1, InvariantHolds, PTL

(* The steps that write a proposal.                                        *)
LEMMA ProposalsWritten ==
  ASSUME [MailNext]_mailVars
  PROVE  \/ UNCHANGED proposals
         \/ \E c \in Callers : \/ SaveDraft(c) \/ Attach(c) \/ CommitSubmit(c)
                               \/ CommitAccept(c) \/ Reject(c)
<1>1. ASSUME NEW c \in Callers, CreateMessage(c) \/ MarkMessageRead(c) PROVE UNCHANGED proposals
  BY <1>1 DEF CreateMessage, MarkMessageRead
<1>2. ASSUME NEW c \in Callers, MailStep(c) PROVE UNCHANGED proposals
  BY <1>2 DEF MailStep, Deliver, KnownAlready, Decide, CommitMessage, Quarantine, Duplicate,
              FailQuietly, Acknowledge, Continue, negotiationVars
<1>3. CASE UNCHANGED mailVars
  BY <1>3 DEF mailVars, vars, negotiationVars
<1> QED BY <1>1, <1>2, <1>3 DEF MailNext, Next, NegotiationStep, Quiescent, mailVars, negotiationVars

(* What was submitted is what is accepted: no request, however stale,      *)
(* changes what a proposal offers once it has left the draft, and what     *)
(* became of a resolved proposal stays (saveDraft, submitProposal,         *)
(* acceptProposal, rejectProposal).                                        *)
THEOREM WhatIsSubmittedStays == MailSpec => SubmittedFixed
<1>1. NegotiationInvariant /\ [MailNext]_mailVars =>
        [\A p \in Submitted :
           /\ proposals'[p].changes = proposals[p].changes
           /\ p \notin Pending => proposals'[p].status = proposals[p].status]_proposals
  <2> SUFFICES ASSUME NegotiationInvariant, [MailNext]_mailVars, NEW p \in Submitted
               PROVE  /\ proposals'[p].changes = proposals[p].changes
                      /\ p \notin Pending => proposals'[p].status = proposals[p].status
    OBVIOUS
  <2> DEFINE old == proposals[p]
  <2>1. p \in DOMAIN proposals /\ old.status # "draft" /\ old \in Proposal
    BY ProposalRows DEF Submitted
  <2>2. p \notin Pending => old.status # "pending"
    BY <2>1 DEF Pending
  <2>3. ASSUME NEW c \in Callers, SaveDraft(c) PROVE proposals'[p] = old
    <3>1. CASE req[c].on = None
      <4>1. PICK row : proposals' = Append(proposals, row)
        BY <2>3, <3>1 DEF SaveDraft
      <4>2. Table(proposals)
        BY TableSeq DEF NegotiationInvariant
      <4> QED BY <2>1, <4>1, <4>2, TableAppend
    <3>2. CASE req[c].on # None
      <4>1. /\ proposals[req[c].on].status = "draft"
            /\ proposals' = [proposals EXCEPT ![req[c].on].changes = req[c].seen,
                                              ![req[c].on].files = 0,
                                              ![req[c].on].version = @ + 1]
        BY <2>3, <3>2 DEF SaveDraft, StillDraft
      <4> QED BY <2>1, <4>1
    <3> QED BY <3>1, <3>2
  <2>4. ASSUME NEW c \in Callers, Attach(c)
        PROVE  proposals'[p].changes = old.changes /\ proposals'[p].status = old.status
    <3>1. proposals' = [proposals EXCEPT ![req[c].on].files = @ + 1]
      BY <2>4 DEF Attach
    <3>2. proposals'[p] = old \/ proposals'[p] = [old EXCEPT !.files = @ + 1]
      BY <2>1, <3>1
    <3> QED BY <2>1, <3>2 DEF Proposal
  <2>5. ASSUME NEW c \in Callers, CommitSubmit(c)
        PROVE  /\ proposals'[p].changes = old.changes
               /\ p \notin Pending => proposals'[p].status = old.status
    <3>1. /\ req[c].pc = "numbered"
          /\ proposals'[p] = IF p = req[c].on
               THEN [old EXCEPT !.status = "pending", !.revision = req[c].tx.revision]
               ELSE IF p \in req[c].tx.others THEN [old EXCEPT !.status = "superseded"]
               ELSE old
      BY <2>1, <2>5 DEF CommitSubmit, At
    <3>2. p # req[c].on /\ (p \in req[c].tx.others => p \in Pending)
      BY <2>1, <3>1 DEF NegotiationInvariant, RequestsOK, Holds
    <3>3. CASE p \in req[c].tx.others
      <4>1. proposals'[p] = [old EXCEPT !.status = "superseded"]
        BY <3>1, <3>2, <3>3
      <4> QED BY <2>1, <3>2, <3>3, <4>1 DEF Proposal
    <3>4. CASE p \notin req[c].tx.others
      BY <3>1, <3>2, <3>4
    <3> QED BY <3>3, <3>4
  <2>6. ASSUME NEW c \in Callers, CommitAccept(c)
        PROVE  /\ proposals'[p].changes = old.changes
               /\ p \notin Pending => proposals'[p].status = old.status
    <3>1. req[c].pc = "applied" /\ proposals' = [proposals EXCEPT ![req[c].on].status = "accepted"]
      BY <2>6 DEF CommitAccept, At
    <3>2. req[c].on \in Pending
      BY <3>1 DEF NegotiationInvariant, RequestsOK, Holds
    <3>3. p # req[c].on => proposals'[p] = old
      BY <2>1, <3>1
    <3>4. p = req[c].on => proposals'[p] = [old EXCEPT !.status = "accepted"]
      BY <2>1, <3>1
    <3>5. proposals'[p].changes = old.changes
      BY <2>1, <3>3, <3>4 DEF Proposal
    <3> QED BY <3>2, <3>3, <3>5
  <2>7. ASSUME NEW c \in Callers, Reject(c)
        PROVE  /\ proposals'[p].changes = old.changes
               /\ p \notin Pending => proposals'[p].status = old.status
    <3>1. /\ proposals[req[c].on].status = "pending"
          /\ proposals' = [proposals EXCEPT ![req[c].on].status = "rejected"]
      BY <2>7 DEF Reject, StillPending
    <3>2. p # req[c].on => proposals'[p] = old
      BY <2>1, <3>1
    <3>3. p = req[c].on => proposals'[p] = [old EXCEPT !.status = "rejected"] /\ p \in Pending
      BY <2>1, <3>1 DEF Pending
    <3>4. proposals'[p].changes = old.changes
      BY <2>1, <3>2, <3>3 DEF Proposal
    <3> QED BY <3>2, <3>3, <3>4
  <2>8. CASE UNCHANGED proposals
    BY <2>8
  <2> QED BY <2>3, <2>4, <2>5, <2>6, <2>7, <2>8, ProposalsWritten
<1> QED BY <1>1, InvariantHolds, PTL DEF MailSpec, SubmittedFixed

(* The owner confirms the terms it was shown: a proposal accepted in       *)
(* between makes the confirmation stale (confirmPurchaseOrder).            *)
THEOREM TermsAreThoseShown == MailSpec => ConfirmedAsShown
<1>1. NegotiationInvariant /\ [MailNext]_mailVars =>
        [po.status = "sent" /\ po'.status = "confirmed" =>
           \E c \in Callers : req[c].op = "confirm" /\ req[c].seen = lines]_po
  <2> SUFFICES ASSUME NegotiationInvariant, [MailNext]_mailVars,
                      po.status = "sent", po'.status = "confirmed"
               PROVE  \E c \in Callers : req[c].op = "confirm" /\ req[c].seen = lines
    OBVIOUS
  <2>1. po = [status |-> po.status, received |-> po.received, total |-> po.total,
              round |-> po.round, respond_by |-> po.respond_by, version |-> po.version]
    BY DEF NegotiationInvariant, OrderOK
  <2>2. po' # po
    OBVIOUS
  <2>3. ASSUME NEW c \in Callers, PortalStep(c)
        PROVE  req[c].op = "confirm" /\ req[c].seen = lines
    <3>1. CASE Confirm(c)
      BY <3>1 DEF Confirm, At, Guarded, NegotiationInvariant, RequestsOK, Holds
    <3>2. ~Cancel(c)
      BY <2>1 DEF Cancel
    <3>3. ~SetDeadline(c)
      <4>1. ASSUME NEW d, po' = [po EXCEPT !.respond_by = d, !.version = @ + 1] PROVE FALSE
        BY <2>1, <4>1
      <4> QED BY <4>1 DEF SetDeadline
    <3>4. ~Receive(c)
      BY <2>1 DEF Receive
    <3> QED BY <2>2, <2>3, <3>1, <3>2, <3>3, <3>4
            DEF PortalStep, AskRegenerate, FindLinks, RevokeOld, CreateLink, AskRevoke, RevokeLink,
                AskView, ReadView, CountView, AskOrder, Abandon, Ask, Goes, order
  <2>4. ASSUME NEW c \in Callers, NegotiationStep(c) PROVE po' = po \/ CommitAccept(c)
    BY <2>4 DEF NegotiationStep, AskSave, AskAttach, AskSubmit, AskAccept, AskReject, AskMessage,
                AskRead, MarkPending, NumberRevision, FindOthers, SupersedeOthers, ResolveProposal,
                ApplyChanges, SaveDraft, Attach, CommitSubmit, Reject, CreateMessage, MarkMessageRead, Ask, Goes, order
  <2>5. ASSUME NEW c \in Callers, CommitAccept(c) PROVE FALSE
    <3>1. PICK total : po' = [po EXCEPT !.total = total, !.round = @ + 1, !.version = @ + 1]
      BY <2>5 DEF CommitAccept, Agreed
    <3> QED BY <2>1, <3>1
  <2>6. ASSUME NEW c \in Callers, ShipStep(c) PROVE po' = po
    BY <2>6 DEF ShipStep, AskShipment, AskStatus, AskDetails, AskArrival, AskUpload, AskMilestone,
                CreateShipment, UpdateStatus, UpdateShipment, UpdateEta, UploadFile,
                RecordMilestone, Wrote, Ask, order
  <2>7. ASSUME NEW c \in Callers, MailStep(c) PROVE po' = po
    BY <2>7 DEF MailStep, Deliver, KnownAlready, Decide, CommitMessage, Quarantine, Duplicate,
                FailQuietly, Acknowledge, Continue, Ask, Goes, order
  <2>8. CASE UNCHANGED mailVars \/ LapseLinks
    BY <2>2, <2>8 DEF mailVars, vars, portalVars, LapseLinks, order
  <2> QED BY <2>2, <2>3, <2>4, <2>5, <2>6, <2>7, <2>8 DEF MailNext, Next, Quiescent, mailVars
<1> QED BY <1>1, InvariantHolds, PTL DEF MailSpec, ConfirmedAsShown

(* A shipment that was delivered or cancelled takes only documents, also   *)
(* from a request that read it before (updateShipmentStatus,               *)
(* updateShipment, updateShipmentEta).                                     *)
THEOREM TerminalStays == MailSpec => TerminalFrozen
<1>1. NegotiationInvariant /\ [MailNext]_mailVars =>
        [\A s \in DOMAIN shipments :
           shipments[s].status \in Terminal
             => [shipments'[s] EXCEPT !.files = shipments[s].files] = shipments[s]]_shipments
  <2> SUFFICES ASSUME NegotiationInvariant, [MailNext]_mailVars,
                      NEW s \in DOMAIN shipments, shipments[s].status \in Terminal
               PROVE  [shipments'[s] EXCEPT !.files = shipments[s].files] = shipments[s]
    OBVIOUS
  <2> DEFINE old == shipments[s]
  <2>1. /\ Table(shipments)
        /\ old = [line |-> old.line, quantity |-> old.quantity, status |-> old.status,
                  version |-> old.version, history |-> old.history, carrier |-> old.carrier,
                  arrival |-> old.arrival, windows |-> old.windows, files |-> old.files]
    BY DEF NegotiationInvariant, ShipmentsOK, ShipmentRow
  <2>2. CASE shipments'[s] = old
    BY <2>1, <2>2
  <2>3. ASSUME NEW c \in Callers, CreateShipment(c) PROVE shipments'[s] = old
    <3>1. PICK row : shipments' = Append(shipments, row)
      BY <2>3 DEF CreateShipment
    <3> QED BY <2>1, <3>1, TableAppend
  <2>4. ASSUME NEW c \in Callers, UpdateStatus(c) \/ UpdateShipment(c) \/ UpdateEta(c)
        PROVE  shipments'[s] = old
    <3>1. PICK row : shipments' = [shipments EXCEPT ![req[c].on] = row]
      BY <2>4 DEF UpdateStatus, UpdateShipment, UpdateEta, Wrote
    <3>2. s # req[c].on
      <4>1. CASE UpdateStatus(c)
        <5>1. /\ req[c].seen \in Statuses /\ req[c].tx \in Transitions[req[c].seen]
              /\ shipments[req[c].on].status = req[c].seen
          BY <4>1 DEF UpdateStatus, At, StillAs, NegotiationInvariant, RequestsOK, Holds
        <5>2. req[c].seen \notin Terminal
          BY <5>1 DEF Terminal, Transitions
        <5> QED BY <5>1, <5>2
      <4>2. CASE UpdateShipment(c) \/ UpdateEta(c)
        BY <4>2 DEF UpdateShipment, UpdateEta, StillAs
      <4> QED BY <2>4, <4>1, <4>2
    <3> QED BY <3>1, <3>2
  <2>5. ASSUME NEW c \in Callers, UploadFile(c)
        PROVE  [shipments'[s] EXCEPT !.files = old.files] = old
    <3>1. shipments' = [shipments EXCEPT ![req[c].on] = [shipments[req[c].on] EXCEPT !.files = @ + 1]]
      BY <2>5 DEF UploadFile, Wrote
    <3>2. CASE s = req[c].on
      <4>1. PICK row : row = shipments'[s]
        OBVIOUS
      <4>2. row = [old EXCEPT !.files = @ + 1]
        BY <3>1, <3>2, <4>1
      <4>3. row = [line |-> old.line, quantity |-> old.quantity, status |-> old.status,
                   version |-> old.version, history |-> old.history, carrier |-> old.carrier,
                   arrival |-> old.arrival, windows |-> old.windows, files |-> old.files + 1]
        BY <2>1, <4>2
      <4>4. PICK again : again = [row EXCEPT !.files = old.files]
        OBVIOUS
      <4>5. again = [line |-> old.line, quantity |-> old.quantity, status |-> old.status,
                     version |-> old.version, history |-> old.history, carrier |-> old.carrier,
                     arrival |-> old.arrival, windows |-> old.windows, files |-> old.files]
        BY <4>3, <4>4
      <4>6. again = old
        BY <2>1, <4>5
      <4> QED BY <4>1, <4>4, <4>6
    <3>3. CASE s # req[c].on
      BY <2>2, <3>1, <3>3
    <3> QED BY <3>2, <3>3
  <2>6. \/ UNCHANGED shipments
        \/ \E c \in Callers : \/ CreateShipment(c) \/ UpdateStatus(c) \/ UpdateShipment(c)
                              \/ UpdateEta(c) \/ UploadFile(c)
    <3>1. ASSUME NEW c \in Callers, MailStep(c) PROVE UNCHANGED shipments
      BY <3>1 DEF MailStep, Deliver, KnownAlready, Decide, CommitMessage, Quarantine, Duplicate,
                  FailQuietly, Acknowledge, Continue, shipVars
    <3>2. ASSUME NEW c \in Callers, RecordMilestone(c) PROVE UNCHANGED shipments
      BY <3>2 DEF RecordMilestone
    <3>3. CASE UNCHANGED mailVars
      BY <3>3 DEF mailVars, vars, shipVars
    <3> QED BY <3>1, <3>2, <3>3 DEF MailNext, Next, ShipStep, Quiescent, mailVars, shipVars
  <2> QED BY <2>2, <2>3, <2>4, <2>5, <2>6
<1> QED BY <1>1, InvariantHolds, PTL DEF MailSpec, TerminalFrozen
================================================================================
