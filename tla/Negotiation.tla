------------------------------ MODULE Negotiation -----------------------------
(***************************************************************************)
(* The negotiation of a purchase order between its owner and its supplier: *)
(* proposals drafted, submitted, accepted, rejected and superseded         *)
(* (poNegotiationProposal.service.ts) with their attachments, the          *)
(* agreements they end in, messages (poNegotiationMessage.service.ts) and  *)
(* the status derived from all of it (lib/negotiationStatus.ts), beside    *)
(* the shipments and the secure links of the order.                        *)
(***************************************************************************)
EXTENDS Shipments

CONSTANTS
  Offers  \* change sets a party may propose

Fields == {"quantity", "unit_price", "product_substitution", "product_added",
           "product_removed", "delivery_date", "shipping_method"}

ASSUME OffersAssumption ==
  \A o \in Offers : \A i \in DOMAIN o : o[i].field \in Fields

Proposal ==
  [party : Party, status : {"draft", "pending", "accepted", "rejected", "superseded"},
   changes : Offers, revision : Nat \cup {None}, version : Nat, files : Nat]

(* A behaviour starts before anything was resolved.                        *)
ASSUME StartAssumption ==
  \A w \in Workloads :
    /\ w.proposals \in Seq(Proposal)
    /\ \A p \in DOMAIN w.proposals : w.proposals[p].status \in {"draft", "pending"}

VARIABLES
  proposals,   \* the proposals in the order they were created
  agreements,  \* the agreement snapshots, in order
  messages     \* the messages, in order

negotiationVars == <<proposals, agreements, messages>>
vars == <<portalVars, shipVars, negotiationVars>>

NewDraft(party, offer) ==
  [party |-> party, status |-> "draft", changes |-> offer, revision |-> None,
   version |-> 0, files |-> 0]

Init ==
  /\ PortalInit
  /\ ShipInit
  /\ proposals = workload.proposals
  /\ agreements = <<>>
  /\ messages = <<>>

------------------------------------------------------------------------------
Submitted == {p \in DOMAIN proposals : proposals[p].status # "draft"}

Pending == {p \in DOMAIN proposals : proposals[p].status = "pending"}

(* The proposals whose rows the transaction of c holds.                    *)
Held(c) ==
  IF req[c].pc \in {"marked", "counted", "superseding", "resolved", "applied"} THEN {req[c].on}
  ELSE IF req[c].pc = "numbered" THEN {req[c].on} \cup req[c].tx.others
  ELSE {}

ProposalFree(c, p) == \A d \in Callers \ {c} : p \notin Held(d)

(* saveDraft up to its transaction: the draft of the party, if it has one. *)
AskSave(c) ==
  \E party \in Party, o \in Offers :
    LET drafts == {p \in DOMAIN proposals :
                     proposals[p].party = party /\ proposals[p].status = "draft"} IN
    /\ NegotiationOpen
    /\ \E on \in IF drafts = {} THEN {None} ELSE drafts :
         Ask(c, [Request("save", party, on) EXCEPT
                   !.seen = o, !.shown = IF on = None THEN None ELSE proposals[on].version])

(* Bug: a draft is known by its version, which submitting leaves alone.    *)
StillDraftByVersion(c) == proposals[req[c].on].version = req[c].shown

(* The guard of saveDraft and of submitProposal.                           *)
StillDraft(c) ==
  /\ proposals[req[c].on].version = req[c].shown
  /\ proposals[req[c].on].status = "draft"

SaveDraft(c) ==
  /\ At(c, "read", "save")
  /\ IF req[c].on = None
     THEN proposals' = Append(proposals, NewDraft(req[c].party, req[c].seen))
     ELSE /\ StillDraft(c) /\ ProposalFree(c, req[c].on)
          /\ proposals' = [proposals EXCEPT ![req[c].on].changes = req[c].seen,
                                            ![req[c].on].files = 0,
                                            ![req[c].on].version = @ + 1]
  /\ Finished(c)
  /\ UNCHANGED <<order, links, agreements, messages>>

(* uploadAttachment of a proposal: that it is a draft is looked at before  *)
(* the transaction.                                                        *)
AskAttach(c) ==
  \E p \in DOMAIN proposals :
    /\ NegotiationOpen
    /\ proposals[p].status = "draft"
    /\ Ask(c, Request("attach", proposals[p].party, p))

Attach(c) ==
  /\ At(c, "read", "attach")
  /\ proposals' = [proposals EXCEPT ![req[c].on].files = @ + 1]
  /\ Finished(c)
  /\ UNCHANGED <<order, links, agreements, messages>>

AskSubmit(c) ==
  \E p \in DOMAIN proposals :
    /\ NegotiationOpen
    /\ Ask(c, [Request("submit", proposals[p].party, p) EXCEPT !.shown = proposals[p].version])

(* submitProposal: the draft is made pending ...                           *)
MarkPending(c) ==
  /\ At(c, "read", "submit")
  /\ StillDraft(c) /\ ProposalFree(c, req[c].on)
  /\ Goes(c, "marked", None)

(* ... numbered by what was submitted and committed so far ...             *)
NumberRevision(c) ==
  /\ At(c, "marked", "submit")
  /\ Goes(c, "counted", [revision |-> Cardinality(Submitted) + 1, others |-> {}])

(* ... what the party has pending is found ...                             *)
FindOthers(c) ==
  LET others == {p \in Pending \ {req[c].on} : proposals[p].party = req[c].party} IN
  /\ At(c, "counted", "submit")
  /\ Goes(c, "superseding", [req[c].tx EXCEPT !.others = others])

(* ... and, once nobody else holds it, superseded if it still is pending   *)
SupersedeOthers(c) ==
  /\ At(c, "superseding", "submit")
  /\ \A p \in req[c].tx.others : ProposalFree(c, p)
  /\ Goes(c, "numbered", [req[c].tx EXCEPT !.others = @ \cap Pending])

(* ... and committed.                                                      *)
CommitSubmit(c) ==
  /\ At(c, "numbered", "submit")
  /\ proposals' = [p \in DOMAIN proposals |->
       IF p = req[c].on
       THEN [proposals[p] EXCEPT !.status = "pending", !.revision = req[c].tx.revision]
       ELSE IF p \in req[c].tx.others THEN [proposals[p] EXCEPT !.status = "superseded"]
       ELSE proposals[p]]
  /\ Finished(c)
  /\ UNCHANGED <<order, links, agreements, messages>>

------------------------------------------------------------------------------
(* The change of one row: the columns written, from the row as it was read.*)
Changed(row, read, ch) ==
  CASE ch.field = "quantity" ->
         [row EXCEPT !.quantity = ch.value, !.total = ch.value * read.cost]
    [] ch.field = "unit_price" ->
         [row EXCEPT !.cost = ch.value, !.total = read.quantity * ch.value]
    [] ch.field = "product_substitution" -> [row EXCEPT !.product = ch.value]
    [] ch.field = "product_removed" -> None

IsOf(ls, l, product) == l \in DOMAIN ls /\ ls[l] # None /\ ls[l].product = product

(* Every product is on one line, and a shipped line is not removed.        *)
Applicable(ls, ch) ==
  /\ ch.line # None => ls[ch.line] # None
  /\ ch.field \in {"product_substitution", "product_added"} =>
       \A l \in DOMAIN ls : l # ch.line => ~IsOf(ls, l, ch.value)
  /\ ch.field = "product_removed" => \A s \in DOMAIN shipments : shipments[s].line # ch.line

(* applyChange, on the rows as they are and as they were read; None when   *)
(* it throws.                                                              *)
ApplyChange(t, ch) ==
  IF t = None THEN None
  ELSE IF ~Applicable(t.now, ch) THEN None
  ELSE IF ch.field \in {"delivery_date", "shipping_method"} THEN t
  ELSE LET now == IF ch.field = "product_added"
                  THEN Append(t.now, [product |-> ch.value, quantity |-> 1, cost |-> 1, total |-> 1])
                  ELSE [t.now EXCEPT ![ch.line] = Changed(@, t.read[ch.line], ch)] IN
       [now |-> now, read |-> now]

(* Bug: only the first change of a proposal is applied.                    *)
ApplyFirst(ls, read, changes) == ApplyChange([now |-> ls, read |-> read], changes[1])

Apply(ls, read, changes) ==
  FoldLeft(ApplyChange, [now |-> ls, read |-> read], changes)

Touched(changes) == {changes[i].line : i \in DOMAIN changes} \ {None}

(* No transaction in flight has written one of the rows.                   *)
LinesFree(S) ==
  \A c \in Callers : req[c].pc = "applied" => Touched(proposals[req[c].on].changes) \cap S = {}

AskAccept(c) ==
  \E p \in Submitted : NegotiationOpen /\ Ask(c, Request("accept", "owner", p))

(* Bug: whether the proposal is still pending is not looked at.            *)
StillPendingUnchecked(c) == ProposalFree(c, req[c].on)

(* The guard of acceptProposal and of rejectProposal.                      *)
StillPending(c) == proposals[req[c].on].status = "pending" /\ ProposalFree(c, req[c].on)

(* acceptProposal: the proposal is resolved, the rows of its changes read, *)
ResolveProposal(c) ==
  /\ At(c, "read", "accept")
  /\ StillPending(c)
  /\ Goes(c, "resolved", lines)

(* the changes applied and the total taken from the rows it then sees,     *)
ApplyChanges(c) ==
  LET changes == proposals[req[c].on].changes
      t == Apply(lines, req[c].tx, changes) IN
  /\ At(c, "resolved", "accept")
  /\ LinesFree(Touched(changes))
  /\ t # None
  /\ Goes(c, "applied", [read |-> req[c].tx, items |-> t.now, total |-> TotalOf(t.now)])

(* Bug: the version of the order is left alone.                            *)
AgreedSameVersion(total) == [po EXCEPT !.total = total, !.round = @ + 1]

(* the order updated, whatever has become of it,                           *)
Agreed(total) == [po EXCEPT !.total = total, !.round = @ + 1, !.version = @ + 1]

(* and all of it committed, with the agreement.                            *)
CommitAccept(c) ==
  LET p == req[c].on
      t == Apply(lines, req[c].tx.read, proposals[p].changes) IN
  /\ At(c, "applied", "accept")
  /\ t # None
  /\ lines' = t.now
  /\ po' = Agreed(req[c].tx.total)
  /\ proposals' = [proposals EXCEPT ![p].status = "accepted"]
  /\ agreements' = Append(agreements, [proposal |-> p, round |-> po.round + 1,
                                       items |-> req[c].tx.items, total |-> req[c].tx.total])
  /\ Finished(c)
  /\ UNCHANGED <<links, messages>>

(* Either party, of either party's proposal, on an order in any state.     *)
AskReject(c) == \E party \in Party, p \in Submitted : Ask(c, Request("reject", party, p))

Reject(c) ==
  /\ At(c, "read", "reject")
  /\ StillPending(c)
  /\ proposals' = [proposals EXCEPT ![req[c].on].status = "rejected"]
  /\ Finished(c)
  /\ UNCHANGED <<order, links, agreements, messages>>

------------------------------------------------------------------------------
AskMessage(c) == NegotiationOpen /\ \E party \in Party : Ask(c, Request("message", party, None))

CreateMessage(c) ==
  /\ At(c, "read", "message")
  /\ messages' = Append(messages, [sender |-> req[c].party, read_by |-> None, told |-> 0])
  /\ Finished(c)
  /\ UNCHANGED <<order, links, proposals, agreements>>

AskRead(c) ==
  \E party \in Party, m \in DOMAIN messages :
    Ask(c, [Request("mark_read", party, m) EXCEPT !.seen = messages[m].read_by])

(* Bug: whether the message was read is not looked at again.               *)
UnreadUnchecked(c) == TRUE

Unread(c) == messages[req[c].on].read_by = None

(* markMessageRead: the first reading by the other party is published.     *)
MarkMessageRead(c) ==
  LET m == messages[req[c].on]
      reads == m.sender # req[c].party /\ req[c].seen = None /\ Unread(c) IN
  /\ At(c, "read", "mark_read")
  /\ messages' = IF reads
                 THEN [messages EXCEPT ![req[c].on].read_by = req[c].party,
                                       ![req[c].on].told = @ + 1]
                 ELSE messages
  /\ Finished(c)
  /\ UNCHANGED <<order, links, proposals, agreements>>

------------------------------------------------------------------------------
(* computeNegotiationStatus; the proposal submitted last is the one of the *)
(* highest revision.                                                       *)
NegotiationStatus ==
  LET revision(p) == proposals[p].revision
      latest == {p \in Submitted : \A q \in Submitted : revision(q) <= revision(p)} IN
  CASE po.status = "cancelled" -> "REJECTED"
    [] po.status \in {"confirmed", "received"} -> "AGREED"
    [] po.status = "sent" /\ (po.respond_by = "passed" \/ links[Len(links)].status # "active") ->
         "EXPIRED"
    [] OTHER -> IF \E p \in latest : proposals[p].status = "pending"
                THEN IF \E p \in latest : proposals[p].party = "owner"
                     THEN "WAITING_SUPPLIER" ELSE "WAITING_OWNER"
                ELSE "OPEN"

NegotiationStep(c) ==
  \/ (AskSave(c) \/ AskAttach(c) \/ AskSubmit(c) \/ AskAccept(c) \/ AskReject(c)
        \/ AskMessage(c) \/ AskRead(c)
        \/ MarkPending(c) \/ NumberRevision(c) \/ FindOthers(c) \/ SupersedeOthers(c)
        \/ ResolveProposal(c) \/ ApplyChanges(c)) /\ UNCHANGED negotiationVars
  \/ SaveDraft(c) \/ Attach(c) \/ CommitSubmit(c) \/ CommitAccept(c) \/ Reject(c)
  \/ CreateMessage(c) \/ MarkMessageRead(c)

(* Nothing is in flight.                                                   *)
Quiescent ==
  /\ \A c \in Callers : req[c] = Idle
  /\ UNCHANGED vars

Next ==
  \/ \E c \in Callers :
       \/ PortalStep(c) /\ UNCHANGED <<shipVars, negotiationVars>>
       \/ ShipStep(c) /\ UNCHANGED negotiationVars
       \/ NegotiationStep(c) /\ UNCHANGED shipVars
  \/ LapseLinks /\ UNCHANGED <<shipVars, negotiationVars>>
  \/ Quiescent

Spec == Init /\ [][Next]_vars

------------------------------------------------------------------------------
(* The order, its links, proposals and agreements have their shape.        *)
TypeOK ==
  /\ PortalTypeOK
  /\ proposals \in Seq(Proposal)
  /\ \A p \in DOMAIN proposals : (proposals[p].revision = None) = (p \notin Submitted)
  /\ \A a \in DOMAIN agreements : agreements[a].proposal \in DOMAIN proposals

(* What was submitted is what is accepted: no request, however stale,      *)
(* changes what a proposal offers once it has left the draft, and a        *)
(* resolved proposal stays as it was resolved (saveDraft, submitProposal,  *)
(* rejectProposal).                                                        *)
SubmittedFixed ==
  [][\A p \in Submitted :
       /\ proposals'[p].changes = proposals[p].changes
       /\ p \notin Pending => proposals'[p].status = proposals[p].status]_proposals

(* The agreements are numbered by their rounds, each of a proposal of its  *)
(* own that was accepted, and none of an accepted one is missing           *)
(* (acceptProposal).                                                       *)
AgreedOnce ==
  /\ po.round = Len(agreements)
  /\ \A a \in DOMAIN agreements : agreements[a].round = a
  /\ IsInjective([a \in DOMAIN agreements |-> agreements[a].proposal])
  /\ {p \in DOMAIN proposals : proposals[p].status = "accepted"}
       = {agreements[a].proposal : a \in DOMAIN agreements}

(* A proposal is agreed on whole: each line of the agreement has what the  *)
(* proposal asked for last (applyChange, of every change).                 *)
AgreedWhole ==
  \A a \in DOMAIN agreements :
    LET changes == proposals[agreements[a].proposal].changes IN
    \A i \in DOMAIN changes :
      (\A j \in i + 1..Len(changes) : changes[j].line # changes[i].line) =>
        LET ch == changes[i] IN
        /\ ch.field = "quantity" => agreements[a].items[ch.line].quantity = ch.value
        /\ ch.field = "unit_price" => agreements[a].items[ch.line].cost = ch.value
        /\ ch.field = "product_removed" => agreements[a].items[ch.line] = None
        /\ ch.field = "product_added" =>
             \E l \in DOMAIN agreements[a].items : IsOf(agreements[a].items, l, ch.value)

(* The owner confirms the terms it was shown: a proposal accepted in       *)
(* between makes the confirmation stale (confirmPurchaseOrder).            *)
ConfirmedAsShown ==
  [][po.status = "sent" /\ po'.status = "confirmed" =>
       \E c \in Callers : req[c].op = "confirm" /\ req[c].seen = lines]_po

(* A negotiation that ended in agreement or in rejection stays so: an      *)
(* order is never both confirmed and cancelled, by whichever stale request *)
(* (confirmPurchaseOrder, cancelPurchaseOrder).                            *)
ConclusionStays ==
  [][(NegotiationStatus \in {"AGREED", "REJECTED"})
       => (NegotiationStatus' = NegotiationStatus)]_vars

(* "Sets read_at/read_by exactly once -- first read by the OTHER party     *)
(* only", and it is told once (markMessageRead).                           *)
ReadOnce ==
  \A m \in DOMAIN messages :
    /\ messages[m].read_by # messages[m].sender
    /\ messages[m].told = IF messages[m].read_by = None THEN 0 ELSE 1

(* "once CONFIRMED/CANCELLED/etc., negotiation is over"                    *)
(* (poNegotiationGuards.ts:9).                                             *)
NegotiationOver == [][po.round' # po.round => NegotiationOpen]_po

(* "sequential per PO" (poNegotiationProposal.service.ts:200).             *)
RevisionsUnique ==
  \A p, q \in Submitted : proposals[p].revision = proposals[q].revision => p = q

(* "each PARTY (owner xor supplier) has at most one draft-status proposal  *)
(* per PO at a time" (poNegotiationProposal.service.ts:39-40).             *)
OneDraft ==
  \A p, q \in DOMAIN proposals \ Submitted : proposals[p].party = proposals[q].party => p = q

(* "once submitted/resolved a proposal is immutable"                       *)
(* (poNegotiationAttachment.service.ts:32-34).                             *)
SubmittedFilesFixed ==
  [][\A p \in Submitted : proposals'[p].files = proposals[p].files]_proposals

(* total_expected_value is "the CURRENT items post-apply"                  *)
(* (poNegotiationProposal.service.ts:362).                                 *)
TotalIsSum == po.total = TotalOf(lines)
=============================================================================
