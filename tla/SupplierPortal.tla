---------------------------- MODULE SupplierPortal ----------------------------
(***************************************************************************)
(* A purchase order as its supplier sees it: the order and its lines, the  *)
(* secure links that open it to the supplier (poSecureLink.service.ts,     *)
(* middleware/secureLinkAuth.ts), and what the owner does to it meanwhile  *)
(* (confirm, cancel and receive, setDeadline of                            *)
(* poNegotiationSummary.service.ts). Shipments.tla and Negotiation.tla     *)
(* extend it with what the two parties do through it.                      *)
(***************************************************************************)
EXTENDS Integers, Sequences, FiniteSetsExt, SequencesExt

CONSTANTS
  Callers,    \* requests in flight at once
  Products,
  Workloads,  \* bound: operations, first tables and number of requests
  None

Party == {"owner", "supplier"}

Line == [product : Products, quantity : Nat, cost : Nat, total : Nat]

VARIABLES
  po,       \* the purchase order
  lines,    \* its items in the order of their ids, None once removed
  links,    \* its secure links, in order
  req,      \* req[c]: the request caller c has in flight
  asked,
  workload  \* what this behaviour is about

portalVars == <<po, lines, links, req, asked, workload>>
order == <<po, lines>>

Idle == [pc |-> "idle", op |-> None, party |-> None, on |-> None, shown |-> None,
         seen |-> None, tx |-> None]

TotalOf(ls) ==
  MapThenSumSet(LAMBDA l : ls[l].total, {l \in DOMAIN ls : ls[l] # None})

FreshLink == [status |-> "active", lapsed |-> FALSE, first_views |-> 0, views |-> 0]

(* An order that was sent, with a link to it.                              *)
PortalInit ==
  /\ workload \in Workloads
  /\ lines = [l \in 1..Cardinality(Products) - 1 |->
       [product |-> SetToSeq(Products)[l], quantity |-> 2, cost |-> 1, total |-> 2]]
  /\ po = [status |-> "sent", received |-> FALSE, total |-> TotalOf(lines), round |-> 0,
           respond_by |-> None, version |-> 0]
  /\ links = <<FreshLink>>
  /\ req = [c \in Callers |-> Idle]
  /\ asked = 0

------------------------------------------------------------------------------
(* assertNegotiationOpen, before the transaction of its caller.            *)
NegotiationOpen == po.status = "sent" /\ ~po.received

Active == {l \in DOMAIN links : links[l].status = "active"}

(* secureLinkAuth: the gate of every request of the supplier.              *)
Usable == {l \in Active : ~links[l].lapsed}

(* A request composed: what it was shown and what its service reads and    *)
(* checks before its transaction.                                          *)
Ask(c, r) ==
  /\ req[c] = Idle
  /\ asked < workload.requests
  /\ r.op \in workload.ops
  /\ r.party = "supplier" => Usable # {}
  /\ asked' = asked + 1
  /\ req' = [req EXCEPT ![c] = r]
  /\ UNCHANGED <<order, links, workload>>

Request(op, party, on) ==
  [Idle EXCEPT !.pc = "read", !.op = op, !.party = party, !.on = on]

At(c, pc, op) == req[c].pc = pc /\ req[c].op = op

Finished(c) == req' = [req EXCEPT ![c] = Idle] /\ UNCHANGED <<asked, workload>>

Goes(c, pc, tx) ==
  /\ req' = [req EXCEPT ![c].pc = pc, ![c].tx = tx]
  /\ UNCHANGED <<order, links, asked, workload>>

(* A request ends without a trace: a failed guard, any error, a crash.     *)
Abandon(c) ==
  /\ req[c] # Idle
  /\ Finished(c)
  /\ UNCHANGED <<order, links>>

------------------------------------------------------------------------------
With(status, S) ==
  [l \in DOMAIN links |-> IF l \in S THEN [links[l] EXCEPT !.status = status] ELSE links[l]]

(* No transaction in flight holds a row of S.                              *)
LinksFree(S) == \A c \in Callers : At(c, "revoked", "regenerate") => req[c].tx \cap S = {}

AskRegenerate(c) ==
  /\ NegotiationOpen
  /\ Ask(c, Request("regenerate", "owner", None))

(* An UPDATE of the active links sees those committed as it starts; of     *)
(* these it writes, once no other transaction holds them, the ones that    *)
(* are still active. What was created meanwhile it does not see.           *)
FindLinks(c) ==
  /\ req[c].pc = "read" /\ req[c].op \in {"regenerate", "revoke", "confirm", "cancel"}
  /\ Goes(c, "found", Active)

Written(c) == req[c].tx \cap Active

(* regenerateSecureLink: what was active is revoked ...                    *)
RevokeOld(c) ==
  /\ At(c, "found", "regenerate")
  /\ LinksFree(req[c].tx)
  /\ Goes(c, "revoked", Written(c))

(* ... and the new link created with the commit.                           *)
CreateLink(c) ==
  /\ At(c, "revoked", "regenerate")
  /\ links' = Append(With("revoked", req[c].tx), FreshLink)
  /\ Finished(c)
  /\ UNCHANGED order

AskRevoke(c) == Ask(c, Request("revoke", "owner", None))

(* revokeSecureLink                                                        *)
RevokeLink(c) ==
  /\ At(c, "found", "revoke")
  /\ Written(c) # {} /\ LinksFree(req[c].tx)
  /\ links' = With("revoked", Written(c))
  /\ Finished(c)
  /\ UNCHANGED order

AskView(c) == \E l \in Usable : Ask(c, Request("view", "supplier", l))

(* recordSupplierView reads whether the link was ever viewed ...           *)
ReadView(c) ==
  /\ At(c, "read", "view")
  /\ Goes(c, "viewing", links[req[c].on].views = 0)

(* ... and counts the view; the first one is published.                    *)
CountView(c) ==
  /\ At(c, "viewing", "view")
  /\ links' = [links EXCEPT ![req[c].on].views = @ + 1,
                            ![req[c].on].first_views = IF req[c].tx THEN @ + 1 ELSE @]
  /\ Finished(c)
  /\ UNCHANGED order

(* The thirty days of the links are over.                                  *)
LapseLinks ==
  /\ "lapse" \in workload.ops
  /\ links' = [l \in DOMAIN links |-> [links[l] EXCEPT !.lapsed = TRUE]]
  /\ UNCHANGED <<order, req, asked, workload>>

------------------------------------------------------------------------------
(* An operation on the order: the version and the terms it was shown.      *)
AskOrder(c) ==
  \E op \in {"confirm", "cancel", "deadline", "receive"} :
    Ask(c, [Request(op, "owner", None) EXCEPT !.shown = po.version, !.seen = lines])

(* The guarded update of an order. confirm and cancel make it before they  *)
(* look for the links; the row is then theirs and every writer raises the  *)
(* version, so the guard is put to the step that commits.                  *)
Guarded(c, from) ==
  /\ po.version = req[c].shown
  /\ po.status \in from

(* expireSecureLinksForTerminalPo                                          *)
ExpireLinks(c) ==
  /\ LinksFree(req[c].tx)
  /\ links' = With("expired", Written(c))

Confirm(c) ==
  /\ At(c, "found", "confirm") /\ Guarded(c, {"sent"})
  /\ po' = [po EXCEPT !.status = "confirmed", !.version = @ + 1]
  /\ ExpireLinks(c)
  /\ Finished(c)
  /\ UNCHANGED lines

Cancel(c) ==
  /\ At(c, "found", "cancel") /\ Guarded(c, {"draft", "sent"})
  /\ po' = [po EXCEPT !.status = "cancelled", !.version = @ + 1]
  /\ ExpireLinks(c)
  /\ Finished(c)
  /\ UNCHANGED lines

SetDeadline(c) ==
  /\ At(c, "read", "deadline") /\ Guarded(c, {po.status})
  /\ \E d \in {None, "passed", "ahead"} :
       po' = [po EXCEPT !.respond_by = d, !.version = @ + 1]
  /\ Finished(c)
  /\ UNCHANGED <<lines, links>>

(* createGoodsReceivedNote, of all that was ordered.                       *)
Receive(c) ==
  /\ At(c, "read", "receive") /\ Guarded(c, {"sent", "confirmed"})
  /\ po' = [po EXCEPT !.status = "received", !.received = TRUE, !.version = @ + 1]
  /\ Finished(c)
  /\ UNCHANGED <<lines, links>>

PortalStep(c) ==
  \/ AskRegenerate(c) \/ FindLinks(c) \/ RevokeOld(c) \/ CreateLink(c) \/ AskRevoke(c) \/ RevokeLink(c)
  \/ AskView(c) \/ ReadView(c) \/ CountView(c)
  \/ AskOrder(c) \/ Confirm(c) \/ Cancel(c) \/ SetDeadline(c) \/ Receive(c)
  \/ Abandon(c)

------------------------------------------------------------------------------
(* The order and its links have their shape.                               *)
PortalTypeOK ==
  /\ po.status \in {"sent", "confirmed", "cancelled", "received"}
  /\ po.received \in BOOLEAN /\ po.total \in Nat /\ po.round \in Nat /\ po.version \in Nat
  /\ \A l \in DOMAIN lines : lines[l] # None => lines[l] \in Line
  /\ \A l \in DOMAIN links :
       /\ links[l].status \in {"active", "revoked", "expired"}
       /\ links[l].first_views \in 0..links[l].views

(* "One PO = one active link at a time" (poSecureLink.service.ts:74).      *)
OneActiveLink == Cardinality(Active) <= 1

(* "callers use this to decide whether to publish                          *)
(* PurchaseOrderViewedBySupplier (debounced, first-view only)"             *)
(* (poSecureLink.service.ts:212-214).                                      *)
FirstViewOnce == \A l \in DOMAIN links : links[l].first_views <= 1

(* "auto-expire any still-active secure link in the same transaction as    *)
(* the status transition" (purchaseOrder.service.ts:361-363).              *)
NoLinkAfterTerms == po.status \in {"confirmed", "cancelled"} => Active = {}
=============================================================================
