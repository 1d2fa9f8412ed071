------------------------------- MODULE Shipments ------------------------------
(***************************************************************************)
(* The shipments of a purchase order (poShipment.service.ts,               *)
(* lib/shipmentStatus.ts) and its delivery milestones                      *)
(* (poDeliveryMilestone.service.ts), written by both parties: what was     *)
(* shipped of each line, the status machine with its history, the window   *)
(* of arrival with its history.                                            *)
(***************************************************************************)
EXTENDS SupplierPortal

VARIABLES
  shipments,  \* the po_shipments, in order, with their histories
  milestones  \* the stages recorded for the order, in order

shipVars == <<shipments, milestones>>

Statuses == {"pending", "dispatched", "in_transit", "customs", "arrived", "delayed",
             "delivered", "cancelled"}

Terminal == {"delivered", "cancelled"}

Stages == <<"production_started", "production_finished", "packing", "ready_to_ship", "shipped",
            "customs_clearance", "arrived", "warehouse_received", "completed">>

ShipInit ==
  /\ shipments = <<>>
  /\ milestones = <<>>

------------------------------------------------------------------------------
(* SHIPMENT_STATUS_TRANSITIONS                                             *)
Transitions ==
  [pending    |-> {"dispatched", "delayed", "cancelled"},
   dispatched |-> {"in_transit", "customs", "arrived", "delayed", "cancelled"},
   in_transit |-> {"customs", "arrived", "delayed", "cancelled"},
   customs    |-> {"arrived", "delayed", "cancelled"},
   arrived    |-> {"delivered", "delayed", "cancelled"},
   delayed    |-> {"dispatched", "in_transit", "customs", "arrived", "cancelled"},
   delivered  |-> {},
   cancelled  |-> {}]

(* isValidShipmentTransition                                               *)
ValidTransition(from, to) == from # to /\ to \in Transitions[from]

(* getShippedSumsByPoItem                                                  *)
Shipped(l) ==
  MapThenSumSet(LAMBDA s : shipments[s].quantity,
    {s \in DOMAIN shipments : shipments[s].line = l /\ shipments[s].status # "cancelled"})

Present == {l \in DOMAIN lines : lines[l] # None}

(* getRemainingQuantities                                                  *)
Remaining(l) == lines[l].quantity - Shipped(l)

(* createMilestone: the warning beside a stage that is recorded.           *)
Warned(stage) ==
  LET rank(m) == CHOOSE i \in DOMAIN Stages : Stages[i] = m
      highest == Max({0} \cup {rank(milestones[i].stage) : i \in DOMAIN milestones}) IN
  \/ rank(stage) > highest + 1
  \/ rank(stage) <= highest /\ \A i \in DOMAIN milestones : milestones[i].stage # stage

------------------------------------------------------------------------------
(* createShipment up to its transaction: what was shipped so far is read   *)
(* without a lock.                                                         *)
AskShipment(c) ==
  /\ po.status \in {"sent", "confirmed", "received"}
  /\ \E p \in Party, l \in Present :
       \E n \in 1..Remaining(l) :
         Ask(c, [Request("ship", p, l) EXCEPT !.seen = n])

CreateShipment(c) ==
  /\ At(c, "read", "ship")
  /\ lines[req[c].on] # None
  /\ shipments' = Append(shipments,
       [line |-> req[c].on, quantity |-> req[c].seen, status |-> "pending", version |-> 0,
        history |-> <<[from |-> None, to |-> "pending"]>>, carrier |-> 0, arrival |-> 0,
        windows |-> <<>>, files |-> 0])
  /\ Finished(c)
  /\ UNCHANGED <<order, links, milestones>>

(* An operation on a shipment: the version and the status it was shown.    *)
AskStatus(c) ==
  \E s \in DOMAIN shipments : \E to \in Transitions[shipments[s].status] :
    Ask(c, [Request("status", "owner", s) EXCEPT
              !.shown = shipments[s].version, !.seen = shipments[s].status, !.tx = to])

AskDetails(c) ==
  \E s \in DOMAIN shipments :
    Ask(c, [Request("details", "owner", s) EXCEPT !.shown = shipments[s].version])

AskArrival(c) ==
  \E p \in Party, s \in DOMAIN shipments :
    /\ shipments[s].status \notin Terminal
    /\ Ask(c, [Request("arrival", p, s) EXCEPT !.seen = shipments[s].arrival])

AskUpload(c) ==
  \E p \in Party, s \in DOMAIN shipments :
    shipments[s].status # "cancelled" /\ Ask(c, Request("upload", p, s))

(* Bug: the row is updated by its id alone.                                *)
StillAsById(c, version, from) == TRUE

(* The conditions of the guarded updates of a shipment.                    *)
StillAs(c, version, from) ==
  /\ shipments[req[c].on].version \in version
  /\ shipments[req[c].on].status \in from

Wrote(c, row) ==
  /\ shipments' = [shipments EXCEPT ![req[c].on] = row]
  /\ Finished(c)
  /\ UNCHANGED <<order, links, milestones>>

(* updateShipmentStatus                                                    *)
UpdateStatus(c) ==
  /\ At(c, "read", "status")
  /\ StillAs(c, {req[c].shown}, {req[c].seen})
  /\ Wrote(c, [shipments[req[c].on] EXCEPT
                 !.status = req[c].tx, !.version = @ + 1,
                 !.history = Append(@, [from |-> req[c].seen, to |-> req[c].tx])])

(* updateShipment: carrier, tracking, costs, priority.                     *)
UpdateShipment(c) ==
  /\ At(c, "read", "details")
  /\ StillAs(c, {req[c].shown}, Statuses \ Terminal)
  /\ Wrote(c, [shipments[req[c].on] EXCEPT !.carrier = @ + 1, !.version = @ + 1])

(* updateShipmentEta: no version, and the window it replaces is the one    *)
(* read before the transaction.                                            *)
UpdateEta(c) ==
  LET s == shipments[req[c].on] IN
  /\ At(c, "read", "arrival")
  /\ StillAs(c, {s.version}, Statuses \ Terminal)
  /\ Wrote(c, [s EXCEPT !.arrival = Len(s.windows) + 1,
                 !.windows = Append(@, [old |-> req[c].seen, new |-> Len(s.windows) + 1])])

(* uploadShipmentAttachment                                                *)
UploadFile(c) ==
  /\ At(c, "read", "upload")
  /\ Wrote(c, [shipments[req[c].on] EXCEPT !.files = @ + 1])

(* createMilestone: recorded whether it is in order or not.                *)
AskMilestone(c) ==
  \E p \in Party, i \in {1, 3} :
    Ask(c, [Request("milestone", p, None) EXCEPT
              !.seen = [stage |-> Stages[i], warned |-> Warned(Stages[i])]])

RecordMilestone(c) ==
  /\ At(c, "read", "milestone")
  /\ milestones' = Append(milestones, req[c].seen)
  /\ Finished(c)
  /\ UNCHANGED <<order, links, shipments>>

ShipStep(c) ==
  \/ (AskShipment(c) \/ AskStatus(c) \/ AskDetails(c) \/ AskArrival(c) \/ AskUpload(c)
        \/ AskMilestone(c)) /\ UNCHANGED shipVars
  \/ CreateShipment(c) \/ UpdateStatus(c) \/ UpdateShipment(c) \/ UpdateEta(c) \/ UploadFile(c)
  \/ RecordMilestone(c)

------------------------------------------------------------------------------
(* Whoever moves a shipment, and on what version: its history is one chain *)
(* of allowed transitions from its creation to where it is                 *)
(* (updateShipmentStatus).                                                 *)
HistoryChained ==
  \A s \in DOMAIN shipments :
    LET h == shipments[s].history IN
    /\ h[1] = [from |-> None, to |-> "pending"]
    /\ h[Len(h)].to = shipments[s].status
    /\ \A i \in 2..Len(h) : h[i].from = h[i - 1].to /\ ValidTransition(h[i].from, h[i].to)

(* A shipment that was delivered or cancelled is not touched any more, not *)
(* by a request that read it before either; only documents still come      *)
(* (updateShipment, updateShipmentEta).                                    *)
TerminalFrozen ==
  [][\A s \in DOMAIN shipments :
       shipments[s].status \in Terminal
         => [shipments'[s] EXCEPT !.files = shipments[s].files] = shipments[s]]_shipments

(* "hard block": what was shipped of a line is at most what was ordered    *)
(* (poShipment.service.ts:109-114).                                        *)
NotOverShipped == \A l \in Present : Remaining(l) >= 0

(* A window of arrival replaces the one before it. Of two updates that     *)
(* read the same window the second one's history skips the first.          *)
WindowsChained ==
  \A s \in DOMAIN shipments : \A i \in 2..Len(shipments[s].windows) :
    shipments[s].windows[i].old = shipments[s].windows[i - 1].new

(* "immutable once cancelled" (poShipmentAttachment.service.ts:28).        *)
CancelledTakesNoFile ==
  [][\A s \in DOMAIN shipments :
       shipments[s].status = "cancelled" => shipments'[s].files = shipments[s].files]_shipments
=============================================================================
