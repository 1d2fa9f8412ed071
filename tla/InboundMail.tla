------------------------------ MODULE InboundMail ------------------------------
(***************************************************************************)
(* The supplier's answers by e-mail: the webhook of the mail provider      *)
(* (resendInboundWebhook.controller.ts) and what it does with a mail       *)
(* (resendInboundWebhook.service.ts), beside the negotiation the mail      *)
(* belongs to. The provider delivers a mail once or more, and again for    *)
(* as long as it was not acknowledged; which mails were sent is part of    *)
(* the workload.                                                           *)
(***************************************************************************)
EXTENDS Negotiation

VARIABLES
  mail  \* mail[m]: what is known of mail m, in order of the workload

mailVars == <<vars, mail>>

(* What a mail turns out to be: an answer of the supplier of the order, a  *)
(* mail of somebody else to its address, one to no order's address, or a   *)
(* payload that does not parse.                                            *)
Kinds == {"reply", "stranger", "astray", "malformed"}

NewMail(kind) ==
  [kind |-> kind, claimed |-> FALSE, messages |-> {}, quarantined |-> FALSE, acked |-> FALSE]

MailInit ==
  /\ Init
  /\ mail = [m \in DOMAIN workload.mails |-> NewMail(workload.mails[m])]

------------------------------------------------------------------------------
(* The webhook is called, for the first time or again.                     *)
Deliver(c) ==
  /\ \E m \in DOMAIN mail : Ask(c, Request("mail", None, m))
  /\ UNCHANGED <<shipVars, negotiationVars, mail>>

On(c) == mail[req[c].on]

Continue(c, pc) == Goes(c, pc, None) /\ UNCHANGED <<shipVars, negotiationVars, mail>>

(* A delivery that finds the claim of an earlier one has nothing to do.    *)
KnownAlready(c) ==
  /\ At(c, "read", "mail")
  /\ On(c).claimed
  /\ Continue(c, "answer")

(* Tried in this order: the address, the state of the negotiation, the     *)
(* sender, and the body, which the provider may fail to return. All of it  *)
(* is read before the transaction. An error of the check on the            *)
(* negotiation counts as a negotiation that is over.                       *)
Decide(c) ==
  /\ At(c, "read", "mail")
  /\ ~On(c).claimed
  /\ \/ On(c).kind = "reply" /\ NegotiationOpen /\ Continue(c, "message")
     \/ Continue(c, "quarantine")

(* Bug: the transaction does not begin with the claim.                     *)
UnclaimedUnchecked(m) == TRUE

(* The unique index of resend_inbound_claims.                              *)
Unclaimed(m) == ~mail[m].claimed

(* The claim and the message, with its attachments, in one transaction;    *)
(* the message has a unique index of its own.                              *)
CommitMessage(c) ==
  LET m == req[c].on IN
  /\ At(c, "message", "mail")
  /\ Unclaimed(m)
  /\ mail[m].messages = {}
  /\ messages' = Append(messages, [sender |-> "supplier", read_by |-> None, told |-> 0])
  /\ mail' = [mail EXCEPT ![m].claimed = TRUE, ![m].messages = @ \cup {Len(messages')}]
  /\ Goes(c, "answer", None)
  /\ UNCHANGED <<shipVars, proposals, agreements>>

(* quarantine: the claim and the row of the unmatched mail. A payload that *)
(* does not parse is kept without a claim (quarantineMalformedPayload).    *)
Quarantine(c) ==
  LET m == req[c].on IN
  /\ At(c, "quarantine", "mail")
  /\ Unclaimed(m)
  /\ ~mail[m].quarantined
  /\ mail' = [mail EXCEPT ![m].claimed = @ \/ mail[m].kind # "malformed",
                          ![m].quarantined = TRUE]
  /\ Goes(c, "answer", None)
  /\ UNCHANGED <<shipVars, negotiationVars>>

(* A unique index is violated: another delivery of the mail came first.    *)
Duplicate(c) ==
  LET m == req[c].on IN
  /\ \/ At(c, "message", "mail") /\ (mail[m].claimed \/ mail[m].messages # {})
     \/ At(c, "quarantine", "mail") /\ (mail[m].claimed \/ mail[m].quarantined)
  /\ Continue(c, "answer")

(* Any other error, rolled back and answered with 200 all the same.        *)
FailQuietly(c) ==
  /\ req[c].op = "mail" /\ req[c].pc \in {"read", "message", "quarantine"}
  /\ Continue(c, "answer")

(* 200: the provider does not deliver the mail again for want of an answer.*)
Acknowledge(c) ==
  /\ At(c, "answer", "mail")
  /\ mail' = [mail EXCEPT ![req[c].on].acked = TRUE]
  /\ Finished(c)
  /\ UNCHANGED <<order, links, shipVars, negotiationVars>>

MailStep(c) ==
  \/ Deliver(c) \/ KnownAlready(c) \/ Decide(c) \/ CommitMessage(c) \/ Quarantine(c)
  \/ Duplicate(c) \/ FailQuietly(c) \/ Acknowledge(c)

MailNext ==
  \/ Next /\ UNCHANGED mail
  \/ \E c \in Callers : MailStep(c)

MailSpec == MailInit /\ [][MailNext]_mailVars

------------------------------------------------------------------------------
(* However often a mail is delivered, whatever became of the negotiation   *)
(* between two deliveries and wherever one of them died, the mail is one   *)
(* message or one row in quarantine and never both; there is no claim      *)
(* without what it stands for, and no two mails share a message            *)
(* ("There is no window where a claim can exist without its                *)
(* message/quarantine row, or vice versa",                                 *)
(* resendInboundWebhook.service.ts:61-62).                                 *)
MailOnce ==
  \A m \in DOMAIN mail :
    /\ Cardinality(mail[m].messages) + (IF mail[m].quarantined THEN 1 ELSE 0) <= 1
    /\ mail[m].kind # "malformed" =>
         mail[m].claimed = (mail[m].messages # {} \/ mail[m].quarantined)
    /\ \A n \in DOMAIN mail \ {m} : mail[n].messages \cap mail[m].messages = {}

(* "every inbound email that can't be matched with certainty lands here    *)
(* ... never a silent drop" (schema.prisma:3061-3064): a mail the provider *)
(* was told of as received is a message or a row in quarantine.            *)
MailKept ==
  \A m \in DOMAIN mail :
    mail[m].acked => mail[m].messages # {} \/ mail[m].quarantined

(* "a reply arriving after the PO left "sent" status ... has nowhere       *)
(* legitimate to land" (resendInboundWebhook.service.ts:106-108).          *)
LandsInTheOpen ==
  [][\A m \in DOMAIN mail : mail'[m].messages # mail[m].messages => NegotiationOpen]_mail
================================================================================
