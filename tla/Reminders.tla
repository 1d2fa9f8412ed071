------------------------------ MODULE Reminders ------------------------------
(***************************************************************************)
(* The reminders of one debt: sendReminder and claimReminderSlot of        *)
(* src/services/debt.service.ts, reached by POST /debts/:id/remind and by  *)
(* the hourly discovery of src/lib/reminderScheduler.ts, beside all that   *)
(* Debt.tla lets happen to the debt meanwhile. A debt_reminders row is     *)
(* unique per debt, type and business day; the type follows from the day,  *)
(* so the day names the row. The message leaves between two transactions.  *)
(***************************************************************************)
EXTENDS Debt

CONSTANTS
  Senders,     \* discovery ticks and manual requests in flight at once
  DueDay,      \* date_due
  BeforeDue,   \* beforeDueDays of the business' settings
  Overdue,     \* overdueDays
  MaxTries,    \* bound: calls of sendReminder
  MaxPayments  \* bound: versions the debt goes through while reminders are sent

ASSUME ReminderAssumption ==
  /\ DueDay \in Nat /\ BeforeDue \in Nat /\ Overdue \in Nat
  /\ MaxTries \in Nat /\ MaxPayments \in Nat

Days == 0..MaxDay

Reminder == [status : {"pending", "sent", "failed"}, waits : BOOLEAN]

ASSUME NoneIsNoReminder == None \notin Reminder

VARIABLES
  reminder,   \* reminder[d]: the debt_reminders row of business day d, None before it
  accepted,   \* accepted[d]: messages the provider took for day d
  sender,     \* sender[s]: where call s of sendReminder is
  tries,      \* calls so far
  reminding   \* bound: a behaviour is about the reminders or about the debt alone

reminderVars == <<reminder, accepted, sender, tries>>
allVars == <<vars, reminderVars, reminding>>

Away == [pc |-> "away", day |-> 0, seen |-> None]

ReminderInit ==
  /\ Init
  /\ reminder = [d \in Days |-> None]
  /\ accepted = [d \in Days |-> 0]
  /\ sender = [s \in Senders |-> Away]
  /\ tries = 0
  /\ reminding \in BOOLEAN

------------------------------------------------------------------------------
(* discoverAndSendReminders: overdue for long enough, or due soon.         *)
Eligible(day) ==
  IF day > DueDay THEN day - DueDay >= Overdue ELSE DueDay - day <= BeforeDue

Call(s) ==
  /\ reminding /\ debt # None
  /\ tries < MaxTries
  /\ sender[s] = Away
  /\ tries' = tries + 1
  /\ sender' = [sender EXCEPT ![s].pc = "called"]
  /\ UNCHANGED <<vars, reminder, accepted>>

(* A tick takes the debts that are open and eligible when it lists them.   *)
Tick(s) == debt # None /\ debt.status \in {"open", "partially_paid"} /\ Eligible(today) /\ Call(s)

(* POST /debts/:id/remind takes any debt on any day.                       *)
Remind(s) == Call(s)

(* sendReminder reads the day, claimReminderSlot the row there is for it.  *)
Look(s) ==
  /\ sender[s].pc = "called"
  /\ sender' = [sender EXCEPT ![s] = [pc |-> "looked", day |-> today, seen |-> reminder[today]]]
  /\ UNCHANGED <<vars, reminder, accepted, tries>>

(* A failed attempt whose next_retry had passed when the row was read.     *)
Retriable(row) == row.status = "failed" /\ ~row.waits

(* Bug: the row is claimed by its id.                                      *)
StillFreeById(s) == TRUE

(* The unique index, and the UPDATE guarded by status = 'failed'.          *)
StillFree(s) ==
  LET row == reminder[sender[s].day] IN
  IF sender[s].seen = None THEN row = None ELSE row.status = "failed"

ClaimSlot(s) ==
  /\ sender[s].pc = "looked"
  /\ sender[s].seen # None => Retriable(sender[s].seen)
  /\ StillFree(s)
  /\ reminder' = [reminder EXCEPT ![sender[s].day] = [status |-> "pending", waits |-> FALSE]]
  /\ sender' = [sender EXCEPT ![s].pc = "claimed"]
  /\ UNCHANGED <<vars, accepted, tries>>

(* Sent, in flight elsewhere, not due for a retry, or lost in the race.    *)
SlotTaken(s) ==
  /\ sender[s].pc = "looked"
  /\ ~(StillFree(s) /\ (sender[s].seen # None => Retriable(sender[s].seen)))
  /\ sender' = [sender EXCEPT ![s] = Away]
  /\ UNCHANGED <<vars, reminder, accepted, tries>>

(* The provider takes the message or throws; the debt is not read again.   *)
Send(s) ==
  /\ sender[s].pc = "claimed"
  /\ \/ /\ sender' = [sender EXCEPT ![s].pc = "sent"]
        /\ accepted' = [accepted EXCEPT ![sender[s].day] = @ + 1]
     \/ /\ sender' = [sender EXCEPT ![s].pc = "failed"]
        /\ UNCHANGED accepted
  /\ UNCHANGED <<vars, reminder, tries>>

(* The second transaction, by the row's id; a failure waits for an hour.   *)
Complete(s) ==
  /\ sender[s].pc \in {"sent", "failed"}
  /\ reminder' = [reminder EXCEPT ![sender[s].day] =
                    [status |-> sender[s].pc, waits |-> sender[s].pc = "failed"]]
  /\ sender' = [sender EXCEPT ![s] = Away]
  /\ UNCHANGED <<vars, accepted, tries>>

HourPasses(d) ==
  /\ reminder[d] # None /\ reminder[d].waits
  /\ reminder' = [reminder EXCEPT ![d].waits = FALSE]
  /\ UNCHANGED <<vars, accepted, sender, tries>>

Crash(s) ==
  /\ sender[s] # Away
  /\ sender' = [sender EXCEPT ![s] = Away]
  /\ UNCHANGED <<vars, reminder, accepted, tries>>

ReminderStep ==
  \/ \E s \in Senders :
       Tick(s) \/ Remind(s) \/ Look(s) \/ ClaimSlot(s) \/ SlotTaken(s) \/ Send(s) \/ Complete(s) \/ Crash(s)
  \/ \E d \in Days : HourPasses(d)

(* While reminders are sent, only payments come in, few and one at a time. *)
Narrow ==
  /\ debt' # None => debt'.policy = "periodic"
  /\ \A c \in Callers : req[c] = Idle /\ req'[c] # Idle =>
       /\ req'[c].op = "pay" /\ debt.version < MaxPayments
       /\ \A b \in Callers : req[b] = Idle

Rest ==
  /\ \A c \in Callers : req[c] = Idle
  /\ \A s \in Senders : sender[s] = Away
  /\ UNCHANGED <<vars, reminderVars>>

ReminderNext ==
  /\ \/ Next /\ (reminding => Narrow) /\ UNCHANGED reminderVars
     \/ ReminderStep
     \/ Rest
  /\ UNCHANGED reminding

ReminderSpec == ReminderInit /\ [][ReminderNext]_allVars

------------------------------------------------------------------------------
(* debt.service.ts:890-903: two ticks, a tick and a click, a retry raced   *)
(* by a retry: the customer gets one message a day at most, and the row    *)
(* says sent only when one was taken.                                      *)
OneMessageADay ==
  \A d \in Days :
    /\ accepted[d] <= 1
    /\ reminder[d] # None /\ reminder[d].status = "sent" => accepted[d] = 1

(* "a failed attempt not yet eligible for retry" is not taken              *)
(* (debt.service.ts:893): next_retry is compared on the row read, the      *)
(* UPDATE looks at the status alone, so a second failure is retried at     *)
(* once by a sender that read the first.                                   *)
BackoffKept ==
  [][\A s \in Senders : ClaimSlot(s) /\ reminder[sender[s].day] # None =>
       ~reminder[sender[s].day].waits]_allVars

(* discoverAndSendReminders selects debts that are open or partially paid; *)
(* the message may leave after the last payment.                           *)
NoneOncePaid ==
  [][\A s \in Senders : Send(s) => debt.status # "paid"]_allVars

(* A slot in flight belongs to a call: what is pending is sent or failed   *)
(* in the end. A dead call leaves its slot pending for ever.               *)
NoOrphanSlot ==
  (\A s \in Senders : sender[s] = Away)
    => \A d \in Days : reminder[d] # None => reminder[d].status # "pending"
==============================================================================
