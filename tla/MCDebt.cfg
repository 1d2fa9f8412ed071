SPECIFICATION ReminderSpec
CONSTANTS
  c1 = c1
  c2 = c2
  s1 = s1
  s2 = s2
  None = None
  Callers = {c1, c2}
  Operations <- AllOperations
  Amounts = {1, 2}
  Rate = 1
  Policies = {"one_time", "periodic"}
  Period = 1
  MaxVersion = 4
  MaxDay = 2
  Senders = {s1, s2}
  DueDay = 1
  BeforeDue = 0
  Overdue = 1
  MaxTries = 3
  MaxPayments = 1
INVARIANTS MoneyConserved ReversedOnce NoPeriodTwice OneMessageADay
PROPERTY DisputeHeld
