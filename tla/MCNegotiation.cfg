SPECIFICATION MailSpec
CONSTANTS
  c1 = c1
  c2 = c2
  rice = rice
  oil = oil
  salt = salt
  None = None
  Callers = {c1, c2}
  Products = {rice, oil, salt}
  Offers <- MCOffers
  Workloads <- MCWorkloads
SYMMETRY Symmetry
INVARIANTS AgreedOnce HistoryChained MailOnce
PROPERTIES ConfirmedAsShown SubmittedFixed
