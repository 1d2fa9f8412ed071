SPECIFICATION SupplierSpec
CONSTANTS
  c1 = c1
  c2 = c2
  bank = bank
  wallet = wallet
  None = None
  Callers = {c1, c2}
  Instructions = {bank, wallet}
  Amounts = {1, 2}
  TermDays = 0
  MaxRequests = 3
  MaxDay = 1
SYMMETRY Symmetry
INVARIANT WithinInvoice
PROPERTY RevokedStays
