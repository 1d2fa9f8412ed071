SPECIFICATION PurchaseSpec
CONSTANTS
  c1 = c1
  c2 = c2
  a = a
  b = b
  None = None
  Callers = {c1, c2}
  Operations <- AllOperations
  Lines = {a, b}
  Orders <- MCOrders
  Deliveries <- MCDeliveries
  UnitCost = 1
  Amounts = {1, 2}
  MaxRequests = 4
INVARIANTS Settled CorrectedOnce
PROPERTY MatchStandsAtCommit
