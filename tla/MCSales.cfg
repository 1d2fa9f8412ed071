SPECIFICATION Spec
CONSTANTS
  r1 = r1
  r2 = r2
  r3 = r3
  ann = ann
  bob = bob
  l1 = l1
  l2 = l2
  None = None
  Requests = {r1, r2, r3}
  Asks <- TwoLinesAsks
  Lines = {l1, l2}
  Quantity <- TwoLinesSold
  Amount <- TwoLinesAmounts
  Opening <- TwoLinesOpening
  Employees = {bob}
INVARIANTS NeverOverReturned StatusExplained StockExplained
