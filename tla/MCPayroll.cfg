SPECIFICATION PayrollSpec
CONSTANTS
  c1 = c1
  c2 = c2
  amina = amina
  yusuf = yusuf
  None = None
  Callers = {c1, c2}
  Employees = {amina, yusuf}
  Workloads <- MCWorkloads
  Structures <- MCStructures
  Hours = {1}
  Deltas <- MCDeltas
  SaleTotal = 150
  DaysPerPeriod = 1
  MaxDay = 2
SYMMETRY Symmetry
INVARIANTS OneStructurePerDay ApprovedHoursPaid CommissionConserved
PROPERTY ReversalsBounded
