SPECIFICATION RecurringSpec
CONSTANTS
  c1 = c1
  c2 = c2
  None = None
  Callers = {c1, c2}
  Sums = {1, 2}
  Workloads <- MCWorkloads
  Amendments <- MCAmendments
  MaxFiles = 1
  Week = 2
  Month = 2
  Onboarded = 0
  MaxRunAttempts = 2
  MaxDay = 5
SYMMETRY Symmetry
INVARIANTS OncePerPeriod RollingAnchored
PROPERTY PaidFrozen
