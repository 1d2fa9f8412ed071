SPECIFICATION Spec
CONSTANTS
  c1 = c1
  c2 = c2
  old = old
  new = new
  phone = phone
  None = None
  Callers = {c1, c2}
  Passwords = {old, new}
  Devices = {phone}
  LockAfter = 2
  MaxTries = 2
  WindowMax = 3
  PassOnError = FALSE
  MaxWindows = 2
  MaxOutages = 1
  Workloads <- MCWorkloads
SYMMETRY Symmetry
INVARIANTS UsedOnce WindowBounded
PROPERTY RevocationHolds
