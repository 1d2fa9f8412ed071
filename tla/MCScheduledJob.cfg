SPECIFICATION FairJobSpec
CONSTANTS
  w1 = w1
  w2 = w2
  w3 = w3
  None = None
  Workers = {w1, w2, w3}
  MaxAttempts = 2
  Lease = 2
  BackoffUnit = 1
  BackoffCap = 2
  WorkFitsLease = TRUE
  MaxCrashes = 2
  MaxFaults = 1
INVARIANT OneRunner
PROPERTIES TerminalIsFinal JobEnds
