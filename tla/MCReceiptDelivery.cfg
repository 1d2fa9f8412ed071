SPECIFICATION FairSpec
CONSTANTS
  r1 = r1
  r2 = r2
  k1 = k1
  k2 = k2
  p1 = p1
  Requests = {r1, r2}
  Keys = {k1, k2, p1}
  PrintKeys = {p1}
  None = None
  Stale = 1
  Slow = {r2}
  CanCheck = TRUE
  MaxFaults = 2
INVARIANTS OneSendPerKey UnknownMeansGone
PROPERTY SendingEnds
