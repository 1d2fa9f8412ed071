SPECIFICATION FairSpec
CONSTANTS
  r1 = r1
  r2 = r2
  p1 = p1
  p2 = p2
  k1 = k1
  k2 = k2
  Requests = {r1, r2}
  Keys = {k1, k2}
  SplitKeys = {k2}
  Payloads = {p1, p2}
  None = None
  TTL = 1
  Skew = 0
  MaxTime = 2
INVARIANT EffectsSpaced
PROPERTIES EveryRequestSettles ImplementsPromise
