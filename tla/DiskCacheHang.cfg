CONSTANTS
  c1 = c1  c2 = c2  t1 = t1  t2 = t2  h0 = h0  h1 = h1
  k1 = k1  k2 = k2  k3 = k3
  None = None
  NoHeaders = h0
  Keys <- MCKeys
  Contents <- MCContents
  Times <- MCTimes
  Headers <- MCHeaders
  Values <- MCValues
  WriteFaults = FALSE
  Limits = {0, 1}
  MaxId = 3
SPECIFICATION Spec
INVARIANT NeverHung
