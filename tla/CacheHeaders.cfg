CONSTANTS
  k1 = k1  k2 = k2
  c0 = c0  c1 = c1  c2 = c2  t0 = t0  t1 = t1  t2 = t2
  n1 = n1  x1 = x1  x2 = x2
  None = None
  NoContent = c0
  NoTime = t0
  Keys <- MCKeys
  Contents <- MCContents
  Times <- MCTimes
  HeaderNames <- MCHeaderNames
  HeaderValues <- MCHeaderValues
  NoHeaders <- MCNoHeaders
  Headers <- MCHeaders
  Values <- MCValues
  Resources <- MCResources
  WriteFaults = TRUE
  Limits = {0, 1, 2}
  MaxRam = 1
  MaxId = 3
SPECIFICATION SpecWithHeaders
SYMMETRY Symmetry
INVARIANTS DiskConsistent PartsTogether
