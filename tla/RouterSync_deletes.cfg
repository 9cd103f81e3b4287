SPECIFICATION Spec
CONSTANTS
  Routers <- TwoHosts
  Handles <- TwoQps
  Home <- HomeOfTwo
  Peers <- TheOther
  QpNums = {q1, q2}
  MaxInFlight = 2
  None = None
  MayFail = FALSE
  r1 = r1
  r2 = r2
  a1 = a1
  a2 = a2
  b1 = b1
PROPERTIES ErasesOutdated
CHECK_DEADLOCK FALSE
