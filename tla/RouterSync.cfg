SPECIFICATION FairSpec
CONSTANTS
  Routers <- TwoHosts
  Handles <- ThreeQps
  Home <- HomeOfThree
  Peers <- TheOther
  QpNums = {q1, q2}
  MaxInFlight = 2
  None = None
  MayFail = TRUE
  r1 = r1
  r2 = r2
  a1 = a1
  a2 = a2
  b1 = b1
INVARIANTS TypeOK Paired RemembersCurrent KnownOnceTold ForgottenWhenQuiet
PROPERTIES WaitEnds
CHECK_DEADLOCK FALSE
