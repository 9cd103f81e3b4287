SPECIFICATION FairSpec
CONSTANTS
  Clients = {c1, c2}
  Socks = {s1, s2}
  None = None
  Backlog = 1
  Pieces = 2
  Refuse = TRUE
  MayDie = FALSE
  MayCrash = FALSE
PROPERTIES CallReturns
CHECK_DEADLOCK FALSE
