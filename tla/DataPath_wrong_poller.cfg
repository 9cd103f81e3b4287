SPECIFICATION Spec
CONSTANTS
  Procs <- TwoPairs
  Hosts <- TwoHosts
  Host <- HostOfTwo
  Partner <- PartnerOfTwo
  MaxWr = 2
  CqSize = 2
  MaxOut = 1
  MaxPosts = 2
  Careful <- TwoPairs
  h1 = h1
  h2 = h2
  a1 = a1
  a2 = a2
  b1 = b1
  b2 = b2
INVARIANTS Served
CHECK_DEADLOCK FALSE
