SPECIFICATION FairSpec
CONSTANTS
  Procs <- TwoPairs
  Hosts <- TwoHosts
  Host <- HostOfTwo
  Partner <- PartnerOfTwo
  MaxWr = 1
  CqSize = 1
  MaxOut = 2
  MaxPosts = 1
  Careful <- SecondPair
  h1 = h1
  h2 = h2
  a1 = a1
  a2 = a2
  b1 = b1
  b2 = b2
INVARIANTS TypeOK Conserved HandedOwn 
PROPERTIES QueueDrains
CHECK_DEADLOCK FALSE
