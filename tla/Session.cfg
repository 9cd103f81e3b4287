SPECIFICATION Spec
CONSTANTS
  Threads <- FourThreads
  Procs <- ThreeProcs
  ProcOf <- ProcOfFour
  PidOf <- PidReused
  Servers = {c}
  Word = 4
  Slots = 4
  MaxCount = 3
  None = None
  a1 = a1
  a2 = a2
  b = b
  c = c
  p1 = p1
  p2 = p2
  p3 = p3
INVARIANTS SessionTypeOK PollHitsOwn HandlesUnique RefusedForCause ServedMeansUp
CHECK_DEADLOCK FALSE
