SPECIFICATION Spec
CONSTANTS
  Threads = {t1, t2}
  Handles = {h1, h2}
  Keys = {k1}
  Conns = {c1, c2}
  None = None
  MaxRefs = 3
  Reconnect = FALSE
  NicMayFail = FALSE

INVARIANTS QpThereWhenReused
