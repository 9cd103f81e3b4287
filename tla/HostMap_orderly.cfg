SPECIFICATION Spec
CONSTANTS
  Threads = {t1, t2, t3}
  Handles = {h1, h2, h3}
  Keys = {k1, k2}
  Conns = {c1, c2, c3}
  None = None
  MaxRefs = 3
  Reconnect = FALSE
  NicMayFail = TRUE
SYMMETRY Symmetry
INVARIANTS TypeOK RefExact NoUseAfterFree FreedOnce ReadyConnected NoLeak
PROPERTIES ReadyStable ImplementsSharedConn
