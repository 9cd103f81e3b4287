SPECIFICATION LegacyFairSpec
CONSTANTS
  Threads = {t1, t2}
  Handles = {h1}
  Keys = {k1}
  Conns = {c1, c2}
  None = None
  MaxRefs = 2
  Reconnect = FALSE
  NicMayFail = TRUE
  VConns = {v1}
  Careless = {v1}
  Unprepared = {v1}
  LegacyKeys = {k1}
  PostMayFail = TRUE
INVARIANTS FreedOnce NoLeak
PROPERTIES Confined
