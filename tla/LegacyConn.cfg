SPECIFICATION LegacySpec
CONSTANTS
  Threads = {t1, t2}
  Handles = {h1}
  Keys = {k1, k2}
  Conns = {c1, c2}
  None = None
  MaxRefs = 2
  Reconnect = TRUE
  NicMayFail = TRUE
  VConns = {v1}
  Careless = {v1}
  Unprepared = {}
  LegacyKeys = {k1}
  PostMayFail = TRUE
INVARIANTS LegacyTypeOK CountsBoth MapsAgree PointersHold
