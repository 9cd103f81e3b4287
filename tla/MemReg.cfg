SPECIFICATION Spec
CONSTANTS
  Threads = {t1, t2}
  Pids = {p1, p2}
  LegacyPids = {p2}
  Buffers = {b1, b2}
  Addrs = {a1, a2, a3}
  Lkeys = {l1, l2}
  MaxPieces = 3
  None = None
  MayFail = TRUE
SYMMETRY Symmetry
INVARIANTS TypeOK LkeyFresh HeldUsable PostHitsPiece
