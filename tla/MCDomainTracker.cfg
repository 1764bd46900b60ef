SPECIFICATION Spec
CONSTANTS
  Recorders = {w1, w2}
  Readers = {r1, r2}
  Entries = {e1, e2, e3, e4, e5}
  TTL = 2
  Lag = 1
  MaxTime = 4
  None = None
SYMMETRY TrackerSymmetry
INVARIANTS PenaltyRemembered
