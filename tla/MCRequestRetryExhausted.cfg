SPECIFICATION Spec
CONSTANTS
  PoolNames = {p1, p2}
  Endpoints = {e1, e2}
  MaxAttempts = 2
  FailThreshold = 1
  None = None
INVARIANTS ExhaustionReported
CHECK_DEADLOCK FALSE
