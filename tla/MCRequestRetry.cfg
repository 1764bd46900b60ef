SPECIFICATION FairSpec
CONSTANTS
  PoolNames = {p1, p2}
  Endpoints = {e1, e2}
  MaxAttempts = 3
  FailThreshold = 2
  None = None
INVARIANTS TypeOK ErrorExplains
PROPERTIES SelectionFresh CallSpec CallReturns
CHECK_DEADLOCK FALSE
