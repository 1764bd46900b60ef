SPECIFICATION FairSpec
CONSTANTS
  Sessions = {s1, s2}
  Callers = {c1, c2, c3}
  Hurried = {c3}
  Limited = TRUE
  Pool = Pool
  Gone = Gone
  None = None
INVARIANTS OnePlace NeverFull ClosedIsEmpty RateLimitIsOwn
PROPERTIES LeaseSpec AcquireReturns CloseCompletes
