SPECIFICATION FairSpec
CONSTANTS
  Names = {a, b}
  Sessions = {s1}
  NumEndpoints <- PoolSizes
  MaxPools = 2
  New = New
  Closers = {c1, c2}
  None = None
INVARIANTS TypeOK Released CheckersSeeWholePools
PROPERTIES NothingStays CallsReturn
CHECK_DEADLOCK FALSE
