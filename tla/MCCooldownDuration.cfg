SPECIFICATION Spec
CONSTANTS
  MaxInt = 127
  DefaultPeriod = 2
  DefaultCap = 40
  TierBound = 7
INVARIANTS WithinDocumentedBounds
PROPERTIES Doubles
