SPECIFICATION Spec
CONSTANTS
  MaxAttempts = 2
  Nil = Nil
INVARIANTS TypeOK HeadersDecide DisabledIsSilent ForeignStaysForeign OwnWordsFit WrappingKeepsTransient
PROPERTIES NestedExhaustionStops
CHECK_DEADLOCK FALSE
