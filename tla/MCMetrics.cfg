SPECIFICATION Spec
CONSTANTS
  Workers = {w1, w2, w3}
  Latencies = {2, 10}
  MaxLatency = 10
  MaxRequests = 4
  Second = 20
  WarmupRequests = 3
  Penalties <- MCPenalties
SYMMETRY WorkerSymmetry
INVARIANTS TypeOK NoSampleLost CountsAgree ReadingsFit LiftIsBounded
