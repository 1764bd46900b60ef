SPECIFICATION Spec
CONSTANTS
  Workers = {w1}
  Latencies = {2, 10}
  MaxLatency = 10
  MaxRequests = 4
  Second = 20
  WarmupRequests = 3
  Penalties <- MCPenalties
INVARIANTS RateIsRatio
