SPECIFICATION Spec
CONSTANTS
  Traffic <- MixedTraffic
  Buffers = {FALSE}
  Bytes = {1, 2}
  Builtins <- TcpBuiltins
  Search <- Occurs
  TRUST_K = 2
  MAX_BUFFER_BYTES = 2
  RateLimitable = {}
  Requests <- PortRequests
  RestThreads = {r1, r2}
  SendCap = 1
  EventCap = 1
  SlowClients = FALSE
  BrokenClients = TRUE
  MaxAborts = 1
  Disconnects = TRUE
  Crashes = TRUE
SYMMETRY RequestSymmetry
INVARIANTS TrustAccounting PuntRuleKept
