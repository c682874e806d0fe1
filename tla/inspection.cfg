SPECIFICATION Spec
CONSTANTS
  Traffic <- TcpTraffic
  Buffers = {FALSE}
  Bytes = {1, 2}
  Builtins <- TcpBuiltins
  Search <- Occurs
  TRUST_K = 2
  MAX_BUFFER_BYTES = 2
  RateLimitable = {}
  Requests <- TcpRequests
  RestThreads = {r1}
  SendCap = 1
  EventCap = 1
  SlowClients = TRUE
  BrokenClients = TRUE
  MaxAborts = 1
  Disconnects = TRUE
  Crashes = FALSE
INVARIANTS TypeOK CleanBuffers TrustAccounting
PROPERTIES BlockedEarnsNothing
