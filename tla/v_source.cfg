SPECIFICATION Spec
CONSTANTS
  Traffic <- PairTraffic
  Buffers = {FALSE}
  Bytes = {1, 2}
  Builtins <- TcpBuiltins
  Search <- Occurs
  TRUST_K = 2
  MAX_BUFFER_BYTES = 2
  RateLimitable = {}
  Requests <- BlockRequests
  RestThreads = {r1}
  SendCap = 2
  EventCap = 1
  SlowClients = FALSE
  BrokenClients = FALSE
  MaxAborts = 1
  Disconnects = FALSE
  Crashes = FALSE
INVARIANTS BlockedSourceNotForwarded
