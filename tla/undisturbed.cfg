SPECIFICATION Spec
CONSTANTS
  Traffic <- TcpTraffic
  Buffers = {FALSE}
  Bytes = {1, 2}
  Builtins <- TcpBuiltins
  Search <- Occurs
  TRUST_K = 2
  MAX_BUFFER_BYTES = 2
  RateLimitable = {}
  Requests <- FlushRequests
  RestThreads = {r1}
  SendCap = 4
  EventCap = 1
  SlowClients = TRUE
  BrokenClients = TRUE
  MaxAborts = 1
  Disconnects = FALSE
  Crashes = TRUE
ACTION_CONSTRAINT NoSendWaits
INVARIANTS TrustEarned
