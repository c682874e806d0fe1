SPECIFICATION FairSpec
CONSTANTS
  Traffic <- UdpTraffic
  Buffers = {FALSE}
  Bytes = {1, 2}
  Builtins <- TcpBuiltins
  Search <- Occurs
  TRUST_K = 1
  MAX_BUFFER_BYTES = 2
  RateLimitable = {}
  Requests <- ProgressRequests
  RestThreads = {r1}
  SendCap = 1
  EventCap = 1
  SlowClients = TRUE
  BrokenClients = TRUE
  MaxAborts = 1
  Disconnects = TRUE
  Crashes = FALSE
PROPERTIES EveryHandlerReturns PuntEventually
