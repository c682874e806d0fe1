SPECIFICATION Spec
CONSTANTS
  Traffic <- ArpTraffic
  Buffers = {TRUE, FALSE}
  Bytes = {1, 2}
  Builtins <- TcpBuiltins
  Search <- Occurs
  TRUST_K = 2
  MAX_BUFFER_BYTES = 2
  RateLimitable = {1}
  Requests <- NoRequests
  RestThreads = {r1}
  SendCap = 1
  EventCap = 1
  SlowClients = FALSE
  BrokenClients = FALSE
  MaxAborts = 1
  Disconnects = TRUE
  Crashes = FALSE
PROPERTIES BindingKept
