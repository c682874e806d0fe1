SPECIFICATION Spec
CONSTANTS
  BuiltinNames <- Builtin
  Strip <- StripBlank
  ValidNames = {"sql"}
  ValidBodies = {"x"}
  Compiles = {"x"}
  MAX_USER_PATTERNS = 1
  RestThreads = {r1}
  Requests <- NoRequests
  Clients = {c1, c2, c3}
  Switches = {}
  MaxHandshakes = 3
  MaxEvents = 1
  LogCap = 1
INVARIANTS
  EveryEventBroadcast
CHECK_DEADLOCK FALSE
