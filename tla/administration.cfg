SPECIFICATION Spec
CONSTANTS
  BuiltinNames <- Builtin
  Strip <- StripBlank
  ValidNames = {"a", "b", "sql"}
  ValidBodies = {"x", "("}
  Compiles = {"x"}
  MAX_USER_PATTERNS = 1
  RestThreads = {r1}
  Requests <- AllRequests
  Clients = {c1, c2}
  Switches = {s1, s2, s3}
  MaxHandshakes = 3
  MaxEvents = 2
  LogCap = 2
SYMMETRY Symmetry
INVARIANTS
  TypeOK
  RegistrySound
  EventsInOrder
  MissedOnlyWhenDisturbed
PROPERTIES
  OkMeansFlushed
CHECK_DEADLOCK FALSE
