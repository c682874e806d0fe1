SPECIFICATION Spec
CONSTANTS
  Ips = {a}
  Second = 2
  DefaultLimit = 2
  DefaultWindow = 1
  LimitFields <- Limits
  WindowFields <- Windows
  Absent = Absent
  Bad = Bad
  MaxTime = 5
  MaxPassed = 3
  MaxSetBack = 3
INVARIANTS
  TypeOK
  NoUndercount
  NoOvercount
  SilenceHeals
