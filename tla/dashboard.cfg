SPECIFICATION FairSpec
CONSTANTS
  Panels <- AllPanels
  FetchCap = 2
  DomCap = 3
  MaxStats = 2
  MaxEvents = 3
  MaxDue = 2
  MaxCalls = 2
INVARIANTS
  TypeOK
  LatestShown
  ListShown
PROPERTIES
  StatsCatchUp
