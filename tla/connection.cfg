SPECIFICATION FairSpec
CONSTANTS
  Supported <- Versions
  Hellos <- SomeHellos
  SendCap = 1
  EventCap = 1
  WireCap = 1
INVARIANTS
  TypeOK
  SlotsAccounted
  NoForgottenWaiter
  FeaturesFirst
PROPERTIES
  ImplementsLink
  EveryThreadReturns
  HandshakeEnds
CHECK_DEADLOCK FALSE
