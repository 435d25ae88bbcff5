SPECIFICATION FairSpec

CONSTANTS
  w1 = w1
  w2 = w2
  Apps = {w1, w2}
  Peers = {p1, p2}
  MaxCalls = 2
  MaxRedials = 1
  Profiles <- AllProfiles

INVARIANTS
  TypeOK
  SoloNoPanic
  HandlersReleased
  OwnPeer
  ListComplete
  QuietWhenUnheard

PROPERTIES
  CallReturns
  SoloDispatchEnds
  LossEndsWaits

CHECK_DEADLOCK FALSE
