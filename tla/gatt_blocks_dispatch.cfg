SPECIFICATION FairSpec

CONSTANTS
  w1 = w1
  w2 = w2
  Apps = {w1, w2}
  Peers = {p1}
  MaxCalls = 1
  MaxRedials = 0
  Profiles <- TwoReaders

PROPERTIES
  DispatchEnds

CHECK_DEADLOCK FALSE
