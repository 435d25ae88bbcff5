SPECIFICATION HalfSpec

CONSTANTS
  Writers = {w1, w2}
  Sizes = {"empty", "usual", "huge"}
  MaxSends = 2
  Buffer = 2
  DeviceNames = {"n1", "n2"}
  Minors = {9, 12}
  MaxAttempts = 2

INVARIANTS
  BothTypeOK
  FramesArriveWhole
  RefusedIsTooLarge
  UpIsAgreed
  NothingLeftBehind

PROPERTIES
  SendReturns
  TimeoutBoundsDial

CHECK_DEADLOCK FALSE
