SPECIFICATION EitherSpec

CONSTANTS
  MaxAttempts = 2
  Apps = {a1}
  Calls = {"Close"}
  Reconnect = TRUE
  Keepalive = TRUE
  BadFrames = FALSE
  ParentCancels = FALSE

PROPERTIES
  PlainCloseStops
  LossIsRetried
  DeadConnectionEnds
  CancelStopsLoops

CHECK_DEADLOCK FALSE
