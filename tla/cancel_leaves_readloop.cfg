SPECIFICATION FairSpec

CONSTANTS
  MaxAttempts = 1
  Apps = {a1}
  Calls = {"Disconnect"}
  Reconnect = FALSE
  Keepalive = FALSE
  BadFrames = FALSE
  ParentCancels = TRUE

PROPERTIES
  CancelStopsReadLoop

CHECK_DEADLOCK FALSE
