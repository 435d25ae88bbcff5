SPECIFICATION Spec

CONSTANTS
  MaxAttempts = 2
  Apps = {a1}
  Calls = {"Close"}
  Reconnect = TRUE
  Keepalive = FALSE
  BadFrames = FALSE
  ParentCancels = FALSE

INVARIANTS
  ClosedStaysClosed

CHECK_DEADLOCK FALSE
