SPECIFICATION Spec

CONSTANTS
  MaxAttempts = 3
  Apps = {a1, a2}
  Calls = {"Close", "Disconnect"}
  Reconnect = TRUE
  Keepalive = FALSE
  BadFrames = FALSE
  ParentCancels = TRUE

INVARIANTS
  TypeOK
  OneDriver
  ReaderOwnsFramer
  ConnectedHasReader
  DoneClosedOnce
  SilentClose
  NoOrphan
  CancelBoundsRetries

PROPERTIES
  ImplementsSession

CHECK_DEADLOCK FALSE
