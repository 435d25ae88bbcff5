SPECIFICATION Spec

CONSTANTS
  Apps = {a1}
  Domains = {"sensor", "number", "camera"}
  Keys = {1, 2}
  Names = {"n", "m"}
  Profiles <- Readers

INVARIANTS
  ReadIsReported

CHECK_DEADLOCK FALSE
