SPECIFICATION Spec

CONSTANTS
  Apps = {a1}
  Domains = {"sensor", "number", "camera"}
  Keys = {1, 2}
  Names = {"n", "m"}
  Profiles <- AllProfiles

INVARIANTS
  TypeOK
  IndexesAgree
  HandlerSeesState
  ImagesWhole
  RefusedForCause

PROPERTIES
  ImplementsTable
  DetachedStayStill
  RequestsFit

CHECK_DEADLOCK FALSE
