SPECIFICATION Spec

CONSTANTS
  Apps = {a1, a2}
  Entities = {e1, e2}
  Values = {v1, v2}
  MaxEpochs = 2
  MaxSubs = 1
  MaxLists = 1

INVARIANTS
  TypeOK
  CacheCurrent
  SavedIsSubscribed

SYMMETRY StatesSymmetry
CHECK_DEADLOCK FALSE
