SPECIFICATION Spec

CONSTANTS
  Apps = {a1}
  Entities = {e1}
  Values = {v1}
  MaxEpochs = 2
  MaxSubs = 1
  MaxLists = 0

INVARIANTS
  UnsubscribeRemovesAll

CHECK_DEADLOCK FALSE
