\* A shipped calculation is saved with two layers, and reset.
CONSTANTS
  value = value mine = mine
  Ids = {value, mine}
  Shipped <- OneShipped
  Dirs = {1, 2}
  Workers = {w1}
SPECIFICATION Spec
INVARIANTS ResetRestoresOriginal
CHECK_DEADLOCK FALSE
