\* A shipped calculation and one of the user's, two layers, two requests.
CONSTANTS
  value = value mine = mine
  Ids = {value, mine}
  Shipped <- OneShipped
  Dirs = {1, 2}
  Workers = {w1, w2}
SPECIFICATION Spec
INVARIANTS OriginalsPreserved LoadedIsListed DependenciesDefinedSerially
  TrailTellsFileSerially
CHECK_DEADLOCK FALSE
