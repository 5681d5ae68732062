\* Every dependency graph over three calculations and one unknown id, with
\* every assignment of two layers.
CONSTANTS
  CalcMap = {c1, c2, c3}
  Unknown = {u}
  Layers = {1, 3}
SPECIFICATION DagSpec
PROPERTIES Ends
INVARIANTS VisitsInDependencyOrder RaisedIffCycle
  LayeredDagInDependencyOrder
CHECK_DEADLOCK FALSE
