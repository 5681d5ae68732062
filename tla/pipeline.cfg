\* Three calculations, two requests at a time or single ones with demo steps, one crash.
CONSTANTS
  value = value window = window wash = wash
  w1 = w1 w2 = w2
  Dag <- Three
  Reads <- ThreeReads
  Workers = {w1, w2}
  Traffic <- Uses
  Versions = {old, new}
  MaxCrashes = 1
SPECIFICATION MCSpec
SYMMETRY Symmetry
INVARIANTS TablesAtRest StagesLeaveFresh 
