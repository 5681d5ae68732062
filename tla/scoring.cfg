\* Two models, three settings, at most two saves or resets.
CONSTANTS
  Models <- MCModels
  Shipped <- MCShipped
  Saveable <- MCSaveable
  Queries <- MCQueries
  MaxSaves = 2
SPECIFICATION Spec
INVARIANTS GatesHold LostForCause DecidedBySettings MoreFiresToo
CHECK_DEADLOCK FALSE
