SPECIFICATION HistorySpec
CONSTANTS
  Items = {1, 2}
  Shipped = {1}
  None = None
  Kinds <- MCKinds
  MaxEdits = 3
  MaxFailures = 1
  MaxCalls = 2
  MaxSlips = 1
INVARIANTS DeletesWhatWasAsked ShownIsStored SentItemsComplete
PROPERTY SavesKeepEdits
CHECK_DEADLOCK FALSE
