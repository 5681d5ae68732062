SPECIFICATION Spec
CONSTANTS
  Views <- MCViews
  Items = {i1, i2}
  NoItem = NoItem
  Told <- MCTold
  LeftStale <- MCLeftStale
  LeftBehind <- MCLeftBehind
  Cancelled <- MCCancelled
  MaxPlay = 2
  MaxActs = 4
  MaxCalls = 1
INVARIANTS FlagsHaveCalls OwnChangesShown ShownOfChosen
PROPERTY Settles
CHECK_DEADLOCK FALSE
