\* A presenter and a request that generates alerts, and a crash anywhere.
CONSTANTS
  Alerts = {a1, a2}
  Workers = {w1, p}
  Presenter = p
  MaxCrashes = 1
  CHECKPOINTS <- TwoCheckpoints
  OtherNames = {"mine"}
SPECIFICATION MCSpec
SYMMETRY Symmetry
INVARIANTS ListedIsSummary SnapshotsHaveTracesSerially
  IndexMatchesCheckpoint
CHECK_DEADLOCK FALSE
