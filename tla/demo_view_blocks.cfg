\* Alerts are generated after a restore, nothing concurrent and no crash.
CONSTANTS
  Alerts = {a1, a2}
  Workers = {w1, p}
  Presenter = p
  MaxCrashes = 0
  CHECKPOINTS <- TwoCheckpoints
  OtherNames = {}
SPECIFICATION SerialSpec
PROPERTIES SavedIsAnswered
CHECK_DEADLOCK FALSE
