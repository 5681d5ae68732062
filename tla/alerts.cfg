\* Two requests, at once or one after the other, and crashes anywhere.
CONSTANTS
  Alerts = {a1, a2, a3}
  Workers = {w1, w2}
  MaxCrashes = 2
SPECIFICATION Spec
SYMMETRY Symmetry
INVARIANTS RowsHaveTraces ServedMatchesFile
  AnsweredListedSerially SummaryAppendsSerially
CHECK_DEADLOCK FALSE
