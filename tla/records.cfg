SPECIFICATION HistorySpec
CONSTANTS
  Items = {i1, i2}
  First = i1
  Requests = {1, 2, 3}
  Nobody = Nobody
  Absent = Absent
  Torn = Torn
  Pending = Pending
  NotFound = NotFound
  Failed = Failed
  Lost = Lost
  MaxCrashes = 1
INVARIANT AnsweredStands
PROPERTY KeepsPromise
CHECK_DEADLOCK FALSE
