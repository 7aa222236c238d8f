CONSTANTS
  Ids = {x}
  Values = {u}
  Deleted = Deleted
  Absent = Absent
  Refused = Refused
  Failing = {}
  MaxCommits = 3
  MaxPending = 2
  MaxFailures = 0
  MaxCrashes = 2
SPECIFICATION Spec
CHECK_DEADLOCK FALSE
INVARIANT SyncedReopens
