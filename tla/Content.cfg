CONSTANTS
  Ids = {x}
  Pieces = {P, Q}
  Values = {{P}, {P, Q}}
  Deleted = Deleted
  Absent = Absent
  Unreadable = Unreadable
  Refused = Refused
  Failing = {"fold", "prepare", "publish", "acknowledge"}
  MaxCommits = 3
  MaxPending = 2
  MaxWork = 3
  MaxFailures = 1
  MaxCrashes = 1
SPECIFICATION Spec
CHECK_DEADLOCK FALSE
INVARIANTS AuthorityReadable FreshLogReopens
PROPERTIES ImplementsDurableMap MaintenanceInvisible
