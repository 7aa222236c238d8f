CONSTANTS
  Ids = {x}
  Values = {u, v}
  Deleted = Deleted
  Absent = Absent
  Refused = Refused
  Failing = {"append", "prepare", "publish", "acknowledge", "sync", "truncate", "unlink"}
  MaxCommits = 3
  MaxPending = 2
  MaxFailures = 1
  MaxCrashes = 2
SPECIFICATION Spec
SYMMETRY StoreSymmetry
CHECK_DEADLOCK FALSE
INVARIANTS SyncedReopensFresh LogCoversMem
PROPERTY ImplementsDurableMap
