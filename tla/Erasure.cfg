CONSTANTS
  Ids = {x, y}
  Pieces = {P}
  Values = {{P}}
  Deleted = Deleted
  Absent = Absent
  Unreadable = Unreadable
  Refused = Refused
  Failing = {"acknowledge"}
  MaxCommits = 6
  MaxPending = 2
  MaxWork = 3
  MaxFailures = 1
  MaxCrashes = 1
SPECIFICATION ErasureSpec
SYMMETRY ErasureSymmetry
CHECK_DEADLOCK FALSE
INVARIANTS TombstonesStand
PROPERTIES CompletedErasureErases
