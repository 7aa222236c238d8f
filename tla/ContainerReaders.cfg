CONSTANTS
  Names = {m}
  Data = {d}
  Readers = {r}
  Grace = 1
  MaxSeq = 3
  MaxStaged = 1
  LastBlock = 6
  MaxFaults = 1
  Torn = Torn
  Hole = Hole
  Unwritten = Unwritten
  NoMember = NoMember
SPECIFICATION Spec
CHECK_DEADLOCK FALSE
INVARIANTS ReadersWithinGraceExact ReadersOpenRecentState
