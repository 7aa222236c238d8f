CONSTANTS
  Names = {m}
  Data = {d}
  Readers = {}
  Grace = 1
  MaxSeq = 3
  MaxStaged = 2
  LastBlock = 5
  MaxFaults = 2
  Torn = Torn
  Hole = Hole
  Unwritten = Unwritten
  NoMember = NoMember
SPECIFICATION Spec
CHECK_DEADLOCK FALSE
INVARIANTS FullInv PowerLossRecovers HandleMirrorsSelection
PROPERTIES ImplementsPublication
