CONSTANTS
  FrameLimit = 4
  Mutations = {a, b}
  Seqs = {1}
  MaxBatch = 2
  MaxFaults = 1
SPECIFICATION Spec
SYMMETRY WalSymmetry
CHECK_DEADLOCK FALSE
INVARIANTS CrashReplays AcceptedIsReplayed
PROPERTY ImplementsDurableLog
