CONSTANTS
  Threads = 2
  MaxBlocks = 5
  MaxImage = 4
SPECIFICATION Spec
CHECK_DEADLOCK FALSE
INVARIANTS IInv EveryBlockOnce TailCoversBlocks OpensExactly RepairsTail SendsNeverBlock
PROPERTY CallsReturn
