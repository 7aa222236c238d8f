CONSTANTS
  Ids = {x, y}
  ManifestRetain = 3
  SegmentBlocks = 2
  MaxStamps = 4
  MaxDamage = 1
SPECIFICATION Spec
CHECK_DEADLOCK FALSE
SYMMETRY RetentionSymmetry
INVARIANTS IntactVerifies RetainedExact
PROPERTY PromotionHeals
