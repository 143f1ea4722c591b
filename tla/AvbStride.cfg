SPECIFICATION Spec
CONSTANTS
  Depth = 4
  NoTag = NoTag
  Strides = {0, 1}
  MAX_ROLLBACK_LOCATIONS = 1
  MaxIndex = 0
  MaxPriority = 1
  MaxRuns = 1
INVARIANT DoorbellsCurrent
CHECK_DEADLOCK FALSE
