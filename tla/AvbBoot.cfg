SPECIFICATION Spec
CONSTANTS
  Depth = 4
  NoTag = NoTag
  Strides = {0}
  MAX_ROLLBACK_LOCATIONS = 1
  MaxIndex = 1
  MaxPriority = 2
  MaxRuns = 2
INVARIANTS
  CompletionAnswersCommand
  DoorbellsCurrent
  SectorReadIsSectorAsked
  LaunchedVerified
PROPERTIES
  BootEnds
CHECK_DEADLOCK FALSE
