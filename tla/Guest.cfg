SPECIFICATION GuestSpec
CONSTANTS
  GuestSubjects = {"interrupts", "traps"}
  Lines = {l1, e1}
  Level = {l1}
  MAX_LRS = 2
  ICC_SPURIOUS_INTID = spurious
  MaxRaises = 3
  GuestCores = {c1, c2}
  AtCommands = {"", "COPS"}
  OperatorSizes = {104, 105}
  MaxCommands = 2
  Hypercalls = {"accel", "mode_set_phone"}
INVARIANTS
  BackedByActive
  NoStuckActive
  AnswersOwnCommand
PROPERTIES
  RequestsKept
  RequestsServed
  ModemAnswers
CHECK_DEADLOCK FALSE
