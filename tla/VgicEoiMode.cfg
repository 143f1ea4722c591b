SPECIFICATION ForwardSpec
CONSTANTS
  Lines = {l1, e1}
  Level = {l1}
  MAX_LRS = 2
  ICC_SPURIOUS_INTID = spurious
  MaxRaises = 3
PROPERTY EoiKeepsActive
CHECK_DEADLOCK FALSE
