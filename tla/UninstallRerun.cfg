SPECIFICATION Spec
CONSTANTS
  Platforms = {"windows"}
  MaxIndex = 2
  MaxProbed = 1
  Images = {r1}
  Absent = Absent
  Present = Present
  Torn = Torn
INVARIANT VariableGoneIsSuccess
