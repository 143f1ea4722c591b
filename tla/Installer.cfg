SPECIFICATION Spec
SYMMETRY Symmetry
CONSTANTS
  Platforms = {"linux", "windows"}
  MaxIndex = 2
  MaxProbed = 1
  Images = {r1, r2}
  Absent = Absent
  Present = Present
  Torn = Torn
INVARIANTS
  OrderWithoutRepetition
  EntryLeadsToBinaries
PROPERTIES
  RecordDeletedLast
  ActiveSlotUntouched
  OthersKept
