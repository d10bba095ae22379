SPECIFICATION FairSpec
CONSTANTS
  a = a
  b = b
  i1 = i1
  i2 = i2
  None = None
  Notes = {a, b}
  Editors = {i1, i2}
  MaxEdits = 3
  Failures = TRUE
INVARIANTS
  WellFormed
  MisfiledOnlyBehindASave
  LostEditExplained
PROPERTIES
  SavesInOrder
  SaverEnds
