SPECIFICATION Spec
CHECK_DEADLOCK FALSE
CONSTANTS
  NoteIds = {1, 2, 3, 4}
  Titles = {1, 2}
  Limit = 1
  Precision = 2
  MaxTime = 4
  MaxWrites = 0
  Orders <- NewestCreated
  Seed <- MCSeed
INVARIANTS
  PagedWalkIsExact
