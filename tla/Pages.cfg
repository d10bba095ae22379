SPECIFICATION FairSpec
CHECK_DEADLOCK FALSE
CONSTANTS
  NoteIds = {1, 2, 3, 4}
  Titles = {1, 2}
  Limit = 2
  Precision = 2
  MaxTime = 4
  MaxWrites = 2
  Orders <- EveryOrder
  Seed <- MCSeed
INVARIANTS
  ExactUpToTheMillisecond
  ErrsToOneSide
PROPERTIES
  WalkEnds
