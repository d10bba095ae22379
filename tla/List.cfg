SPECIFICATION FairSpec
CONSTANTS
  Notes = {1, 2, 3, 4, 5, 6}
  Queries = {"all", "trash"}
  QueryOf <- SixQuery
  NewQuery = "all"
  PageSize = 2
  MaxWrites = 3
  Seed <- SixSeed
  Failures = TRUE
INVARIANTS
  WellFormed
  OnlyTheCurrentQuery
  NoGaps
  TwiceOnlyIfCreated
PROPERTIES
  SecondPageLoads
