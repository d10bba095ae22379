SPECIFICATION Spec
CONSTANTS
  a = a
  b = b
  None = None
  Notes = {a, b}
  Titles = {0, 1}
  Seed <- TwoSeed
  MaxUpdates = 2
  MaxScopes = 2
  Failures = TRUE
INVARIANTS
  WellFormed
  CacheMatchesApi
  ListMatchesApi
  OrderMatchesApi
