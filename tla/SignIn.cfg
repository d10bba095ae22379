SPECIFICATION Spec
CONSTANTS
  ann = ann
  bob = bob
  None = None
  Users = {ann, bob}
  MaxChanges = 1
  MaxReloads = 1
  MaxOther = 1
  MaxFlights = 2
  RetryLimit = 0
  Failures = TRUE
SYMMETRY Symmetry
INVARIANTS
  WellFormed
  ActsOnTheShownUser
  TabKnowsTheSession
