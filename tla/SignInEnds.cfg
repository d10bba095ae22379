SPECIFICATION FairSpec
CONSTANTS
  ann = ann
  bob = bob
  None = None
  Users = {ann}
  MaxChanges = 1
  MaxReloads = 1
  MaxOther = 1
  MaxFlights = 2
  RetryLimit = 1
  Failures = TRUE
PROPERTIES
  NothingHangs
