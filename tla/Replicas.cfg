SPECIFICATION FairSpec
CONSTANTS
  r1 = r1
  r2 = r2
  q1 = q1
  q2 = q2
  q3 = q3
  None = None
  Redis = Redis
  Replicas = {r1, r2}
  Requests = {q1, q2}
  Limit = 1
  MaxFaults = 2
  MaxSignals = 1
INVARIANTS
  ServesOnlyWhenReady
  LimitHolds
PROPERTIES
  NobodyWaitingIsCutOff
  EventuallyServes
  ShutdownEnds
CHECK_DEADLOCK FALSE
