SPECIFICATION Spec
CHECK_DEADLOCK FALSE
CONSTANTS
  None = None
  u1 = u1
  u2 = u2
  e1 = e1
  e2 = e2
  r1 = r1
  r2 = r2
  r3 = r3
  c1 = c1
  c2 = c2
  UserIds = {u1}
  Emails = {e1, e2}
  Codes = {c1}
  Requests = {r1, r2, r3}
  MaxAttempts = 1
  Seed <- OneUser
  Ops = {"login", "request", "confirm"}
SYMMETRY RequestSymmetry
INVARIANTS
  OldEmailMintsNothing
