SPECIFICATION Spec
CHECK_DEADLOCK FALSE
CONSTANTS
  None = None
  a1 = a1
  a2 = a2
  n1 = n1
  n2 = n2
  n3 = n3
  k1 = k1
  k2 = k2
  k3 = k3
  r1 = r1
  r2 = r2
  r3 = r3
  r4 = r4
  Users = {a1}
  NoteIds = {n1}
  Keys = {k1}
  Requests = {r1, r2}
  SeedNotes <- SeedActive
  SeedFiles <- OneFile
  Ops = {"delete"}
  RetryLimit = 0
PROPERTIES
  MoveIsRestorable
