CONSTANTS
  Requests = {r1, r2}
  Kinds = {"create"}
  s1 = s1
  s2 = s2
  s3 = s3
  OldIds = {s1, s2, s3}
  InitialRooms <- Within
  MaxSessions = 2
SPECIFICATION Spec
SYMMETRY Symmetry
INVARIANTS
  Quota
CHECK_DEADLOCK FALSE
