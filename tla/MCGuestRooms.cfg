CONSTANTS
  Requests = {r1, r2, r3}
  Kinds = {"create", "post", "login"}
  s1 = s1
  s2 = s2
  s3 = s3
  OldIds = {s1, s2, s3}
  InitialRooms <- Tables
  MaxSessions = 2
SPECIFICATION Spec
CONSTRAINT FewPosts
SYMMETRY Symmetry
INVARIANTS
  TypeOK
  HashesHaveRows
PROPERTIES
  SerialQuota
  OldestGoFirst
CHECK_DEADLOCK FALSE
