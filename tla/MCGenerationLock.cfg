\* Safety and liveness of the lock: three requests over two sessions.
CONSTANTS
  Requests = {r1, r2, r3}
  Sessions = {s1, s2}
  Free = Free
SPECIFICATION FairSpec
INVARIANTS
  TypeOK
  SingleFlight
  NoOrphanLock
  HolderIsStored
PROPERTIES
  LockTurnsOver
CHECK_DEADLOCK FALSE
