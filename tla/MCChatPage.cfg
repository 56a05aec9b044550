CONSTANTS
  Sessions = {s1, s2}
  MaxStreams = 2
  MaxLoads = 3
SPECIFICATION Spec
CONSTRAINT Judged
SYMMETRY Symmetry
INVARIANTS
  TypeOK
  RunsAtHome
  StopReachesStream
  NothingVanishes
CHECK_DEADLOCK FALSE
