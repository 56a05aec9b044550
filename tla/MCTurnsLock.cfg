CONSTANTS
  Requests = {r1, r2}
  Kinds = {"edit", "resume"}
  Faults = {"raise", "crash", "gone", "lapse"}
  InitialRows <- OnlyLegacy
  RecentMessages = 3
  Free = Free
  NoRow = NoRow
  NoCache = NoCache
  NoLlm = NoLlm
  Old = Old
SPECIFICATION FairSpec
PROPERTIES
  ImplementsLock
  RunsEnd
  SessionFreed
CHECK_DEADLOCK FALSE
