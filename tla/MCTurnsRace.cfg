CONSTANTS
  Requests = {r1, r2}
  Kinds = {"post", "get"}
  Faults = {}
  InitialRows <- OnlyLegacy
  RecentMessages = 3
  Free = Free
  NoRow = NoRow
  NoCache = NoCache
  NoLlm = NoLlm
  Old = Old
SPECIFICATION Spec
PROPERTIES
  UserMessageStays
CHECK_DEADLOCK FALSE
