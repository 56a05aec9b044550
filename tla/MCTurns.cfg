CONSTANTS
  Requests = {r1, r2, r3}
  Kinds = {"post", "compact", "edit", "resume", "get", "evict"}
  Faults = {"expire"}
  InitialRows <- NewOrUsed
  RecentMessages = 3
  Free = Free
  NoRow = NoRow
  NoCache = NoCache
  NoLlm = NoLlm
  Old = Old
SPECIFICATION Spec
SYMMETRY Symmetry
INVARIANTS
  TypeOK
  ReplyFollowsQuestion
  AgentSeesHistory
  CacheMirrors
PROPERTIES
  HistoryOnlyGrows
  DoneMeansSaved
CHECK_DEADLOCK FALSE
