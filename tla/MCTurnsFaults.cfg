CONSTANTS
  Requests = {r1, r2, r3}
  Kinds = {"post", "edit", "resume"}
  Faults = {"raise", "gone"}
  InitialRows <- OnlyCompacted
  RecentMessages = 3
  Free = Free
  NoRow = NoRow
  NoCache = NoCache
  NoLlm = NoLlm
  Old = Old
SPECIFICATION Spec
SYMMETRY Symmetry
INVARIANTS
  ReplyFollowsQuestion
  NoUnearnedReply
  AgentSeesQuestion
PROPERTIES
  HistoryOnlyGrows
  DoneMeansSaved
CHECK_DEADLOCK FALSE
