CONSTANTS
  Requests = {r1}
  Kinds = {"post"}
  Faults = {}
  InitialRows <- OnlyPlain
  RecentMessages = 3
  Free = Free
  NoRow = NoRow
  NoCache = NoCache
  NoLlm = NoLlm
  Old = Old
SPECIFICATION Spec
INVARIANTS
  AgentFailureSurfaces
CHECK_DEADLOCK FALSE
