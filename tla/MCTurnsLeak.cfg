CONSTANTS
  Requests = {r1}
  Kinds = {"edit"}
  Faults = {"raise"}
  InitialRows <- OnlyPlain
  RecentMessages = 3
  Free = Free
  NoRow = NoRow
  NoCache = NoCache
  NoLlm = NoLlm
  Old = Old
SPECIFICATION Spec
INVARIANTS
  OnlyTheDeadHoldOn
CHECK_DEADLOCK FALSE
