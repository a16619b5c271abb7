CONSTANTS
  Size = 2
  Callers = {c1, c2}
  Params = {"latest", "pinned"}
  PinnedAt <- MCPinnedAt
  MaxHead = 1
  MaxDials = 2
  MaxCalls = 3
SPECIFICATION Spec
INVARIANTS NobodyStranded AnswersReal
PROPERTY CallsReturn
CHECK_DEADLOCK FALSE
