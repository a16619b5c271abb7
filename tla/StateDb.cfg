CONSTANTS
  MaxBlock = 2
  Focus = {{"slot"}, {"balance"}, {"nonce"}, {"code"}}
  Depth = 3
  Foreign = 3
  Word = 5
  Absent = Absent
SPECIFICATION Spec
INVARIANTS ReplicaIsChain OverlaysAnswer
CHECK_DEADLOCK FALSE
