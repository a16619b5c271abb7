CONSTANTS
  Keys = {"k1", "k2"}
  Dumped = {}
  BlockWrites = {{"k1"}, {"k2"}}
  Readers = {r1}
  MaxBlocks = 3
  MaxCalls = 2
SPECIFICATION Spec
INVARIANTS WrongOnlyWhere OnlyFirstLost
PROPERTY NobodyHangs
CHECK_DEADLOCK FALSE
