CONSTANTS
  tenK = 1000
  Tokens = {1, 2, 3}
  Pools = {1, 2, 3, 4, 5}
  topK = 3
  EvmTop = 5
  HopCap = 4
  maxLegs = 60
  maxDepth = 4
  V4PoolManager = 99
  WordRange = 1000
  Percent = 20
  SlabPct = 6
  SchedFrontLoaded <- MCFront
  SchedGradual <- MCGradual
  SchedShuffle2 <- MCShuffle2
  Scenarios <- MCScenarios
  Strategies = {"greedy", "fast", "front", "split", "dynamic", "compete", "recursive", "optimized", "v2", "v4", "waterfill", "max", "staged", "best"}
  Chunks = 4
  PoolInfo <- MCPoolInfo
SPECIFICATION Spec
INVARIANT HoppedSweepsAll
