CONSTANTS
  tenK = 1000
  Tokens = {1, 2, 3, 4}
  Pools = {1, 2, 3, 4, 5}
  topK = 2
  EvmTop = 3
  HopCap = 4
  WAVAX = 1
  oneAVAX = 20
  RateUnit = 1000
  ProbeScales <- MCScales
  PrescreenTop = 5
  AdjacentTop = 1
  VerifyTop = 4
  maxSizing = 2
  sizeFactor = 3
  sizeRounds = 2
  GasPerHop = 1
  baseFee = 1
  Lines <- MCLines
  Pools0 <- MCPools0
  Balance0 <- MCBalance0
  Approved0 = {1}
  Hubs <- MCHubs
  Sizes <- MCSizes
  Orders <- MCOrders
  Trades <- MCTrades
  ChanCap = 1
  MaxBlocks = 3
  MaxRestarts = 1
SPECIFICATION Spec
INVARIANTS SentHoldsOnChain OnePerBlock NoNonceGap SearchIsExact
CHECK_DEADLOCK FALSE
