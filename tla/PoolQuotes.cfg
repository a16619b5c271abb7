CONSTANTS
  Q96 = 256
  Q32 = 16
  Magics <- MCMagics
  MaxTick = 12
  Mil = 1000
  WordBits = 4
  bitmapRadius <- MCRadius
  maxSwapSteps = 20
  v3GasLimit = 560
  evmGasLimit = 500
  v4Radius = 2
  algebraGasLimit = 4800
  pendingThreshold = 100
  TreeBits = 3
  realIDShift = 13
  bpMax = 100
  precision = 1000
  feeUnit = 1
  varFeeDiv = 100000
  mask20 = 1000
  TimeRange = 1000
  Word64 = 1000000000
  ONE = 100
  e18 = 100
  U256 = 2000000000
  feeBase = 100
  NewtonRounds = 25
  woo1e18 = 1000
  wooPriceDec = 100
  wooFeeBase = 100
  wooTokenDecimals <- MCDecimals
  wooActiveTokens = {"USDC", "WAVAX", "BTC"}
  wooNative = "native"
  wooWavax = "WAVAX"
  wad = 100
  SqrtRounds = 20
  SqrtMax = 120
  Prices = {0, 300}
  Pools0 <- MCPools
  MaxTrades = 3
  Amounts = {1, 5, 17, 60}
  Layouts = {"standard", "proxy", "pangolinReward", "pharaohV1"}
SPECIFICATION Spec
INVARIANTS LayoutDetected V3Lossless V4MatchesV3 LbKeepsValue PaysFromReserve DodoMonotone SolidlyAccepted WombatSqrtExact
CHECK_DEADLOCK FALSE
