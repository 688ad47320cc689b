SPECIFICATION Spec
CONSTANTS
  U64 = 128
  Precision = 3
  Iterations = 50
  ClmmFee <- MCFee
  PhoenixFee <- MCFee
  OrcaFeeUnit = 10
  MeteoraFeeUnit = 10
  MeteoraReserve = 40
  PhoenixLots = 10
  Pools <- MCPools
  Mints <- MCMints
  Contents <- MCContents
  Anchors <- MCAnchors
  MinRatio <- MCRatio
  PublishEvery = 2
  MaxHops = 3
  MinProfit = 1
  MinInput = 3
  MaxInput = 20
  Slippage <- MCSlippage
  SwapSizes = {0}
  BackrunHops = 3
  MinTradeSize = 0
  BackrunMinProfit = 1
  BackrunStart = 4
  BackrunSlippage <- MCSlippage
  Rounding = 1
  MaxUpdates = 3
INVARIANTS
  TypeOK
  QuotesKeepProduct
  InverseQuoteSuffices
  OpportunitiesAddUp
  PricedFromTheCache
  EveryCycleJudged
  NothingMissed
  SnapshotLags
CHECK_DEADLOCK FALSE
