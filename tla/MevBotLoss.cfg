\* Deadlock is not checked: the bot stops after ctrl_c.
SPECIFICATION Spec
CONSTANTS
  MinProfit = 2
  MaxPosition = 2
  TipNum = 1
  TipDen = 2
  MinTip = 1
  MaxTip = 2
  Strategies <- MCStrategies
  Opportunities <- MCVetted
  ChannelCap = 1
  MaxUpdates = 1
  MaxBatch <- MCMaxBatch
  MaxBundles = 3
  Window = 2
  MaxLoss = 1
  MaxPending = 2
  Timeout = 0
  Ids = {b1}
  NoId = unknown
  MaxNow = 1
INVARIANT
  PausedAfterLoss
CHECK_DEADLOCK FALSE
