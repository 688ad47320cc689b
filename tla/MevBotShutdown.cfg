\* Deadlock is not checked: the bot stops after ctrl_c.
SPECIFICATION FairSpec
CONSTANTS
  MinProfit = 2
  MaxPosition = 2
  TipNum = 1
  TipDen = 2
  MinTip = 1
  MaxTip = 2
  Strategies <- MCStrategies
  Opportunities <- MCVetted
  ChannelCap = 1
  MaxUpdates = 1
  MaxBatch <- MCMaxBatch
  MaxBundles = 1
  Window = 2
  MaxLoss = 2
  MaxPending = 1
  Timeout = 0
  Ids = {b1}
  NoId = unknown
  MaxNow = 1
PROPERTIES
  SendersResume
  ShutdownStopsTasks
CHECK_DEADLOCK FALSE
