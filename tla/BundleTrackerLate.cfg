\* Deadlock is not checked: the tracker is a passive object, its caller may stop.
SPECIFICATION FairSpec
CONSTANTS
  MaxPending = 2
  Timeout = 1
  Ids = {b1, b2}
  NoId = unknown
  Trades <- MCTrades
  MaxNow = 3
  MaxTracked = 3
PROPERTY
  FailedIsNotConfirmed
CHECK_DEADLOCK FALSE
