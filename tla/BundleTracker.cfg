\* Deadlock is not checked: the tracker is a passive object, its caller may stop.
SPECIFICATION FairSpec
CONSTANTS
  MaxPending = 2
  Timeout = 1
  Ids = {b1, b2}
  NoId = unknown
  Trades <- MCTrades
  MaxNow = 3
  MaxTracked = 3
INVARIANTS
  TypeOK
  OldestFirst
  OneOutcomeEach
  LandedIsConfirmed
  LostOnlyUnderLoad
PROPERTIES
  ImplementsLedger
  EveryBundleSettles
CHECK_DEADLOCK FALSE
