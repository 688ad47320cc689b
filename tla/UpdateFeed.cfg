\* Deadlock is not checked: every task stops after ctrl_c.
SPECIFICATION FairSpec
CONSTANTS
  Pools <- MCPools
  Vaults <- MCVaults
  RingCap = 2
  NoAccount = NoAccount
  MaxWrites = 3
  MaxSent = 3
INVARIANTS
  TypeOK
  CacheIsLatestReceived
  SlotTrackerAhead
  QuiescentAgree
PROPERTIES
  EveryUpdateCachedOrMissed
  TasksStop
CHECK_DEADLOCK FALSE
