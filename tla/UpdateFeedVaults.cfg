SPECIFICATION Spec
CONSTANTS
  Pools <- MCPoolsWithVaults
  Vaults <- MCVaultsOfRaydium
  RingCap = 2
  NoAccount = NoAccount
  MaxWrites = 2
  MaxSent = 3
INVARIANT
  PoolsPriced
CHECK_DEADLOCK FALSE
