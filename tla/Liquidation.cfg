SPECIFICATION Spec
CONSTANTS
  U64 = 32
  Tokens <- MCTokens
  PoolAddresses <- MCPools
  Tasks <- MCTasks
  Paths <- MCPaths
  InitialLists <- MCInitial
  NoLists = NoLists
  MaxChanges = 2
  Scale = 2
  ShareUnit = 2
  LengthSize = 1
  CollateralSize = 2
  LiquiditySize = 3
  MaxItems = 2
  MaxBalances = 2
  BpsUnit = 10000
  BonusOf <- MCBonus
  MinBonus = 200
  MinBorrowValue = 2
  NoMint = "DEFAULT"
  Accounts <- MCAccounts
  DexPaths <- MCDexPaths
  NoAccount = NoAccount
INVARIANTS
  TypeOK
  VerdictsJustified
  OffersOnlyUnderwater
