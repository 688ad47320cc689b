SPECIFICATION Spec
CONSTANTS
  Pools <- MCPools
  Mints <- MCMints
  MintsOf <- MCMintsOf
  FeeOf <- MCFeeOf
  Amounts = {0, 1}
  NoReserve = NoReserve
  Infinite = Infinite
  Anchors = {"SOL", "USDC"}
  MaxHops = 3
  MinGain = 0
INVARIANTS
  TypeOK
  TablesAgree
  DfsExact
  BellmanFordSound
PROPERTIES
  IndicesStayValid
  ImplementsBoard
