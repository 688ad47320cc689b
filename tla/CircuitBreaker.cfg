SPECIFICATION Spec
CONSTANTS
  Window = 2
  MaxLoss = 2
  Results <- MCResults
  MaxNow = 5
  MaxTrades = 4
INVARIANTS
  TypeOK
  NothingInWindowDropped
  TrippedIffBreached
