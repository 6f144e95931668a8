SPECIFICATION DesSpec
CONSTANTS
  Strategies = 1
  Total = 7
  ChunkSizes = {2, 3, 4}
  Horizon = 3
  MaxFill = 2
  FillDelay = 1
  OrderDelay = 4
  Ticks <- MCTicks
  Prices <- MCPrices
  MorePrices <- MCMorePrices
  Cancels <- MCCancels
  EndTime = 100
INVARIANTS
  DesTypeOK
  TimeMonotonic
  NeverOversold
  AccountAgrees
  SoldByTheEnd
CHECK_DEADLOCK FALSE
