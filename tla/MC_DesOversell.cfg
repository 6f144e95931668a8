SPECIFICATION DesSpec
CONSTANTS
  Strategies = 1
  Total = 7
  ChunkSizes = {2, 3}
  Horizon = 3
  MaxFill = 2
  FillDelay = 1
  OrderDelay = 4
  Ticks <- MCTicks
  Prices = {}
  MorePrices = {}
  Cancels = {}
  EndTime = 100
INVARIANT NeverOversold
CHECK_DEADLOCK FALSE
