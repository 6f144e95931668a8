SPECIFICATION DesSpec
CONSTANTS
  Strategies = 2
  Total = 4
  ChunkSizes = {2}
  Horizon = 2
  MaxFill = 2
  FillDelay = 1
  OrderDelay = 4
  Ticks <- MCTicks
  Prices = {}
  MorePrices = {}
  Cancels = {}
  EndTime = 100
INVARIANT CompleteHasSold
CHECK_DEADLOCK FALSE
