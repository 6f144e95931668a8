SPECIFICATION SchedulerFairSpec
CONSTANTS
  TotalNotional = 7
  SlippageRate = 2
  EmergencyReserve = 3
  TwapSlice = 2
  Horizon = 3
  HeuristicChunks = {1, 2, 3, 5}
  Conditions <- MCConditions
  None = None
INVARIANTS
  SchedulerTypeOK
  RiskBounds
  FairShareGranted
  InventoryAccounted
  OnSchedule
PROPERTIES
  ImplementsOrder
  UngatedCompletes
CHECK_DEADLOCK FALSE
