SPECIFICATION EngineFairSpec
CONSTANTS
  TotalNotional = 3
  SlippageRate = 2
  EmergencyReserve = 1
  TwapSlice = 1
  Horizon = 2
  HeuristicChunks = {1, 2}
  Conditions <- MCConditions
  None = None
  MaxRetries = 2
  MaxBlock = 4
INVARIANTS
  EngineTypeOK
  CountersAgree
  PublishedLags
  StopTakesEffect
PROPERTY NewBlockSeen
CHECK_DEADLOCK FALSE
