SPECIFICATION ResearchSpec
CONSTANTS
  None = None
  NumLevels = 2
  BaseQuantity = 2
  LobBucket = 2
  LobWindow = 2
  Prices = {100, 104}
  Volatilities = {2, 4}
  ArrivalPrice = 100
  Total = 5
  Gamma = 4
  Dust = 1
  MaxAge = 2
  Warmup = 1
  TargetBuckets = 2
  ChannelCapacity = 2
  Lines <- MCRegimeLines
  Lineup <- MCLineup
  SigmaRef = 2
  BaseChunk = 3
  ImpactCoefficient = 1
  DefaultHorizon = 1
  PlaceholderBucket = 3
  HorizonGrid <- MCHorizonGrid
  SliceGrid <- MCSliceGrid
  VolatilityGrid <- MCVolatilityGrid
  ImpactGrid <- MCImpactGrid
  ForceComplete = TRUE
INVARIANT LabelsAligned
