SPECIFICATION RlSpec
CONSTANTS
  Modes = {"synthetic", "historical", "counterfactual"}
  Protocols = {0, 2}
  Snapshots = 6
  Depth <- MCDepth
  SyntheticDepth = 2
  Sizes = {3, 4}
  Horizons = {3, 6}
  DustShare = 4
  TwapBaseline = TRUE
  MaxEpisodes = 2
  MaxSteps = 7
INVARIANTS
  ImpactOfSales
CHECK_DEADLOCK FALSE
