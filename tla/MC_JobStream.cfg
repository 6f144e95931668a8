SPECIFICATION StreamFairSpec
CONSTANTS
  Units = 2
  MaxTries = 2
  MaxCancels = 1
INVARIANTS
  StreamTypeOK
  ToldTheTruth
PROPERTY PageSettles
CHECK_DEADLOCK FALSE
