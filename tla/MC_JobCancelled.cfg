SPECIFICATION JobSpec
CONSTANTS
  Units = 1
  MaxTries = 1
  MaxCancels = 1
INVARIANT CancelledNotComplete
CHECK_DEADLOCK FALSE
