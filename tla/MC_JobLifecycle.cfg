SPECIFICATION JobFairSpec
CONSTANTS
  Units = 2
  MaxTries = 2
  MaxCancels = 2
INVARIANTS
  JobTypeOK
  EndRecorded
PROPERTIES
  TerminalLeft
  JobEnds
CHECK_DEADLOCK FALSE
