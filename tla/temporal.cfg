SPECIFICATION ClocksSpec
CONSTANTS
  Precision = 2
  MaxTicks = 450
  Starts <- MCStarts
INVARIANTS
  ZonesAgree
  StopwatchAgrees
  MidnightsAgree
CHECK_DEADLOCK FALSE
