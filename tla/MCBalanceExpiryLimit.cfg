CONSTANTS
  p1 = p1  p2 = p2
  b = b
  Batch = b
  Entry <- MCEntry
  Proc <- MCOne
  Limit = 1
  MaxAmount = 1
  MaxClock = 2
  MaxFaults = 0
SPECIFICATION FairSpec
PROPERTY BacklogDrains
CHECK_DEADLOCK FALSE
