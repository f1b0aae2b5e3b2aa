CONSTANTS
  p1 = p1  p2 = p2
  b = b
  Batch = b
  Entry <- MCEntry
  Proc <- MCTwo
  Limit = 0
  MaxAmount = 2
  MaxClock = 2
  MaxFaults = 1
SPECIFICATION FairSpec
INVARIANTS TypeOK NoCreditTwice
PROPERTY BacklogDrains
CHECK_DEADLOCK FALSE
