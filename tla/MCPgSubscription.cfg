CONSTANTS
  MaxPosition = 4
  Row <- MCRow
  Batch = 2
  Buffer = 2
  BackoffMax = 3
  MaxReconnects = 2
  ErrorKinds = {"conn"}
  MaxFaults = 0
  EndlessFaults = TRUE
  MaxRestarts = 1
SPECIFICATION FairSpec
INVARIANTS TypeOK OutageCounted
PROPERTIES LogSpec Delivered SubscriptionEnds
CHECK_DEADLOCK FALSE
