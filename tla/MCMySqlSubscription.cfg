CONSTANTS
  MaxPosition = 5
  Row <- MCRow
  PollBatchSize = 2
  SubscribeBuffer = 2
  MaxFaults = 2
  MaxRestarts = 1
SPECIFICATION FairSpec
INVARIANT TypeOK
PROPERTIES LogSpec Delivered
CHECK_DEADLOCK FALSE
