CONSTANTS
  p1 = p1  p2 = p2
  s1 = s1  s2 = s2
  a = a  b = b  c = c  d = d  e = e  f = f
  k = k
  NoProc = NoProc
  NoKey = NoKey
  Proc <- MCProc
  Stream <- MCStream
  Id <- MCId
  Key <- MCKey
  Calls <- MCCalls
  Dialect = "postgres"
  Swallow = TRUE
  MaxCalls = 2
  Batch = 1
  Buffer = 1
  BackoffMax = 2
  MaxReconnects = 0
  ErrorKinds = {"conn"}
  MaxFaults = 0
  EndlessFaults = FALSE
  MaxRestarts = 0
SPECIFICATION StoreSpec
INVARIANTS TypeOK StreamsContiguous OneContractPerKey BatchAtomic NoEventLost
PROPERTY AppendMeetsSubscription
SYMMETRY Symmetry
CHECK_DEADLOCK FALSE
