CONSTANTS
  p1 = p1  p2 = p2
  s1 = s1  s2 = s2
  a = a  b = b  c = c  d = d  e = e  f = f
  k = k
  NoProc = NoProc
  NoKey = NoKey
  Proc <- MCProc
  Stream <- MCStream
  Id <- MCId
  Key <- MCKey
  Calls <- MCCalls
  Dialect = "mysql"
  Swallow = FALSE
  MaxCalls = 3
SPECIFICATION FairSpec
INVARIANT StreamsContiguous
PROPERTIES ImplementsLog LockGranted
