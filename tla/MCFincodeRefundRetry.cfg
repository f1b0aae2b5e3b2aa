CONSTANTS
  c1 = c1
  c2 = c2
  k1 = k1
  k2 = k2
  NoKey = NoKey
  Callers <- MCCallers
  Keys <- MCKeys
  MaxAmount = 2
  MaxAssigned = 0
  MaxCalls = 3
  MaxLosses = 1
  KeyReuse = FALSE
  Expires = FALSE
  Ops <- AllOps
SPECIFICATION Spec
SYMMETRY Symmetry
INVARIANT RefundRetryIsSafe
CHECK_DEADLOCK FALSE
