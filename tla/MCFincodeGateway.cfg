CONSTANTS
  c1 = c1
  c2 = c2
  k1 = k1
  k2 = k2
  NoKey = NoKey
  Callers <- MCCallers
  Keys <- OneKey
  MaxAmount = 2
  MaxAssigned = 2
  MaxCalls = 3
  MaxLosses = 1
  KeyReuse = TRUE
  Expires = TRUE
  Ops <- AllOps
SPECIFICATION Spec
SYMMETRY CallerSymmetry
INVARIANTS TypeOK OneChargePerKey NeverAboveHold OkMeansDone
PROPERTIES KeyReuseRejected FailedMeansNotBilled
CHECK_DEADLOCK FALSE
