CONSTANTS
  k1 = k1
  r1 = r1
  Keys <- MCKeys
  Refunds <- MCRefunds
  Methods <- MCMethods
  MaxIntents = 2
  MaxTime = 2
  Tolerance = 1
SPECIFICATION Spec
INVARIANTS TypeOK OneIntentPerKey 
PROPERTY SettlementIsBooked
CHECK_DEADLOCK FALSE
