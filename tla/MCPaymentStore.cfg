CONSTANTS
  p1 = p1  p2 = p2
  a = a  b = b
  r1 = r1  r2 = r2
  k = k
  Proc <- MCProc
  Payment <- MCPayment
  Refund <- MCRefund
  Key <- MCKey
  NoKey = NoKey
  KeyOf <- MCKeyOf
  None = None
  Dialects = {"postgres", "mysql"}
  MaxSaves = 4
SPECIFICATION Spec
INVARIANTS TypeOK NoRefundLost DuplicatesNameWinner
SYMMETRY Symmetry
CHECK_DEADLOCK FALSE
