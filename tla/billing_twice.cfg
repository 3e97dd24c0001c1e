SPECIFICATION Spec
CONSTANTS
  k1 = k1
  k2 = k2
  Calls <- TwoCalls
  Price = 2
  Credit = 0
  MaxPayments = 2
  MaxDeliveries = 1
  MaxDrops = 0
  MaxErrors = 0
SYMMETRY Symmetry
INVARIANT SetupFeeOnce
CHECK_DEADLOCK FALSE
