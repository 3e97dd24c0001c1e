SPECIFICATION FairSpec
CONSTANTS
  k1 = k1
  k2 = k2
  Calls <- TwoCalls
  Price = 2
  Credit = 2
  MaxPayments = 1
  MaxDeliveries = 2
  MaxDrops = 1
  MaxErrors = 1
PROPERTY ApprovedSettles
CHECK_DEADLOCK FALSE
