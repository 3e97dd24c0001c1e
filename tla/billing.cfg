SPECIFICATION Spec
CONSTANTS
  k1 = k1
  k2 = k2
  Calls <- TwoCalls
  Price = 2
  Credit = 1
  MaxPayments = 2
  MaxDeliveries = 2
  MaxDrops = 1
  MaxErrors = 1
SYMMETRY Symmetry
INVARIANTS TypeOK OnePayment CreditConserved PaidInFull
PROPERTY FeeStaysPaid
CHECK_DEADLOCK FALSE
