SPECIFICATION Spec
CONSTANTS
  w1 = w1
  w2 = w2
  k1 = k1
  k2 = k2
  Workers <- OneRun
  Calls <- TwoCalls
  None = None
  Trial = 1
  Period = 1
  Grace = 1
  Retention = 1
  Horizon = 3
  MaxPayments = 1
  MaxFaults = 0
  MaxDrops = 1
  MaxLapses = 0
  Races = FALSE
  Required = TRUE
SYMMETRY Symmetry
INVARIANTS TypeOK PaidIsServed
PROPERTY PlatformStands
