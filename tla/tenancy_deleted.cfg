SPECIFICATION Spec
CONSTANTS
  w1 = w1
  w2 = w2
  k1 = k1
  k2 = k2
  Workers <- OneRun
  Calls <- OneCall
  None = None
  Trial = 1
  Period = 2
  Grace = 1
  Retention = 2
  Horizon = 5
  MaxPayments = 1
  MaxFaults = 0
  MaxDrops = 0
  MaxLapses = 0
  Races = FALSE
  Required = FALSE
PROPERTY PaidNotDeleted
