SPECIFICATION FairSpec
CONSTANTS
  w1 = w1
  w2 = w2
  k1 = k1
  k2 = k2
  Workers <- TwoRuns
  Calls <- NoCall
  None = None
  Trial = 1
  Period = 1
  Grace = 1
  Retention = 1
  Horizon = 5
  MaxPayments = 0
  MaxFaults = 1
  MaxDrops = 0
  MaxLapses = 1
  Races = TRUE
  Required = FALSE
PROPERTIES AccessEnds DueIsDeleted
INVARIANTS OneLiveLease NoticeOnce
