SPECIFICATION CalmSpec
CONSTANTS
  o1 = o1  o2 = o2  c1 = c1  c2 = c2  t1 = t1  t2 = t2  k1 = k1  k2 = k2  shelf = shelf  rack = rack
  None = None
  Orders <- TwoOrders
  MpesaOrders <- OneOrder
  Rows = {shelf, rack}
  Qty <- QtyTwo
  Supply <- SupplyTwo
  Now = 9
  Span = 4
  Bucket = 2
  Created <- PlacedAt
  Total <- Totals
  Price <- Prices
  Product <- Products
  Category <- Categories
  County <- Counties
  Buyer <- Buyers
  Pushes = {c1}
  Transfers = {t1, t2}
  Calls = {k1, k2}
  MaxDrops = 0
  MaxSwitches = 1
  MaxOvertakes = 0
SYMMETRY Symmetric
INVARIANTS TypeOK StockConserved VerdictMatchesOrder OneOpenTransfer RevenueIsEarned
PROPERTIES BookSpec ReviewIsFinal
