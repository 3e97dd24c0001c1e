CONSTANTS
  o1 = o1  o2 = o2  c1 = c1  c2 = c2  t1 = t1  t2 = t2  k1 = k1  k2 = k2
  shelf = shelf  rack = rack
  None = None
  Orders <- OneOrder
  MpesaOrders <- OneOrder
  Rows = {}
  Qty <- QtyTwo
  Supply <- SupplyTwo
  Now = 9
  Span = 4
  Bucket = 2
  Created <- PlacedAt
  Total <- Totals
  Price <- Prices
  Product <- Products
  Category <- Categories
  County <- Counties
  Buyer <- Buyers
  Pushes = {c1}
  Transfers = {}
  Calls = {k1, k2}
  MaxDrops = 1
  MaxSwitches = 0
  MaxOvertakes = 1
SPECIFICATION LiveSpec
INVARIANTS CompletedIsSettled
PROPERTIES PaidSettles PaidIsAudited
