CONSTANTS
  o1 = o1  o2 = o2  c1 = c1  c2 = c2  t1 = t1  t2 = t2  k1 = k1  k2 = k2
  shelf = shelf  rack = rack
  None = None
  Orders <- TwoOrders
  MpesaOrders <- OneOrder
  Rows = {shelf}
  Qty <- QtyOne
  Supply <- SupplyOne
  Now = 9
  Span = 4
  Bucket = 2
  Created <- PlacedAt
  Total <- Totals
  Price <- Prices
  Product <- Products
  Category <- Categories
  County <- Counties
  Buyer <- Buyers
  Pushes = {c1}
  Transfers = {}
  Calls = {k1, k2}
  MaxDrops = 0
  MaxSwitches = 0
  MaxOvertakes = 1
SPECIFICATION Spec
SYMMETRY Symmetric
INVARIANT NoOversell
