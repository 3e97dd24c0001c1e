CONSTANTS
  a1 = a1  a2 = a2  a3 = a3  a4 = a4
  key = key  mug = mug  red = red  large = large
  None = None
  Coupon = coupon
  Attempts = {a1, a2, a3, a4}
  c1 = c1  c2 = c2
  Cancels = {c1}
  Products = {mug}
  Variants = {red, large}
  Keys = {key}
  Cart <- SmallCarts
  Key <- SmallKeys
  Discounted = {a3, a4}
  Supply <- OneShirt
  UsageLimit = 1
SPECIFICATION FairSpec
INVARIANTS TypeOK CouponExact OneOrderPerKey
PROPERTIES ImplementsBook TransactionsEnd
CHECK_DEADLOCK FALSE
