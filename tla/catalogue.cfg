SPECIFICATION Spec
CONSTANTS
  p1 = p1  p2 = p2  v1 = v1  v2 = v2  l1 = l1  l2 = l2  k1 = k1  k2 = k2
  colour = colour  plain = plain  red = red  RED = RED
  None = None
  Variants = {v1, v2}
  Option <- OneOption
  Low = 1
  Window = 30
  Products <- OneProduct
  Category <- OneCategory
  VariantsOf <- OneVariant
  Texts = {plain, red, RED}
  Selects <- OneMeaning
  Others <- NoneOrOther
  Lines = {l1, l2}
  Calls = {k1, k2}
  MaxUnits = 2
  MaxAsk = 1
  Sales = {0, 5, 30}
SYMMETRY Symmetry
INVARIANTS TypeOK CartLineOnce CartWithinStock ReportsAgree ReorderSettles ShownIsOrderable
