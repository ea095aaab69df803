SPECIFICATION ItemsSpec
CONSTANTS
  Caller = {p1, p2}
  Business = {b1, b2}
  Name = {n1, n2}
  Unit = {u1, u2}
  None = None
  MaxItem = 2
  MaxNumber = 3
SYMMETRY Symmetry
CHECK_DEADLOCK FALSE
INVARIANTS
  ItemsTypeOK
  SkuIsFresh
PROPERTIES
  WritesItsOwn
