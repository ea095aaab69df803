SPECIFICATION Spec
CONSTANTS
  Request = {p1, p2}
  Business = {b1, b2}
  CategoryName = {c1, c2}
  ProductName = {n1}
  Cost = {20000}
  Price = {20000}
  RawMargin = {40}
  None = None
  MaxCategory = 2
  MaxProduct = 2
  MaxSku = 2
SYMMETRY Symmetry
CHECK_DEADLOCK FALSE
INVARIANTS
  StoredIsReadable
