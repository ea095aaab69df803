CONSTANTS
  Request = {p1}
  Branch = {x, y}
  Unset = Unset
  MaxBatch = 2
  Explored = {"receive", "consume", "count", "update", "global"}
  MaxQuantity = 2
  MaxDay = 1
  MaxRequests = 4
SYMMETRY InventorySymmetry
SPECIFICATION Spec
INVARIANTS
  StockExplained
  ExpiryMatchesItem
PROPERTY ImplementsStockBook
CHECK_DEADLOCK FALSE
