CONSTANTS
  Request = {p1, p2}
  Branch = {x, y}
  Unset = Unset
  MaxBatch = 2
  MaxQuantity = 1
  Explored = {"receive", "consume", "minimums"}
  MaxDay = 0
  MaxRequests = 4
SYMMETRY InventorySymmetry
SPECIFICATION Spec
INVARIANTS
  TypeOK
  RemainingWithinReceived
  EntriesAreAccounted
PROPERTY ConsumeStaysInItsBranch
CHECK_DEADLOCK FALSE
