CONSTANTS
  Request = {p1, p2}
  Branch = {x}
  Unset = Unset
  MaxBatch = 1
  Explored = {"receive", "consume"}
  MaxQuantity = 1
  MaxDay = 0
  MaxRequests = 3
SPECIFICATION Spec
INVARIANT NeverTakesMoreThanReceived
CHECK_DEADLOCK FALSE
