CONSTANTS
  Request = {p1}
  Branch = {x, y}
  Unset = Unset
  MaxBatch = 1
  Explored = {"receive", "consume", "minimums"}
  MaxQuantity = 1
  MaxDay = 0
  MaxRequests = 3
SPECIFICATION Spec
PROPERTY ConsumeKeepsOverrides
CHECK_DEADLOCK FALSE
