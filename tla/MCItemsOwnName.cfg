SPECIFICATION ItemsSpec
CONSTANTS
  Caller = {p1}
  Business = {b1}
  Name = {n1, n2}
  Unit = {u1}
  None = None
  MaxItem = 2
  MaxNumber = 2
CHECK_DEADLOCK FALSE
INVARIANTS
  OwnNameIsFree
