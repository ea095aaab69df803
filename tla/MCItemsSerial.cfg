SPECIFICATION ItemsSpec
CONSTANTS
  Caller = {p1}
  Business = {b1, b2}
  Name = {n1, n2, n3}
  Unit = {u1}
  None = None
  MaxItem = 3
  MaxNumber = 4
SYMMETRY Symmetry
CHECK_DEADLOCK FALSE
INVARIANTS
  NamesDiffer
