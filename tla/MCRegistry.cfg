CONSTANTS
  Request = {p1, p2}
  Name = {n1, n2}
  NoName = NoName
  MaxRow = 3
SYMMETRY RegistrySymmetry
SPECIFICATION Spec
INVARIANTS
  TypeOK
PROPERTIES
  DeletedIsFinal
  ImplementsDirectory
