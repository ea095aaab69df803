CONSTANTS
  Request = {p1, p2}
  Name = {n1}
  NoName = NoName
  MaxRow = 3
SYMMETRY RegistrySymmetry
SPECIFICATION Spec
PROPERTY InactiveBranchReceivesNothing
