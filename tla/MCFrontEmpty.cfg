SPECIFICATION FrontSpec
CONSTANTS
  Request = {p1, p2}
  Branch = {b1, b2, foreign}
  Ours = {b1, b2}
  Price = {ten}
  Flag = {on}
  Null = Null
  Absent = Absent
  Wish <- MCWish
  MaxId = 2
  Listed <- MCTotal
  RowId = {1, 2, 3, 4}
  MaxKey = 2
  PageSize = 2
  Menu = {1, 2, 3}
  Order = {1, 2}
  NoParent = NoParent
  Quoted <- MCQuoted
  Sown <- MCSown
  Caller = {c1, c2}
  Business = {o1, o2}
  Name = {n1, n2}
  Unit = {u1}
  None = None
  MaxItem = 2
  MaxNumber = 3
SYMMETRY Symmetry
CHECK_DEADLOCK FALSE
INVARIANTS
  NeverEmpty
