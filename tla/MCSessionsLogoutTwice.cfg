SPECIFICATION Spec
CONSTANTS
  Request = {p1, p2}
  User = {u1}
  Tenant = {t1}
  TenantOf <- OneTenant
  Switchable = {}
  Nobody = Nobody
  MaxSession = 2
  MaxTime = 1
  Grace = 1
  AccessTtl = 1
  RefreshTtl = 2
  PurgeAge = 0
SYMMETRY RequestSymmetry
PROPERTY FirstRevocationSticks
CHECK_DEADLOCK FALSE
