SPECIFICATION FairSpec
CONSTANTS
  Request = {p1, p2}
  User = {u1}
  Tenant = {t1}
  TenantOf <- OneTenant
  Switchable = {u1, t1}
  Nobody = Nobody
  MaxSession = 2
  MaxTime = 2
  Grace = 1
  AccessTtl = 1
  RefreshTtl = 1
  PurgeAge = 0
PROPERTIES
  EveryRequestEnds
