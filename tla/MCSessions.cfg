SPECIFICATION Spec
CONSTANTS
  Request = {p1, p2}
  User = {u1}
  Tenant = {t1}
  TenantOf <- OneTenant
  Switchable = {}
  Nobody = Nobody
  MaxSession = 3
  MaxTime = 3
  Grace = 1
  AccessTtl = 1
  RefreshTtl = 2
  PurgeAge = 0
SYMMETRY RequestSymmetry
INVARIANTS
  TypeOK
  OneLivePerLogin
  ChainWellFormed
  AlarmOnlyAfterExchange
  AlarmedStayClosed
PROPERTIES
  RevokedStaysRevoked
  ExchangedOnce
  ImplementsRefreshTokens
CHECK_DEADLOCK FALSE
