SPECIFICATION FairSpec
CONSTANTS
  Run = {r1, r2}
  Slug = {"test", "other"}
  Plan <- MCPlan
  MaxBusiness = 4
  MaxClient = 1
CHECK_DEADLOCK FALSE
INVARIANTS
  TypeOK
  CallingAgainIsEnough
PROPERTIES
  DeletesWholeBusinesses
  EveryRunEnds
