SPECIFICATION Spec
CONSTANTS
  Request = {r1, r2}
  Sent <- MCSent
  Refusal = {"1402", "1605"}
  MaxEvent = 2
  MaxSave = 2
CHECK_DEADLOCK FALSE
INVARIANTS
  RefusalIsNoFailure
