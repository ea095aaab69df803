SPECIFICATION FairSpec
CONSTANTS
  Request = {r1, r2}
  Sent <- MCSent
  Refusal = {"1605"}
  MaxEvent = 1
  MaxSave = 2
CHECK_DEADLOCK FALSE
INVARIANTS
  TypeOK
  AnswerTellsWhatHappened
  OnlyTheAdmittedAct
  RefusalTakesItsTime
PROPERTIES
  NothingHangs
