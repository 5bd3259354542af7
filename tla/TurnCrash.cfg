SPECIFICATION Spec
CONSTANTS
  t1 = t1
  t2 = t2
  s1 = s1
  s2 = s2
  NoTurn = NoTurn
  NoSession = NoSession
  Turn = {t1, t2}
  Session = {s1}
  Limit = 2
  MaxIterations = 2
  CanCancel = {t1}
  CanTimeOut = {}
  MaxCrashes = 2
INVARIANTS
  OneOutcome
  RecoveryHeals
PROPERTIES
  SettledIsFinal
  NotifyAfterPersist
CHECK_DEADLOCK FALSE
