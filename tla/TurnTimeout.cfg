SPECIFICATION Spec
CONSTANTS
  t1 = t1
  t2 = t2
  s1 = s1
  s2 = s2
  NoTurn = NoTurn
  NoSession = NoSession
  Turn = {t1, t2}
  Session = {s1}
  Limit = 2
  MaxIterations = 1
  CanCancel = {t2}
  CanTimeOut = {t1}
  MaxCrashes = 0
INVARIANTS
  PermitAccounting
  OrphanSignalSound
  MidFlightHasTask
CHECK_DEADLOCK FALSE
