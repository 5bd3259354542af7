SPECIFICATION FairSpec
CONSTANTS
  t1 = t1
  t2 = t2
  s1 = s1
  s2 = s2
  NoTurn = NoTurn
  NoSession = NoSession
  Turn = {t1, t2}
  Session = {s1}
  Limit = 2
  MaxIterations = 1
  CanCancel = {t1}
  CanTimeOut = {}
  MaxCrashes = 0
INVARIANTS
  TypeOK
  FinishedIsCheckpointed
  OwnIdentity
PROPERTIES
  WaitEnds
  PermitReturned
  ImplementsService
CHECK_DEADLOCK FALSE
