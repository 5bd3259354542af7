SPECIFICATION FairSpec
CONSTANTS
  o1 = o1
  o2 = o2
  p1 = p1
  p2 = p2
  NoOrder = NoOrder
  Order = {o1, o2}
  Live = {o1}
  Sim = {}
  Pass = {p1}
  MaxRetries = 2
  MaxAttempts = 2
  MaxLost = 0
  MaxPauses = 0
  MaxCrashes = 0
  CanReview = {}
  CanCancel = {o1}
INVARIANTS
  EveryOrderOnBooks
  FillOnce
  LifecycleMatches
  FilledIsBacked
PROPERTIES
  OrderSettles
