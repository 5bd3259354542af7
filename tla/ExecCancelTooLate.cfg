SPECIFICATION Spec
CONSTANTS
  o1 = o1
  o2 = o2
  p1 = p1
  p2 = p2
  NoOrder = NoOrder
  Order = {o1}
  Live = {o1}
  Sim = {}
  Pass = {p1}
  MaxRetries = 1
  MaxAttempts = 2
  MaxLost = 0
  MaxPauses = 0
  MaxCrashes = 0
  CanReview = {}
  CanCancel = {o1}
SYMMETRY Symmetric
INVARIANTS
  CancelHolds
