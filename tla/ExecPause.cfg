SPECIFICATION Spec
CONSTANTS
  o1 = o1
  o2 = o2
  p1 = p1
  p2 = p2
  NoOrder = NoOrder
  Order = {o1}
  Live = {o1}
  Sim = {}
  Pass = {p1}
  MaxRetries = 2
  MaxAttempts = 2
  MaxLost = 0
  MaxPauses = 1
  MaxCrashes = 1
  CanReview = {"approve", "reject"}
  CanCancel = {}
SYMMETRY Symmetric
INVARIANTS
  OneLiveOrder
  NothingSentUnreviewed
PROPERTIES
  ImplementsService
