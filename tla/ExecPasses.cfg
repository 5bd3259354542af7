SPECIFICATION Spec
CONSTANTS
  o1 = o1
  o2 = o2
  p1 = p1
  p2 = p2
  NoOrder = NoOrder
  Order = {o1}
  Live = {o1}
  Sim = {}
  Pass = {p1, p2}
  MaxRetries = 2
  MaxAttempts = 1
  MaxLost = 1
  MaxPauses = 0
  MaxCrashes = 0
  CanReview = {"approve"}
  CanCancel = {o1}
SYMMETRY Symmetric
INVARIANTS
  TypeOK
  ExclusiveDispatch
  SubmitsBounded
PROPERTIES
  FinalStays
