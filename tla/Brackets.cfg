SPECIFICATION FairSpec
CONSTANTS
  Entry = entry
  takeProfit = takeProfit
  stopLoss = stopLoss
  p1 = p1
  p2 = p2
  NoOrder = NoOrder
  NoPrice = NoPrice
  Leg = {takeProfit, stopLoss}
  Above = {takeProfit}
  Pass = {p1, p2}
  Mark <- Prices
  StopPrice <- Stops
  MaxRetries = 2
  MaxTrouble = 1
  CanReview = {stopLoss}
  CanCancel = {stopLoss}
  CanAmend = {stopLoss}
INVARIANTS
  TypeOK
  LegsInOrder
  CalledOffIsOff
  NoSurvivorAtRest
PROPERTIES
  ImplementsOcoGroup
  SiblingEnds
CHECK_DEADLOCK FALSE
