SPECIFICATION FairSpec
CONSTANTS
  p1 = p1  p2 = p2
  Positions = {p1, p2}
  Quotes <- QuotesOfTwo
  StopLoss <- Stops
  TakeProfit <- Targets
  BounceLimit = 2
  Threshold = 2
  HalfOpenMaxCalls = 3
INVARIANTS
  TypeOK
  StopsHold
  BlindSales
PROPERTIES
  BreakersRecover
CHECK_DEADLOCK FALSE
