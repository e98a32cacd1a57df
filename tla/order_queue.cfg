CONSTANTS
  b1 = b1
  b2 = b2
  b3 = b3
  x1 = x1
  x2 = x2
  Orders <- MCOrders
  Exits <- MCExits
  MaxOpenPositions = 1
  MaxRecovered = 2
SPECIFICATION FairSpec
INVARIANTS
  QueuesHoldWaiting
  NoLostWakeup
PROPERTIES
  CapacityRespected
  OrdersEnd
  ServiceSpec
