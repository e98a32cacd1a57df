SPECIFICATION FairSpec
CONSTANTS
  b1 = b1  b2 = b2  b3 = b3  s1 = s1  s2 = s2  k1 = k1  n1 = n1  d1 = d1
  Calls = {b1, b2, b3, s1, s2, k1, n1, d1}
  Request <- Requests
  Lot = 100
  Outs = {1, 100}
  CeilingBps = 100
  DeadTtl = 1
  Attempts = 2
  Networks = {"mainnet", "testnet"}
  Clients = {"external", "cli"}
  InitialTon = 170
  InitialJettons = 100
  MaxCalls = 2
  MaxFaults = 1
INVARIANTS
  TypeOK
  BookingsTrue
PROPERTIES
  ReserveKept
  CallsReturn
CHECK_DEADLOCK FALSE
