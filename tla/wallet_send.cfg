SPECIFICATION Spec
CONSTANTS
  b1 = b1  b2 = b2  s1 = s1
  Calls <- ThreeCalls
  Buys = {b1, b2}
  Dedust = {s1}
  Amount <- Amounts
  Reserve = 18
  Simulated = TRUE
  FailOpen = TRUE
  LogOnly = FALSE
  MaxAttempts = 2
  InitialBalance = 55
  Deposit = 30
  MaxDeposits = 1
  MaxOthers = 1
  MaxCrashes = 1
INVARIANTS
  TypeOK
  OneSender
  SwapsOnce
  RepliesTrue
  LockPassedOn
PROPERTIES
  ReserveKept
CHECK_DEADLOCK FALSE
