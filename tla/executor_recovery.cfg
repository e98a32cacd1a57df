CONSTANTS
  e1 = e1
  e2 = e2
  t1 = t1
  t2 = t2
  Envs = {e1, e2}
  Tokens = {t1, t2}
  TokenOf <- TwoTokens
  Dust = {e2}
  Inherited = {e2}
  Modes = {"auto", "notify_only"}
  MaxOpenPositions = 2
  BounceLimit = 2
  Surplus = {}
  TailRows = 2
  MaxDoubts = 0
  MaxCopies = 2
  MaxIssues = 2
  MaxCrashes = 1
  MaxFaults = 1
SPECIFICATION Spec
CHECK_DEADLOCK FALSE
INVARIANTS
  NoStuckExit
  JournalsMatchMap
  NoSecondBuy
