CONSTANTS
  e1 = e1
  e2 = e2
  t1 = t1
  t2 = t2
  Envs = {e1, e2}
  Tokens = {t1, t2}
  TokenOf <- TwoTokens
  Dust = {}
  Inherited = {}
  Modes = {"auto"}
  MaxOpenPositions = 1
  BounceLimit = 2
  Surplus = {}
  TailRows = 3
  MaxDoubts = 0
  MaxCopies = 1
  MaxIssues = 2
  MaxCrashes = 0
  MaxFaults = 0
SPECIFICATION FairSpec
CHECK_DEADLOCK FALSE
INVARIANTS
  TypeOK
PROPERTIES
  BuysEnd
  PositionsClose
  QueueSpec
