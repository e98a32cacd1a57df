CONSTANTS
  e1 = e1
  e2 = e2
  t1 = t1
  t2 = t2
  Envs = {e1, e2}
  Tokens = {t1}
  TokenOf <- OneToken
  Dust = {}
  Inherited = {}
  Modes = {"auto"}
  MaxOpenPositions = 2
  BounceLimit = 2
  Surplus = {e2}
  TailRows = 3
  MaxDoubts = 1
  MaxCopies = 1
  MaxIssues = 3
  MaxCrashes = 0
  MaxFaults = 0
SPECIFICATION Spec
CHECK_DEADLOCK FALSE
INVARIANTS
  OneExitPerPosition
  TrackedIsHeld
  HoldingsTracked
