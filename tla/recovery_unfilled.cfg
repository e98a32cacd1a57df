CONSTANTS
  e1 = e1
  e2 = e2
  t1 = t1
  t2 = t2
  Envs = {e1}
  Tokens = {t1}
  TokenOf <- OneEnvelope
  Dust = {}
  Inherited = {}
  Modes = {"auto"}
  MaxOpenPositions = 1
  BounceLimit = 2
  Surplus = {}
  TailRows = 3
  MaxDoubts = 0
  MaxCopies = 1
  MaxIssues = 3
  MaxCrashes = 1
  MaxFaults = 0
SPECIFICATION Spec
CHECK_DEADLOCK FALSE
INVARIANTS
  ReconstructsFilledBuys
