SPECIFICATION Spec
CONSTANTS
  s1 = s1  s2 = s2  s3 = s3  t1 = t1  t2 = t2
  Signals <- ThreeSignals
  Tokens <- TwoTokens
  TokenOf <- TokensOfThree
  Sound = {s1, s2}
  TailRows = 2
  Cooldown = 1
  MaxNoise = 1
  MaxTime = 1
  MaxCrashes = 1
  MaxFaults = 1
INVARIANTS
  TypeOK
  GatedOnce
  CooldownKept
  NothingPassedOver
  BoughtOnce
PROPERTIES
  SignalsEvaluated
CHECK_DEADLOCK FALSE
