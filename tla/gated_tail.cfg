SPECIFICATION Spec
CONSTANTS
  s1 = s1  s2 = s2  s3 = s3  t1 = t1  t2 = t2
  Signals <- ThreeSignals
  Tokens <- TwoTokens
  TokenOf <- TokensOfThree
  Sound = {s1, s2}
  TailRows = 2
  Cooldown = 1
  MaxNoise = 0
  MaxTime = 0
  MaxCrashes = 0
  MaxFaults = 0
PROPERTIES
  EverySignalEvaluated
CHECK_DEADLOCK FALSE
