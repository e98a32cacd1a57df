SPECIFICATION FairSpec
CONSTANTS
  m1 = m1  m2 = m2  m3 = m3
  Ticks = {1, 2}
  Masters = {m1, m2, m3}
  Detail <- Details
  Assets <- AssetLists
  Jettons <- JettonLists
  Pools <- PoolAnswers
  BatchSize = 2
  Ttl = 1
  MaxEntries = 2
  MaxConcurrent = 2
  MaxAttempts = 2
  MaxTimers = 2
  MaxFaults = 1
INVARIANTS
  TypeOK
  TradeableIsNotMintable
PROPERTIES
  OncePerWindow
  SlotsSpec
  Reevaluated
CHECK_DEADLOCK FALSE
