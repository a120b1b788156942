SPECIFICATION FairSpec
CONSTANTS
  Requests = {r1, r2, r3}
  Warmup = Warmup
  Texts = {x1}
  Kinds <- AiKinds
  NoJob = NoJob
  NoText = NoText
  PoolSize = 2
  Threads = 1
  MemoSize = 1
  MaxCalls = 2
  WarmupOnStartup = TRUE
INVARIANTS
  LoadedOnce
  StatusTruthful
PROPERTIES
  OnlyTheScoreIsLost
  JobsEnd
CHECK_DEADLOCK FALSE
