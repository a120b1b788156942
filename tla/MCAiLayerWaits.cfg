SPECIFICATION Spec
CONSTANTS
  Requests = {r1, r2, r3}
  Warmup = Warmup
  Texts = {x1}
  Kinds <- AllKinds
  NoJob = NoJob
  NoText = NoText
  PoolSize = 2
  Threads = 1
  MemoSize = 1
  MaxCalls = 2
  WarmupOnStartup = TRUE
INVARIANT
  ChatNeverWaits
CHECK_DEADLOCK FALSE
