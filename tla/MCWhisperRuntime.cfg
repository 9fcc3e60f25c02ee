CONSTANTS
  Threads = {t1, t2, t3}
  Devices = {cuda, cpu}
  Accelerated = {cuda}
  Unknown = Unknown
  NoThread = NoThread
  MaxCalls = 5
SPECIFICATION FairSpec
INVARIANTS
  ExclusiveOnceKnown
PROPERTY EveryChunkEnds
CHECK_DEADLOCK FALSE
