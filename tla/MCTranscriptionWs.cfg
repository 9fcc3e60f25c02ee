CONSTANTS
  Conns = {c1}
  MaxInflight = 2
  MaxChunks = 3
  MaxFrames = 1
  Failures = {"empty", "chunk_error"}
  Outages = TRUE
SPECIFICATION FairSpec
INVARIANTS
  InOrder
  NothingLost
  CacheCleared
PROPERTIES
  SessionEnds
  EveryChunkAnswered
CHECK_DEADLOCK FALSE
