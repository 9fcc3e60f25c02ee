CONSTANTS
  Conns = {c1}
  NoConn = NoConn
  MaxInflight = 2
  MaxChunks = 3
  MaxFrames = 1
  Failures = {"empty", "error", "chunk_error"}
  Outages = TRUE
  MaxStarts = 1
SPECIFICATION LiveFairSpec
INVARIANTS
  UploadsInOrder
PROPERTY StopEnds
CHECK_DEADLOCK FALSE
