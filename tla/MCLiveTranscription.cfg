CONSTANTS
  Conns = {c1, c2}
  NoConn = NoConn
  MaxInflight = 1
  MaxChunks = 1
  MaxFrames = 1
  Failures = {"error"}
  Outages = FALSE
  MaxStarts = 2
SPECIFICATION LiveSpec
INVARIANTS
  DraftInOrder
  HookSound
CHECK_DEADLOCK FALSE
