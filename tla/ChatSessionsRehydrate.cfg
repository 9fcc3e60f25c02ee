CONSTANTS
  Requests = {r1, r2, r3}
  Users = {u1, u2}
  Sessions = {s1, s2}
  Nobody = Nobody
  NoSession = NoSession
  UnknownId = UnknownId
  MaxTurns = 3
  HistoryLimit = 4
  OneAtATime = TRUE
  MaxCrashes = 1
SPECIFICATION Spec
SYMMETRY Symmetry
INVARIANT ContextHasHistory
CHECK_DEADLOCK FALSE
