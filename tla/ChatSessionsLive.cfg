CONSTANTS
  Requests = {r1, r2}
  Users = {u1, u2}
  Sessions = {s1, s2}
  Nobody = Nobody
  NoSession = NoSession
  UnknownId = UnknownId
  MaxTurns = 3
  HistoryLimit = 4
  OneAtATime = FALSE
  MaxCrashes = 1
SPECIFICATION FairSpec
PROPERTY EveryRequestEnds
CHECK_DEADLOCK FALSE
