CONSTANTS
  MaxMessages = 4
  NoSession = NoSession
  Views = {"dashboard", "chat", "profile", "settings"}
  Preferences = {"language"}
  Seeds <- MCSeeds
  MaxRecent = 2
  MaxFiles = 2
  MaxReloads = 1
  Focuses = {"login", "frame", "upload", "chat"}
SPECIFICATION AppSpec
INVARIANTS
  ScreenBacked
  OneReplyAtATime
  UploadsReportedTruly
  GrantedByServer
  FrameSound
PROPERTIES
  FirstMessageOpensChat
  WaitsEnd
CHECK_DEADLOCK FALSE
