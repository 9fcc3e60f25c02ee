CONSTANTS
  MaxMessages = 4
  NoSession = NoSession
  Views = {"dashboard", "chat"}
  Preferences = {"language"}
  Seeds <- MCSeeds
  MaxRecent = 2
  MaxFiles = 1
  MaxReloads = 0
  Focuses = {"chat"}
SPECIFICATION AppSpec
PROPERTY
  FreshChatStartsFresh
CHECK_DEADLOCK FALSE
