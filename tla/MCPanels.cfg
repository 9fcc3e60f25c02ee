CONSTANTS
  Services = {"persona", "brainrot", "localConfigurator"}
  CloudModels = {"m1", "m2"}
  LocalModels = {"ollama"}
  LocalNames = {"a"}
  LocalId <- MCLocalId
  LastStep = 1
  Tunings = {"t0", "t1", "t2"}
  BuiltIn <- MCBuiltIn
  PresetIds = {"p1", "p2"}
  MaxPresets = 1
  Invites = {"i1", "i2"}
  MaxLoads = 3
  Slots = 4
  CardSlots = 1
  FullCard = 3
  Weeks = {0, 1}
  MaxNew = 2
  Agenda <- MCAgenda
  Order <- MCOrder
  Meetings <- MCMeetings
  MaxFeed = 1
  Docs = {"d1", "d2", "d3"}
  MaxBatch = 2
  Companies = {"acme", "brix"}
  Rosters <- MCRosters
  RoleTabs = {"overview", "documents", "hypotheses", "notes", "team"}
  Contents <- MCContents
  Batches <- MCBatches
  Texts = {"x"}
  MaxMade = 3
  Tours = {"files", "notes", "hypotheses", "team", "composer", "settings", "library", "invites", "planner"}
SPECIFICATION PanelsSpec
INVARIANTS
  ComposerSound
  SettingsSound
  DeskLanesFit
  InvitesSound
  ListTrue
  WorkspaceSound
PROPERTIES
  ImplementsInviteLedger
  SpinnersStop
CHECK_DEADLOCK FALSE
