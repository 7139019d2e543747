\* Three tabs of two players and two creations; two messages and pages of one
\* event; one turn; a recording of up to three pieces; two logins with links that
\* live for one tick and sessions for two; one pack directory, saved to and
\* installed over; a dungeon of 12 x 6 cells and five growth steps;
\* two maps of 7 x 5 cells with up to two rooms, a hero whose player moves him one
\* cell at a time, and a monster; two campaigns, a player who comes and goes, two
\* requests of the panel at once and three in all.
SPECIFICATION Spec
CONSTANTS
  Sessions = {s1, s2}
  phone = phone
  laptop = laptop
  desk = desk
  Tabs = {phone, laptop, desk}
  Users = {"alice", "bob"}
  UserOf <- TabUsers
  MaxPrompts = 3
  Writers = {"p1", "p2"}
  Players = {"alice", "bob"}
  Viewers = {"bob"}
  Characters = {"c1", "c2"}
  PlayerOf <- Player
  OwnerOf <- Owner
  Confidants <- Secrets
  PageLimit = 1
  ContextLimit = 1
  MaxMessages = 2
  MaxLosses = 1
  Turns = {"t1"}
  MechanicsLimit = 3
  NarrationLimit = 2
  MaxBatch = 2
  Streams = {"s1"}
  MaxChunks = 3
  Links = {l1, l2}
  Callbacks = {k1, k2}
  StateTtl = 1
  SessionTtl = 2
  MaxClock = 4
  Slugs = {"a"}
  Savers = {"v"}
  Installs = {"i", "j"}
  Uploads <- Archives
  DiskFails = TRUE
  Width = 12
  Height = 6
  MaxLevels = 2
  GrowthBudget = 5
  SoftCap = 4
  CorridorLengths = {6}
  RoomSides = {1}
  VaultSides = {2}
  ExitCounts = {1, 2}
  MapWidth = 7
  MapHeight = 5
  RoomSizes = {2}
  RoomAttempts = 2
  VisionRadius = 4
  Reach = 1
  Roster <- Fighters
  FirstTeam = {"hero"}
  Movers = {"m"}
  OwnsToken <- HeroOnly
  MaxMaps = 2
  Campaigns = {"c", "d"}
  Guests = {"signedIn", "other"}
  Authenticated = {"signedIn"}
  Names = {"account", "master"}
  Master = "master"
  GuestName <- Name
  Requests = {r1, r2}
  Entries = {1}
  Bindings = {"x"}
  MaxActs = 3
INVARIANTS
  ServicesTypeOK
  OneCharacterPerSession
  SessionsStayAnswerable
  PrivateStaysPrivate
  NothingMissed
  AnsweredOnce
  InstallsAreWhole
  DungeonConnected
  FightersCanMeet
  SightIsStraight
  ClosedToNewcomers
  EditsAreLostOnlyByOverlap
PROPERTIES
  TextNeverShrinks
  LoginsAreSpentOnce
  GoroutinesEnd
\* A dungeon is finished, recordings and turns end, logins are used up.
CHECK_DEADLOCK FALSE
