SPECIFICATION HostSpec
CONSTANTS
  MaxChunks = 3
  MaxPendingOut = 2
  MaxDaemons = 3
  Versions = {1, 2}
  AgentPanes = {"a", "b"}
  Pids = {1}
  MaxStarts = 2
  MaxEvents = 2
  SnapWorktrees = {"v", "w"}
  LiveTree = "w"
  SnapTasks = {t1, t2}
  MaxPrints = 1
  MirrorCap = 1
  MaxMoves = 1
  MaxTail = 4
  KittyCap = 2
  Ink = 2
  Alphabets <- OutputAlphabets
  Ids <- FrameIds
  Payloads <- FramePayloads
  MaxId = 1
  MaxPayload = 2
  MaxFrames = 3
  Layouts <- PathLayouts
  UserArgs <- ShortArgs
  DepthCap = 2
  MaxNest = 1
  MaxHops = 7
INVARIANTS
  NothingLost ExitedNotRegistered UsedIsFound NewestEventShows SnapshotsKept
  SnapshotRestores FramesArrive AgentStarts
PROPERTIES SessionsKept BadgeIsReal
CHECK_DEADLOCK FALSE
