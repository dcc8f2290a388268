SPECIFICATION Spec
CONSTANTS
  Getters = {g1, g2}
  MaxGets = 2
  MaxFetches = 2
  Takers = {t1, t2, t3}
  MaxGenerated = 3
  RefUsers = {t1, t2, t3}
  Procs = {p1, p2}
  Keys = {k1}
  Results = {1, 2, 3, CreateError}
  Panicked = Panicked
  CreateError = CreateError
  MaxCreated = 3
  BreakerUsers = {t1, t2, t3}
  MaxBreakers = 4
  Size = 2
  Interval = 2
  WindowTime = 6
  Free = Free
  Requests = {r1, r2}
  Protection = 0
  ForcePass = 1
  ReasonCount = 2
  MaxMarks = 3
  Lockers = {c1, c2}
  Leases = {1, 2}
  LockTime = 3
  MaxLost = 1
  NoOwner = NoOwner
  PermitTakers = {t1, t2}
  Quota = 2
  Period = 2
  PeriodTime = 5
  MaxTakes = 3
  Doers = {t1, t2}
  Threshold = 2
  LessTime = 6
  MaxFns = 3
  Inserters = {w1, w2}
  Flushers = {t1}
  Background = Background
  Updater = Updater
  MaxBulkRows = 2
  MaxStmts = 3
  MapKeys = {k1, k2, k3, k4}
  MapValues = {v1, v2}
  Absent = Absent
  CopyThreshold = 2
  MaxDeletion = 1
  MaxDeleted = 4
  FifoItems = {x1, x2}
  NoItem = NoItem
  FifoSizes = {1, 2, 3}
  MaxElements = 4
  RingValues = {x1, x2}
  NoValue = NoValue
  RingSizes = {1, 2, 3, 4}
  HashNodes = {"n1", "n2", "n3"}
  Adders = {p1, p2}
  Replicas = 2
  Points = 6
  HashFunctions <- TwoHashFunctions
  Bloomers = {g1, g2}
  BloomData = {"d1", "d2"}
  BloomMaps = 2
  BloomHash <- TwoHashes
  MaxBlooms = 3
  WordSets <- WordPairs
  Texts <- FiveCharacters
  Mapping <- Shorter
  ReplaceTimes = 2
  Routes <- SomeRoutes
  Named = {":x", ":y", ":z"}
  Searched <- SomePaths
  HttpMethods = {"GET"}
  HttpRoutes <- RadixRoutes
  RequestPaths <- RadixPaths
  MaxRoutes = 4
  Conns = {c1, c2, c3}
  Calls = {r1, r2}
  ReadySets = {{c1}, {c1, c2}, {c1, c2, c3}}
  LagRoots = {1, 3}
  ForcePick = 1
  PickTime = 3
  MaxRowVersion = 3
  IndexReaders = {p1, p2}
  RowIds = {r1, r2}
  NoEntry = NoEntry
  MaxMoves = 2
  SubKeys = {k1, k2}
  SubValues = {"v", "w"}
  Tellers = {t1, t2}
  SubsetSize = 1
  MaxTold = 3
  Addresses = {h1, h2}
  MaxVersions = 5
  ConfigListeners = {g1}
  Callbacks = {w1, w2}
  MaxChanges = 3
  Unusable = {2}
  MaxValueErrors = 1
  Clients = {q1, q2}
  CoolOff = 2
  ShedTime = 3
INVARIANTS  InTime RowsCurrent
PROPERTIES ResourcesKept  LookupsExact LockSafe MapSound ImplementsSequence
CHECK_DEADLOCK FALSE
