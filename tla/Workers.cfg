SPECIFICATION Spec
CONSTANTS
  PoolUsers = {u1, u2, u3, u4}
  PoolLimit = 2
  Borrowers = {b1, b2, b3}
  PlaceCount = 1
  MaxLeft = 1
  RunnerCalls = {t1, t2, t3}
  RunnerWaiters = {w1}
  Concurrency = 2
  Pushers = {p1, p2}
  BufSize = 2
  NumCPU = 2
  MaxMessages = 3
  LockedCallers = {t1, t2, t3}
  Nobody = Nobody
  Producers = {p1, p2}
  ConsumerCount = 2
  Events = {e1, e2}
  MaxTurns = 2
  StreamItems = {i1, i2, i3}
  Workers = 1
  Heads = {1, 2}
  RetryTimes = 3
  Callers = {c1, c2}
  Limits <- RateAndBurst
  TokenTime = 3
  MaxOutages = 1
  LeaseIds = {1, 2, 3, 4}
  MaxFailed = 2
  Listeners = {l1, l2, l3}
  Services <- ThreeServices
  Stoppers = {p1, p2}
  Entries = {e1, e2, e3}
  BufferSize = 1
  FileSize = 1
  MaxBackups = 1
  RotateTime = 3
  MaxIoErrors = 1
  CleanTasks = {t1, t2, t3}
  CleanAttempts = 3
  CleanWorkers = 2
  DrainWorkers = 1
  TimerKeys = {k1}
  Items = {1, 2}
  NumSlots = 4
  Delays <- AllDelays
  MoveDelays <- AllDelays
  Draining = TRUE
  Clients = {c1, c2}
  Expirers = {e1}
  Procs = {c1, c2, e1}
  Keys = {k1, k2}
  Results = {value}
  Panicked = panicked
  Limit = 1
INVARIANTS CountsExact NobodyStuck WaitsCover  ClosedAfterLast KeysExplained GrantsBounded
  FallbackSound  FetchShared ItemsBounded
PROPERTIES WheelSound
CHECK_DEADLOCK FALSE
