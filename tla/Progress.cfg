SPECIFICATION Spec
CONSTANTS
  PoolUsers = {t1, t2, t3, t4}
  PoolLimit = 2
  Borrowers = {t1, t2, t3}
  PlaceCount = 1
  MaxLeft = 1
  Producers = {t1, t2}
  ConsumerCount = 1
  Events = {t3}
  MaxTurns = 1
  Callers = {t1, t2}
  Limits <- RateAndBurst
  TokenTime = 3
  MaxOutages = 1
  LeaseIds = {1, 2, 3, 4}
  MaxFailed = 2
  Readers = {t1, t2}
  Writers = {t3}
  Procs = {t1, t2, t3}
  Keys = {{t1, t2, t3}}
  Results = {"row", "notFound", "failed"}
  Panicked = Panicked
  MaxVersion = 1
  Attempts = 2
INVARIANT OneQuery
PROPERTIES  StoppedEnds ComesBack ConnProgress
CHECK_DEADLOCK FALSE
