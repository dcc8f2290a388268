SPECIFICATION Spec
CONSTANTS
  c1 = c1
  c2 = c2
  f1 = f1
  f2 = f2
  t1 = t1
  t2 = t2
  t3 = t3
  Clients = {c1, c2}
  Adders = {c1, c2}
  Waiters = {c2}
  Flushers = {f1, f2}
  Tasks = {t1, t2, t3}
  Chunked = TRUE
  Size <- ChunkSize
  MaxSize = 2
  IdleRound = 1
INVARIANTS TasksKept FlushersServe
PROPERTY DeliverySpec
SYMMETRY Symmetry
