SPECIFICATION CacheSpec
CONSTANTS
  Clients = {c1, c2}
  Expirers = {e1}
  Procs = {c1, c2, e1}
  Keys = {k1}
  Results = {value}
  Panicked = panicked
  Limit = 0
INVARIANT Expires
