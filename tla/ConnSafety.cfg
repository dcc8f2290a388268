SPECIFICATION ConnSpec
CONSTANTS
  Readers = {r1, r2}
  Writers = {w1, w2}
  Procs = {r1, r2, w1, w2}
  Keys = {{r1, w1}, {r2, w2}}
  Results = {"row", "notFound", "failed"}
  Panicked = panicked
  MaxVersion = 2
  Attempts = 2
INVARIANT CacheExplained
PROPERTY RowNotHidden
