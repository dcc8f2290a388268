SPECIFICATION MapReduceFairSpec
CONSTANTS
  Items = {i1, i2}
  Workers = 2
  MaxWrites = 2
INVARIANTS CollectorSound Complete
PROPERTY MapReduceEnds
\* A call comes to its end, and may hang with a late panic.
CHECK_DEADLOCK FALSE
