------------------------ MODULE MCPeriodicalExecutor ------------------------
EXTENDS PeriodicalExecutor, TLC

CONSTANTS c1, c2, f1, f2, t1, t2, t3

\* A small chunk and two that fill the container at once.
ChunkSize == [t \in Tasks |-> IF t = t1 THEN 1 ELSE 2]

Symmetry == Permutations({t2, t3}) \cup Permutations(Flushers)
=============================================================================
