---------------------------- MODULE StoresProofs ----------------------------
(***************************************************************************)
(* What is kept in the cache before the database, in Redis and in memory,  *)
(* for every value of the constants: the cache of CachedConn, the lock and *)
(* the token bucket, and the two maps of SafeMap.                          *)
(***************************************************************************)
EXTENDS CachedConn, RedisScripts, TokenLimiter, SafeMap, TLAPS

\* The provers of a leaf, in turn, and their time.
USE ZenonT(5), SMTT(30)

(***************************************************************************)
(* The cache of CachedConn for any readers, writers, instances and         *)
(* versions.  ConnInv adds to StaleExplained only that a writer who has    *)
(* its deletion still to do has written a version.  FlightInv ties the     *)
(* calls of the single flight to the readers that lead or joined them.     *)
(***************************************************************************)

\* A writer that has still to delete its key has written a version.
ConnInv ==
  /\ ConnTypeOK /\ StaleExplained
  /\ \A w \in Writers : pc[w] = "del" => mine[w] \in Versions

\* The invariant holds at the start.
LEMMA ConnStart == ConnInit => ConnInv
<1> SUFFICES ASSUME ConnInit PROVE ConnInv
  OBVIOUS
<1>1. MaxVersion \in Nat /\ 0 \in 0..MaxVersion /\ 0 \in 0..0 /\ Attempts \in Nat /\ 0 \in 0..Attempts
  BY BoundsAssumption
<1>2. db \in [ver : 0..MaxVersion, present : BOOLEAN] /\ db.ver = 0
  BY <1>1 DEF ConnInit
<1>3. cache \in [kind : {"none", "value", "placeholder", "corrupt"}, ver : 0..db.ver]
  BY <1>1, <1>2 DEF ConnInit, Nothing
<1>4. got \in [Readers -> [ver : 0..db.ver, present : BOOLEAN]]
  BY <1>1, <1>2 DEF ConnInit, NoRow
<1>5. by \in [Versions -> Writers]
  <2>1. (CHOOSE w \in Writers : TRUE) \in Writers
    BY NodesAssumption
  <2> QED  BY <2>1 DEF ConnInit
<1>6. ConnTypeOK
  BY <1>1, <1>2, <1>3, <1>4, <1>5 DEF ConnInit, ConnTypeOK
<1>7. StaleExplained
  BY <1>2 DEF ConnInit, StaleExplained, Nothing
<1> QED  BY <1>6, <1>7, NodesAssumption DEF ConnInit, ConnInv

\* The steps of a reader keep it: what it fills in was read, and a newer
\* version that came meanwhile has its deletion still to come.
LEMMA ConnReads ==
  ASSUME ConnInv, NEW p \in Readers, QueryRow(p) \/ Reading(p)
  PROVE  ConnInv'
<1>0. UNCHANGED <<db, mine, by, task, givenUp>>
  BY DEF Reading, QueryRow, GetHit, GetFails, GetMiss, GetCorrupt, Purge, Query, QueryFails, Fill, FillFails,
         LeaveFlight, QueryReturns, rows
<1>1. /\ db \in [ver : 0..MaxVersion, present : BOOLEAN] /\ db.ver \in 0..MaxVersion
      /\ cache \in [kind : {"none", "value", "placeholder", "corrupt"}, ver : 0..db.ver]
      /\ got \in [Readers -> [ver : 0..db.ver, present : BOOLEAN]]
      /\ pc \in [Procs -> {"ready", "take", "purge", "query", "fill", "del"}] /\ raced \in BOOLEAN
      /\ MaxVersion \in Nat
  BY BoundsAssumption DEF ConnInv, ConnTypeOK
<1>2. p \in Procs /\ p \notin Writers /\ Writers \subseteq Procs
  BY NodesAssumption
<1>3. \E l \in {"ready", "take", "purge", "query", "fill"} : pc' = [pc EXCEPT ![p] = l] \/ pc' = pc
  BY DEF Goto, Reading, QueryRow, GetHit, GetFails, GetMiss, GetCorrupt, Purge, Query, QueryFails, Fill, FillFails,
         LeaveFlight, QueryReturns, rows
<1>4. /\ pc' \in [Procs -> {"ready", "take", "purge", "query", "fill", "del"}]
      /\ \A w \in Writers : pc'[w] = pc[w]
  BY <1>1, <1>2, <1>3
<1>5. got' = got \/ got' = [got EXCEPT ![p] = db] \/ got' = [got EXCEPT ![p] = NoRow]
  BY DEF Reading, QueryRow, GetHit, GetFails, GetMiss, GetCorrupt, Purge, Query, QueryFails, Fill, FillFails,
         LeaveFlight, QueryReturns
<1>6. got' \in [Readers -> [ver : 0..db.ver, present : BOOLEAN]]
  <2>1. NoRow \in [ver : 0..db.ver, present : BOOLEAN] /\ db \in [ver : 0..db.ver, present : BOOLEAN]
    BY <1>1 DEF NoRow
  <2> QED  BY <1>1, <1>5, <2>1
<1>7. \/ cache' = cache /\ raced' = raced
      \/ cache' = Nothing /\ raced' = raced
      \/ /\ cache' = [kind |-> IF got[p].present THEN "value" ELSE "placeholder", ver |-> got[p].ver]
         /\ raced' = (got[p].ver < db.ver)
  BY DEF Reading, QueryRow, GetHit, GetFails, GetMiss, GetCorrupt, Purge, Query, QueryFails, Fill, FillFails,
         LeaveFlight, QueryReturns
<1>8. cache' \in [kind : {"none", "value", "placeholder", "corrupt"}, ver : 0..db.ver] /\ raced' \in BOOLEAN
  <2>1. got[p].ver \in 0..db.ver
    BY <1>1
  <2>2. Nothing \in [kind : {"none", "value", "placeholder", "corrupt"}, ver : 0..db.ver]
    BY <1>1 DEF Nothing
  <2>3. CASE cache' = cache /\ raced' = raced
    BY <1>1, <2>3
  <2>4. CASE cache' = Nothing /\ raced' = raced
    BY <1>1, <2>2, <2>4
  <2>5. CASE /\ cache' = [kind |-> IF got[p].present THEN "value" ELSE "placeholder", ver |-> got[p].ver]
             /\ raced' = (got[p].ver < db.ver)
    <3>1. (got[p].ver < db.ver) \in BOOLEAN
      OBVIOUS
    <3>2. cache' \in [kind : {"none", "value", "placeholder", "corrupt"}, ver : 0..db.ver]
      BY <2>1, <2>5
    <3>3. raced' \in BOOLEAN
      BY <2>5, <3>1
    <3> QED  BY <3>2, <3>3
  <2> QED  BY <1>7, <2>3, <2>4, <2>5
<1>9. ConnTypeOK'
  BY <1>0, <1>4, <1>6, <1>8 DEF ConnInv, ConnTypeOK
<1>10. \A v : DeletionDue(v)' <=> DeletionDue(v)
  BY <1>0, <1>4 DEF DeletionDue
<1>11. StaleExplained'
  <2>1. CASE cache' = cache /\ raced' = raced
    BY <1>0, <1>10, <2>1 DEF ConnInv, StaleExplained
  <2>2. CASE cache' = Nothing
    BY <2>2 DEF StaleExplained, Nothing
  <2>3. CASE cache'.ver = got[p].ver /\ raced' = (got[p].ver < db.ver)
    BY <1>0, <2>3 DEF StaleExplained
  <2> QED  BY <1>7, <2>1, <2>2, <2>3
<1> QED  BY <1>0, <1>4, <1>9, <1>11 DEF ConnInv

\* A write makes its version due for deletion; DelCache settles it, or hands it
\* to the cleaner, or gives it up.
LEMMA ConnWrites ==
  ASSUME ConnInv, NEW w \in Writers, Exec(w) \/ DelCache(w) \/ DelFails(w)
  PROVE  ConnInv'
<1>1. /\ db \in [ver : 0..MaxVersion, present : BOOLEAN] /\ db.ver \in 0..MaxVersion
      /\ cache \in [kind : {"none", "value", "placeholder", "corrupt"}, ver : 0..db.ver]
      /\ got \in [Readers -> [ver : 0..db.ver, present : BOOLEAN]]
      /\ pc \in [Procs -> {"ready", "take", "purge", "query", "fill", "del"}] /\ raced \in BOOLEAN
      /\ mine \in [Writers -> 0..db.ver] /\ task \in [Versions -> 0..Attempts] /\ by \in [Versions -> Writers]
      /\ MaxVersion \in Nat /\ Attempts \in Nat /\ Attempts > 0
  BY BoundsAssumption DEF ConnInv, ConnTypeOK
<1>2. w \in Procs /\ Writers \subseteq Procs
  BY NodesAssumption
<1>3. CASE Exec(w)
  <2>1. /\ pc[w] = "ready" /\ db.ver < MaxVersion /\ db'.ver = db.ver + 1
        /\ db' \in [ver : 0..MaxVersion, present : BOOLEAN]
    BY <1>1, <1>3 DEF Exec
  <2>2. /\ mine' = [mine EXCEPT ![w] = db.ver + 1] /\ by' = [by EXCEPT ![db.ver + 1] = w]
        /\ pc' = [pc EXCEPT ![w] = "del"] /\ UNCHANGED <<cache, got, task, givenUp, raced>>
    BY <1>3 DEF Exec, Goto
  <2>3. cache \in [kind : {"none", "value", "placeholder", "corrupt"}, ver : 0..db'.ver]
    BY <1>1, <2>1
  <2>4. got \in [Readers -> [ver : 0..db'.ver, present : BOOLEAN]]
    <3>1. \A r \in Readers : got[r] \in [ver : 0..db'.ver, present : BOOLEAN]
      BY <1>1, <2>1
    <3> QED  BY <1>1, <3>1
  <2>5. mine' \in [Writers -> 0..db'.ver] /\ by' \in [Versions -> Writers]
    BY <1>1, <2>1, <2>2 DEF Versions
  <2>6. ConnTypeOK'
    BY <1>1, <1>2, <2>1, <2>2, <2>3, <2>4, <2>5 DEF ConnInv, ConnTypeOK
  <2>7. pc'[w] = "del" /\ mine'[w] = db.ver + 1 /\ \A x \in Writers : x # w => pc'[x] = pc[x] /\ mine'[x] = mine[x]
    BY <1>1, <1>2, <2>2
  <2>8. \A v : DeletionDue(v) => DeletionDue(v)'
    BY <2>1, <2>2, <2>7 DEF DeletionDue
  <2>9. \A v : v = db.ver + 1 => DeletionDue(v)'
    BY <2>7 DEF DeletionDue
  <2>10. StaleExplained'
    <3> SUFFICES ASSUME cache.kind \in {"value", "placeholder"}, ~raced, NEW v \in cache.ver + 1..db.ver + 1
                 PROVE  DeletionDue(v)'
      BY <2>1, <2>2 DEF StaleExplained
    <3>1. CASE v = db.ver + 1
      BY <2>9, <3>1
    <3>2. CASE v # db.ver + 1
      <4>1. v \in cache.ver + 1..db.ver /\ cache.ver < db.ver
        BY <1>1, <3>2
      <4>2. DeletionDue(v)
        BY <4>1 DEF ConnInv, StaleExplained
      <4> QED  BY <2>8, <4>2
    <3> QED  BY <3>1, <3>2
  <2>11. \A x \in Writers : pc'[x] = "del" => mine'[x] \in Versions
    <3>1. db.ver + 1 \in Versions
      BY <1>1, <2>1 DEF Versions
    <3>2. \A x \in Writers : pc[x] = "del" => mine[x] \in Versions
      BY DEF ConnInv
    <3> QED  BY <2>7, <3>1, <3>2
  <2> QED  BY <2>6, <2>10, <2>11 DEF ConnInv
<1>4. CASE DelCache(w) \/ DelFails(w)
  <2>1. /\ pc[w] = "del" /\ mine' = [mine EXCEPT ![w] = 0] /\ pc' = [pc EXCEPT ![w] = "ready"]
        /\ UNCHANGED <<db, by, got, givenUp, raced>>
    BY <1>4 DEF DelCache, DelFails, Goto
  <2>2. \/ cache' = Nothing /\ task' = task
        \/ cache' = cache /\ task' = [task EXCEPT ![mine[w]] = 1]
    BY <1>4 DEF DelCache, DelFails
  <2>3. Nothing \in [kind : {"none", "value", "placeholder", "corrupt"}, ver : 0..db.ver] /\ Nothing.kind = "none"
    BY <1>1 DEF Nothing
  <2>4. task' \in [Versions -> 0..Attempts] /\ mine[w] \in Versions
    BY <1>1, <2>1, <2>2 DEF ConnInv
  <2>5. mine' \in [Writers -> 0..db.ver] /\ pc' \in [Procs -> {"ready", "take", "purge", "query", "fill", "del"}]
    <3>1. 0 \in 0..db.ver
      BY <1>1
    <3> QED  BY <1>1, <2>1, <3>1
  <2>6. ConnTypeOK'
    BY <1>1, <2>1, <2>2, <2>3, <2>4, <2>5 DEF ConnInv, ConnTypeOK
  <2>7. pc'[w] # "del" /\ \A x \in Writers : x # w => pc'[x] = pc[x] /\ mine'[x] = mine[x]
    BY <1>1, <1>2, <2>1
  <2>8. CASE cache' = Nothing
    <3>1. StaleExplained'
      BY <2>3, <2>8 DEF StaleExplained
    <3> QED  BY <2>6, <2>7, <3>1 DEF ConnInv
  <2>9. CASE cache' = cache /\ task' = [task EXCEPT ![mine[w]] = 1]
    <3>1. \A v \in Versions : task'[v] = IF v = mine[w] THEN 1 ELSE task[v]
      BY <1>1, <2>4, <2>9
    <3>2. \A v \in Versions : DeletionDue(v) => DeletionDue(v)'
      BY <2>1, <2>7, <3>1 DEF DeletionDue
    <3>3. \A v \in cache.ver + 1..db.ver : v \in Versions
      BY <1>1 DEF Versions
    <3>4. StaleExplained'
      BY <2>1, <2>9, <3>2, <3>3 DEF ConnInv, StaleExplained
    <3> QED  BY <2>6, <2>7, <3>4 DEF ConnInv
  <2> QED  BY <2>2, <2>8, <2>9
<1> QED  BY <1>3, <1>4

\* The cleaner settles what it was handed, or gives it up.
LEMMA ConnCleans ==
  ASSUME ConnInv, (\E v \in Versions : CleanDeletes(v) \/ CleanFails(v)) \/ Expire
  PROVE  ConnInv'
<1>1. /\ db \in [ver : 0..MaxVersion, present : BOOLEAN] /\ db.ver \in 0..MaxVersion
      /\ cache \in [kind : {"none", "value", "placeholder", "corrupt"}, ver : 0..db.ver]
      /\ task \in [Versions -> 0..Attempts] /\ givenUp \subseteq Versions
      /\ MaxVersion \in Nat /\ Attempts \in Nat
  BY BoundsAssumption DEF ConnInv, ConnTypeOK
<1>2. Nothing \in [kind : {"none", "value", "placeholder", "corrupt"}, ver : 0..db.ver] /\ Nothing.kind = "none"
  BY <1>1 DEF Nothing
<1>3. ASSUME NEW v \in Versions, CleanDeletes(v) \/ CleanFails(v)
      PROVE  ConnInv'
  <2>1. UNCHANGED <<db, mine, by, pc, got, raced>>
    BY <1>3 DEF CleanDeletes, CleanFails, rows
  <2>2. CASE CleanDeletes(v)
    <3>1. cache' = Nothing /\ task' = [task EXCEPT ![v] = 0] /\ givenUp' = givenUp
      BY <2>2 DEF CleanDeletes
    <3>2. task' \in [Versions -> 0..Attempts]
      <4>1. 0 \in 0..Attempts
        BY <1>1
      <4> QED  BY <1>1, <3>1, <4>1
    <3>3. ConnTypeOK' /\ StaleExplained'
      BY <1>2, <2>1, <3>1, <3>2 DEF ConnInv, ConnTypeOK, StaleExplained
    <3> QED  BY <2>1, <3>3 DEF ConnInv
  <2>3. CASE CleanFails(v)
    <3>1. /\ cache' = cache /\ task[v] > 0
          /\ \/ task[v] < Attempts /\ task' = [task EXCEPT ![v] = task[v] + 1] /\ givenUp' = givenUp
             \/ task' = [task EXCEPT ![v] = 0] /\ givenUp' = givenUp \cup {v}
      BY <2>3 DEF CleanFails
    <3>2. task' \in [Versions -> 0..Attempts] /\ givenUp' \subseteq Versions
      <4>1. 0 \in 0..Attempts /\ (task[v] < Attempts => task[v] + 1 \in 0..Attempts)
        BY <1>1
      <4> QED  BY <1>1, <3>1, <4>1
    <3>3. ConnTypeOK'
      BY <2>1, <3>1, <3>2 DEF ConnInv, ConnTypeOK
    <3>4. \A x \in Versions : x # v => task'[x] = task[x]
      BY <1>1, <3>1
    <3>5. v \in givenUp' \/ task'[v] > 0
      BY <1>1, <3>1
    <3>6. \A x \in Versions : DeletionDue(x) => DeletionDue(x)'
      BY <2>1, <3>1, <3>4, <3>5 DEF DeletionDue
    <3>7. \A x \in cache.ver + 1..db.ver : x \in Versions
      BY <1>1 DEF Versions
    <3>8. StaleExplained'
      BY <2>1, <3>1, <3>6, <3>7 DEF ConnInv, StaleExplained
    <3> QED  BY <2>1, <3>3, <3>8 DEF ConnInv
  <2> QED  BY <1>3, <2>2, <2>3
<1>4. CASE Expire
  <2>1. UNCHANGED <<db, mine, by, pc, got, raced, task, givenUp>> /\ cache' = Nothing
    BY <1>4 DEF Expire, rows
  <2>2. ConnTypeOK' /\ StaleExplained'
    BY <1>2, <2>1 DEF ConnInv, ConnTypeOK, StaleExplained
  <2> QED  BY <2>1, <2>2 DEF ConnInv
<1> QED  BY <1>3, <1>4

\* A crash gives up the deletions of its instance.
LEMMA ConnCrash ==
  ASSUME ConnInv, NEW n \in Keys, Crash(n)
  PROVE  ConnInv'
<1> DEFINE dead  == {p \in Procs : Node[p] = n}
           tasks == {v \in Versions : task[v] > 0 /\ by[v] \in dead}
           late  == {mine[w] : w \in {x \in Writers \cap dead : pc[x] = "del"}}
<1>1. /\ db \in [ver : 0..MaxVersion, present : BOOLEAN] /\ db.ver \in 0..MaxVersion
      /\ cache \in [kind : {"none", "value", "placeholder", "corrupt"}, ver : 0..db.ver]
      /\ got \in [Readers -> [ver : 0..db.ver, present : BOOLEAN]]
      /\ pc \in [Procs -> {"ready", "take", "purge", "query", "fill", "del"}]
      /\ mine \in [Writers -> 0..db.ver] /\ task \in [Versions -> 0..Attempts] /\ givenUp \subseteq Versions
      /\ MaxVersion \in Nat /\ Attempts \in Nat /\ 0 \in 0..db.ver /\ 0 \in 0..Attempts
  BY BoundsAssumption DEF ConnInv, ConnTypeOK
<1>2. /\ pc' = [p \in Procs |-> IF p \in dead THEN "ready" ELSE pc[p]]
      /\ task' = [v \in Versions |-> IF v \in tasks THEN 0 ELSE task[v]]
      /\ givenUp' = givenUp \cup tasks \cup late
      /\ mine' = [w \in Writers |-> IF w \in dead THEN 0 ELSE mine[w]]
      /\ got' = [p \in Readers |-> IF p \in dead THEN NoRow ELSE got[p]]
      /\ UNCHANGED <<db, by, cache, raced>>
  BY DEF Crash
<1>3. late \subseteq Versions /\ tasks \subseteq Versions
  BY DEF ConnInv
<1>4. NoRow \in [ver : 0..db.ver, present : BOOLEAN]
  BY <1>1 DEF NoRow
<1> HIDE DEF dead, tasks, late
<1>5. /\ pc' \in [Procs -> {"ready", "take", "purge", "query", "fill", "del"}] /\ givenUp' \subseteq Versions
      /\ task' \in [Versions -> 0..Attempts] /\ mine' \in [Writers -> 0..db.ver]
  BY <1>1, <1>2, <1>3
<1>6. got' \in [Readers -> [ver : 0..db.ver, present : BOOLEAN]]
  BY <1>1, <1>2, <1>4
<1>7. ConnTypeOK'
  BY <1>1, <1>2, <1>5, <1>6 DEF ConnInv, ConnTypeOK
<1>8. Writers \subseteq Procs
  BY NodesAssumption
<1>9. \A v \in Versions : DeletionDue(v) => DeletionDue(v)'
  <2> SUFFICES ASSUME NEW v \in Versions, DeletionDue(v) PROVE DeletionDue(v)'
    OBVIOUS
  <2>1. CASE v \in givenUp
    BY <1>2, <2>1 DEF DeletionDue
  <2>2. CASE task[v] > 0
    <3>1. v \in tasks \/ task'[v] = task[v]
      BY <1>2
    <3> QED  BY <1>2, <2>2, <3>1 DEF DeletionDue
  <2>3. ASSUME NEW w \in Writers, pc[w] = "del", mine[w] = v PROVE DeletionDue(v)'
    <3>1. CASE w \in dead
      <4>1. v \in late
        BY <2>3, <3>1 DEF late
      <4> QED  BY <1>2, <4>1 DEF DeletionDue
    <3>2. CASE w \notin dead
      <4>1. pc'[w] = "del" /\ mine'[w] = v
        BY <1>2, <1>8, <2>3, <3>2
      <4> QED  BY <4>1 DEF DeletionDue
    <3> QED  BY <3>1, <3>2
  <2> QED  BY <2>1, <2>2, <2>3 DEF DeletionDue
<1>10. \A v \in cache.ver + 1..db.ver : v \in Versions
  BY <1>1 DEF Versions
<1>11. StaleExplained'
  BY <1>2, <1>9, <1>10 DEF ConnInv, StaleExplained
<1>12. \A w \in Writers : pc'[w] = "del" => pc[w] = "del" /\ mine'[w] = mine[w]
  BY <1>2, <1>8
<1> QED  BY <1>7, <1>11, <1>12 DEF ConnInv

\* Every step keeps the invariant.
LEMMA ConnStep == ConnInv /\ [ConnNext]_connVars => ConnInv'
<1> SUFFICES ASSUME ConnInv, [ConnNext]_connVars PROVE ConnInv'
  OBVIOUS
<1>1. CASE UNCHANGED connVars
  <2>1. UNCHANGED <<db, cache, pc, got, mine, task, by, givenUp, raced>>
    BY <1>1 DEF connVars
  <2> QED  BY <2>1 DEF ConnInv, ConnTypeOK, StaleExplained, DeletionDue
<1> QED  BY <1>1, ConnReads, ConnWrites, ConnCleans, ConnCrash DEF ConnNext

\* CachedConn.Exec and QueryRow, whatever the schedule, the failures of Redis and
\* the crashes: a cached row that is older than the database has its deletions
\* still to come or given up, or was filled in by a read that a write overtook.
THEOREM CacheAlwaysExplained == ConnSpec => []CacheExplained
<1>1. ConnInv => CacheExplained
  BY DEF ConnInv, CacheExplained
<1> QED  BY <1>1, ConnStart, ConnStep, PTL DEF ConnSpec

\* The SETNX of cacheNode.setCacheWithNotFound keeps a placeholder from taking
\* the place of a row.
THEOREM RowNeverHidden == ConnSpec => RowNotHidden
<1>1. [ConnNext]_connVars => [cache.kind = "value" => cache'.kind # "placeholder"]_connVars
  <2> SUFFICES ASSUME ConnNext, cache.kind = "value" PROVE cache'.kind # "placeholder"
    OBVIOUS
  <2>1. \/ cache' = cache \/ cache' = Nothing
        \/ \E p \in Readers : cache' = [kind |-> IF got[p].present THEN "value" ELSE "placeholder", ver |-> got[p].ver]
                              /\ (got[p].present \/ cache.kind = "none")
    BY DEF ConnNext, Reading, QueryRow, GetHit, GetFails, GetMiss, GetCorrupt, Purge, Query, QueryFails, Fill,
           FillFails, LeaveFlight, QueryReturns, Exec, DelCache, DelFails, CleanDeletes, CleanFails, Expire, Crash
  <2> QED  BY <2>1 DEF Nothing
<1> QED  BY <1>1, PTL DEF ConnSpec, RowNotHidden

-----------------------------------------------------------------------------
\* A reader past the lookup is in fn, and who is in fn, or has still to delete
\* its call, is the one its instance's single flight knows.
FlightInv ==
  /\ phase \in [Procs -> {"out", "wait", "fn", "delete", "done", "return"}]
  /\ \A p \in Readers : pc[p] \in {"purge", "query", "fill"} => phase[p] = "fn"
  /\ \A p \in Procs : phase[p] \in {"fn", "delete"} => Node[p] \in DOMAIN calls /\ calls[Node[p]] = p

\* No call is made at the start.
LEMMA FlightStart == ConnInit => FlightInv
  BY NodesAssumption DEF ConnInit, FlightInit, FlightInv

\* Steps that leave the calls and the readers alone keep the flights.
LEMMA FlightOther ==
  ASSUME FlightInv, UNCHANGED <<calls, phase>>,
         \A p \in Readers : pc'[p] = pc[p] \/ phase[p] = "fn" \/ pc'[p] \notin {"purge", "query", "fill"}
  PROVE  FlightInv'
  BY DEF FlightInv

\* A new call is the first of its instance.
LEMMA FlightCreate ==
  ASSUME ConnTypeOK, FlightInv, NEW p \in Readers, QueryRow(p)
  PROVE  FlightInv'
<1>1. p \in Procs /\ Readers \subseteq Procs
  BY NodesAssumption
<1>2. pc' = [pc EXCEPT ![p] = "take"] /\ pc \in [Procs -> {"ready", "take", "purge", "query", "fill", "del"}]
  BY DEF QueryRow, Goto, ConnTypeOK
<1>3. \A q \in Readers : q # p => pc'[q] = pc[q]
  BY <1>1, <1>2
<1>4. pc'[p] = "take"
  BY <1>1, <1>2
<1>5. CASE Node[p] \in DOMAIN calls
  <2>1. phase' = [phase EXCEPT ![p] = "wait"] /\ calls' = calls
    BY <1>5 DEF QueryRow, CreateCall
  <2> QED  BY <1>1, <1>3, <1>4, <2>1 DEF FlightInv
<1>6. CASE Node[p] \notin DOMAIN calls
  <2>1. phase' = [phase EXCEPT ![p] = "fn"] /\ calls' = WithCall(Node[p], p)
    BY <1>6 DEF QueryRow, CreateCall
  <2>2. calls' = [k \in DOMAIN calls \cup {Node[p]} |-> IF k = Node[p] THEN p ELSE calls[k]]
    BY <2>1 DEF WithCall
  <2>3. Node[p] \in DOMAIN calls' /\ calls'[Node[p]] = p
    BY <2>2
  <2>4. \A k \in DOMAIN calls : k \in DOMAIN calls' /\ calls'[k] = calls[k]
    BY <1>6, <2>2
  <2> QED  BY <1>1, <1>3, <1>4, <2>1, <2>3, <2>4 DEF FlightInv
<1> QED  BY <1>5, <1>6

\* The end of fn is known to those that joined the call.
LEMMA FlightFn ==
  ASSUME ConnTypeOK, FlightInv, NEW p \in Readers, NEW r, FnReturns(p, r),
         (pc' = pc /\ pc[p] = "take") \/ pc' = [pc EXCEPT ![p] = "take"]
  PROVE  FlightInv'
<1>1. p \in Procs /\ Readers \subseteq Procs /\ pc \in [Procs -> {"ready", "take", "purge", "query", "fill", "del"}]
  BY NodesAssumption DEF ConnTypeOK
<1>2. pc'[p] = "take" /\ \A q \in Readers : q # p => pc'[q] = pc[q]
  BY <1>1
<1>3. phase' = [phase EXCEPT ![p] = "delete"] /\ calls' = calls /\ phase[p] = "fn"
  BY DEF FnReturns
<1> QED  BY <1>1, <1>2, <1>3 DEF FlightInv

\* The leader leaves when its call is over.
LEMMA FlightLeaves ==
  ASSUME ConnTypeOK, FlightInv, NEW p \in Readers, LeaveFlight(p) \/ QueryReturns(p)
  PROVE  FlightInv'
<1>1. p \in Procs /\ Readers \subseteq Procs /\ pc \in [Procs -> {"ready", "take", "purge", "query", "fill", "del"}]
  BY NodesAssumption DEF ConnTypeOK
<1>2. pc'[p] \in {"take", "ready"} /\ \A q \in Readers : q # p => pc'[q] = pc[q]
  BY <1>1 DEF LeaveFlight, QueryReturns, Goto
<1>3. CASE DeleteCall(p)
  <2>1. phase' = [phase EXCEPT ![p] = "done"] /\ calls' = [k \in {x \in DOMAIN calls : calls[x] # p} |-> calls[k]]
    BY <1>3 DEF DeleteCall, Restrict
  <2>2. \A k \in DOMAIN calls : calls[k] # p => k \in DOMAIN calls' /\ calls'[k] = calls[k]
    BY <2>1
  <2> QED  BY <1>1, <1>2, <2>1, <2>2 DEF FlightInv
<1>4. CASE Done(p)
  <2>1. calls' = calls /\ phase' = [q \in Procs |-> IF q \in Waiters(p) \cup {p} THEN "return" ELSE phase[q]]
    BY <1>4 DEF Done
  <2>2. \A q \in Waiters(p) \cup {p} : phase[q] \in {"wait", "done"}
    BY <1>4 DEF Waiters, Done
  <2> QED  BY <1>1, <1>2, <2>1, <2>2 DEF FlightInv
<1>5. CASE DoReturns(p)
  BY <1>1, <1>2, <1>5 DEF FlightInv, DoReturns
<1> QED  BY <1>3, <1>4, <1>5 DEF LeaveFlight, QueryReturns

\* The steps of a reader keep the flights.
LEMMA FlightReads ==
  ASSUME ConnTypeOK, FlightInv, NEW p \in Readers, Reading(p)
  PROVE  FlightInv'
<1>1. p \in Procs /\ Readers \subseteq Procs /\ pc \in [Procs -> {"ready", "take", "purge", "query", "fill", "del"}]
  BY NodesAssumption DEF ConnTypeOK
<1>2. CASE GetMiss(p) \/ GetCorrupt(p) \/ Purge(p) \/ Query(p)
  <2>1. /\ UNCHANGED <<calls, phase>>
        /\ \/ phase[p] = "fn"
           \/ pc[p] \in {"purge", "query"}
    BY <1>2 DEF GetMiss, GetCorrupt, Purge, Query, flight
  <2>2. phase[p] = "fn"
    BY <2>1 DEF FlightInv
  <2>3. \A q \in Readers : q # p => pc'[q] = pc[q]
    BY <1>1, <1>2 DEF GetMiss, GetCorrupt, Purge, Query, Goto
  <2> QED  BY <2>1, <2>2, <2>3, FlightOther
<1>3. CASE GetHit(p) \/ GetFails(p) \/ QueryFails(p) \/ Fill(p) \/ FillFails(p)
  <2>1. \E r : FnReturns(p, r)
    BY <1>3 DEF GetHit, GetFails, QueryFails, Fill, FillFails
  <2>2. (pc' = pc /\ pc[p] = "take") \/ pc' = [pc EXCEPT ![p] = "take"]
    BY <1>3 DEF GetHit, GetFails, QueryFails, Fill, FillFails, Goto
  <2> QED  BY <2>1, <2>2, FlightFn
<1> QED  BY <1>2, <1>3, FlightLeaves DEF Reading

\* A crash ends the calls of its instance with their leaders.
LEMMA FlightCrash ==
  ASSUME FlightInv, NEW n \in Keys, Crash(n)
  PROVE  FlightInv'
<1> DEFINE dead == {p \in Procs : Node[p] = n}
<1>1. /\ pc' = [p \in Procs |-> IF p \in dead THEN "ready" ELSE pc[p]]
      /\ phase' = [p \in Procs |-> IF p \in dead THEN "out" ELSE phase[p]]
      /\ calls' = [k \in DOMAIN calls \ {n} |-> calls[k]]
  BY DEF Crash, Restrict
<1>2. Readers \subseteq Procs
  BY NodesAssumption
<1>3. \A k \in DOMAIN calls : k # n => k \in DOMAIN calls' /\ calls'[k] = calls[k]
  BY <1>1
<1>4. \A p \in Procs : p \notin dead => Node[p] # n /\ pc'[p] = pc[p] /\ phase'[p] = phase[p]
  BY <1>1
<1>5. \A p \in dead : pc'[p] = "ready" /\ phase'[p] = "out"
  BY <1>1
<1>6. phase' \in [Procs -> {"out", "wait", "fn", "delete", "done", "return"}]
  BY <1>1 DEF FlightInv
<1> QED  BY <1>2, <1>3, <1>4, <1>5, <1>6 DEF FlightInv

\* Every step keeps the flights.
LEMMA FlightStep == ConnTypeOK /\ FlightInv /\ [ConnNext]_connVars => FlightInv'
<1> SUFFICES ASSUME ConnTypeOK, FlightInv, [ConnNext]_connVars PROVE FlightInv'
  OBVIOUS
<1>1. Readers \subseteq Procs /\ Writers \subseteq Procs /\ Readers \cap Writers = {}
  BY NodesAssumption
<1>2. ASSUME NEW w \in Writers, Exec(w) \/ DelCache(w) \/ DelFails(w) PROVE FlightInv'
  <2>1. UNCHANGED <<calls, phase>> /\ \A q \in Readers : pc'[q] = pc[q]
    BY <1>1, <1>2 DEF Exec, DelCache, DelFails, Goto, flight, ConnTypeOK
  <2> QED  BY <2>1, FlightOther
<1>3. CASE (\E v \in Versions : CleanDeletes(v) \/ CleanFails(v)) \/ Expire \/ UNCHANGED connVars
  <2>1. UNCHANGED <<calls, phase, pc>>
    BY <1>3 DEF CleanDeletes, CleanFails, Expire, flight, connVars
  <2> QED  BY <2>1, FlightOther
<1> QED  BY <1>2, <1>3, FlightCreate, FlightReads, FlightCrash DEF ConnNext

\* The barrier of cacheNode.doTake lets one goroutine of an instance query the
\* row at a time, also when calls panic and instances crash.
THEOREM AlwaysOneQuery == ConnSpec => []OneQuery
<1>1. ConnInv => ConnTypeOK
  BY DEF ConnInv
<1>2. FlightInv => OneQuery
  BY NodesAssumption DEF FlightInv, OneQuery
<1> QED  BY <1>1, <1>2, ConnStart, ConnStep, FlightStart, FlightStep, PTL DEF ConnSpec

-----------------------------------------------------------------------------
(***************************************************************************)
(* The lock and the token bucket kept in Redis, for any number of clients, *)
(* any leases, rates and bursts, and any number of lost answers.           *)
(*                                                                         *)
(* The lock: what a client knows of its lease is never more than what      *)
(* Redis keeps for it, also while an answer is on its way (LockInv).       *)
(*                                                                         *)
(* The bucket: what was given and what is left is covered by the refill up *)
(* to the stored time.  When the keys have expired the bucket is full      *)
(* again, and the time to live is long enough to have filled it            *)
(* (BucketInv).                                                            *)
(***************************************************************************)

LockTypes ==
  /\ clock \in Nat /\ lockExpiry \in Nat
  /\ seconds \in [Lockers -> Nat] /\ called \in [Lockers -> Nat] /\ until \in [Lockers -> Nat]
  /\ locker \in [Lockers -> {"out", "acquire", "ok", "release", "released"}]

\* Redis keeps the key for l up to time t, or t has passed.
Kept(l, t) == t > clock => owner = l /\ lockExpiry >= t

\* What the client knows; what the answer on its way will tell it; a renewal
\* that is called gives up what it would not confirm; and so does a release.
LeaseKept(l) == Kept(l, until[l])
AnswerKept(l) == locker[l] = "ok" => Kept(l, called[l] + seconds[l])
AcquireCalled(l) ==
  locker[l] \in {"acquire", "ok"} => called[l] <= clock /\ until[l] <= called[l] + seconds[l]
ReleaseCalled(l) == locker[l] \in {"release", "released"} => until[l] = 0

LockInv ==
  /\ LockTypes
  /\ \A l \in Lockers : LeaseKept(l) /\ AnswerKept(l) /\ AcquireCalled(l) /\ ReleaseCalled(l)

\* The invariant of the lock holds at the start.
LEMMA LockStart == LockInit => LockInv
<1> SUFFICES ASSUME LockInit PROVE LockInv
  OBVIOUS
<1>1. seconds \in [Lockers -> Nat]
  BY LeasesPositive DEF LockInit
<1> QED  BY <1>1 DEF LockInit, ClockInit, LockInv, LockTypes, Kept, LeaseKept, AnswerKept,
         AcquireCalled, ReleaseCalled

\* The steps that leave the key and the clock alone.
LEMMA ClientStep ==
  ASSUME LockInv, NEW l \in Lockers,
         \/ Acquire(l) \/ Acquired(l) \/ AnswerLost(l) \/ Release(l) \/ Released(l)
         \/ \E s \in Leases : SetExpire(l, s)
  PROVE  LockInv'
<1> USE DEF LockInv, LockTypes, Kept, LeaseKept, AnswerKept, AcquireCalled,
        ReleaseCalled, LockerAt
<1>1. CASE Acquire(l)                         BY <1>1 DEF Acquire
<1>2. CASE Acquired(l)                        BY <1>2 DEF Acquired
<1>3. CASE AnswerLost(l)                      BY <1>3 DEF AnswerLost
<1>4. CASE Release(l)                         BY <1>4 DEF Release
<1>5. CASE Released(l)                        BY <1>5 DEF Released
<1>6. CASE \E s \in Leases : SetExpire(l, s)  BY <1>6, LeasesPositive DEF SetExpire
<1> QED  BY <1>1, <1>2, <1>3, <1>4, <1>5, <1>6

\* A key that is given to l was kept for nobody else.
LEMMA LockScriptStep ==
  ASSUME LockInv, NEW l \in Lockers, LockScript(l)
  PROVE  LockInv'
<1> USE NoOwnerIsNobody
<1>1. CASE Owned(l) \/ Unowned
  <2>1. \A k \in Lockers, t \in Nat : k # l /\ Kept(k, t) => t <= clock
    BY <1>1 DEF Kept, Owned, Unowned, LockInv, LockTypes
  <2>2. /\ owner' = l /\ lockExpiry' = clock + seconds[l]
        /\ locker' = [locker EXCEPT ![l] = "ok"]
        /\ UNCHANGED <<clock, seconds, called, until>>
    BY <1>1 DEF LockScript, LockerAt
  <2>3. LockTypes'
    BY <2>2 DEF LockInv, LockTypes
  <2>4. LeaseKept(l)' /\ AnswerKept(l)' /\ AcquireCalled(l)' /\ ReleaseCalled(l)'
    BY <2>2 DEF LockScript, LockInv, LockTypes, Kept, LeaseKept, AnswerKept, AcquireCalled,
       ReleaseCalled
  <2>5. ASSUME NEW k \in Lockers, k # l
        PROVE  LeaseKept(k)' /\ AnswerKept(k)' /\ AcquireCalled(k)' /\ ReleaseCalled(k)'
    <3>1. until[k] <= clock /\ (locker[k] = "ok" => called[k] + seconds[k] <= clock)
      BY <2>1, <2>5 DEF LockInv, LockTypes, LeaseKept, AnswerKept
    <3> QED  BY <2>2, <2>5, <3>1 DEF LockInv, LockTypes, Kept, LeaseKept, AnswerKept,
             AcquireCalled, ReleaseCalled
  <2> QED  BY <2>3, <2>4, <2>5 DEF LockInv
<1>2. CASE ~(Owned(l) \/ Unowned)
  BY <1>2 DEF LockScript, LockerAt, LockInv, LockTypes, Kept, LeaseKept, AnswerKept,
     AcquireCalled, ReleaseCalled
<1> QED  BY <1>1, <1>2

\* Only the key of the client that asks is deleted, and it gave up its lease.
LEMMA DelScriptStep ==
  ASSUME LockInv, NEW l \in Lockers, DelScript(l)
  PROVE  LockInv'
<1>1. CASE Owned(l)
  <2>1. \A k \in Lockers, t \in Nat : k # l /\ Kept(k, t) => t <= clock
    BY <1>1 DEF Kept, Owned, LockInv, LockTypes
  <2>2. /\ owner' = NoOwner /\ lockExpiry' = 0
        /\ locker' = [locker EXCEPT ![l] = "released"]
        /\ UNCHANGED <<clock, seconds, called, until>>
    BY <1>1 DEF DelScript, LockerAt
  <2>3. LockTypes'
    BY <2>2 DEF LockInv, LockTypes
  <2>4. LeaseKept(l)' /\ AnswerKept(l)' /\ AcquireCalled(l)' /\ ReleaseCalled(l)'
    BY <2>2 DEF DelScript, LockInv, LockTypes, Kept, LeaseKept, AnswerKept, AcquireCalled,
       ReleaseCalled
  <2>5. ASSUME NEW k \in Lockers, k # l
        PROVE  LeaseKept(k)' /\ AnswerKept(k)' /\ AcquireCalled(k)' /\ ReleaseCalled(k)'
    <3>1. until[k] <= clock /\ (locker[k] = "ok" => called[k] + seconds[k] <= clock)
      BY <2>1, <2>5 DEF LockInv, LockTypes, LeaseKept, AnswerKept
    <3> QED  BY <2>2, <2>5, <3>1 DEF LockInv, LockTypes, Kept, LeaseKept, AnswerKept,
             AcquireCalled, ReleaseCalled
  <2> QED  BY <2>3, <2>4, <2>5 DEF LockInv
<1>2. CASE ~Owned(l)
  BY <1>2 DEF DelScript, LockerAt, LockInv, LockTypes, Kept, LeaseKept, AnswerKept,
     AcquireCalled, ReleaseCalled
<1> QED  BY <1>1, <1>2

\* Every step keeps the invariant of the lock.
LEMMA LockStep == LockInv /\ [LockNext]_lockVars => LockInv'
<1> SUFFICES ASSUME LockInv, [LockNext]_lockVars PROVE LockInv'
  OBVIOUS
<1>1. CASE LockTick
  BY <1>1 DEF LockTick, Tick, LockInv, LockTypes, Kept, LeaseKept, AnswerKept,
     AcquireCalled, ReleaseCalled
<1>2. CASE UNCHANGED lockVars
  BY <1>2 DEF lockVars, lockState, LockInv, LockTypes, Kept, LeaseKept, AnswerKept,
     AcquireCalled, ReleaseCalled
<1> QED  BY <1>1, <1>2, ClientStep, LockScriptStep, DelScriptStep DEF LockNext

\* While its lease lasts the key leaves its owner only by the owner's release.
LEMMA KeyStep ==
  ASSUME LockInv, [LockNext]_lockVars, NEW l \in Lockers, Owned(l), owner' # l
  PROVE  locker[l] = "release" /\ clock' = clock
<1>1. ASSUME NEW k \in Lockers, LockScript(k) PROVE FALSE
  BY <1>1, NoOwnerIsNobody DEF LockScript, Owned, Unowned, LockInv, LockTypes
<1>2. ASSUME NEW k \in Lockers, DelScript(k) PROVE locker[l] = "release" /\ clock' = clock
  BY <1>2 DEF DelScript, Owned
<1> QED  BY <1>1, <1>2 DEF Owned, LockNext, Acquire, Acquired, AnswerLost, Release, Released,
         SetExpire, LockTick, lockVars, lockState

\* RedisLock excludes: a client whose lease, counted from its call of Acquire,
\* lasts and that has not called Release owns the key, and nobody else can take
\* or delete it, whichever requests and answers are lost or late.
THEOREM LockExcludes == LockSpec => LockSafe
<1>1. LockInit => LockInv
  BY LockStart
<1>2. LockInv /\ [LockNext]_lockVars => LockInv'
  BY LockStep
<1>3. LockInv => LeaseExclusive
  BY DEF LockInv, LockTypes, LeaseKept, Kept, LeaseExclusive, Owned
<1>4. LockInv /\ [LockNext]_lockVars
      => [\A l \in Lockers : Owned(l) /\ owner' # l => locker[l] = "release" /\ clock' = clock]_lockVars
  BY KeyStep
<1> QED  BY <1>1, <1>2, <1>3, <1>4, PTL DEF LockSpec, LockSafe, KeyProtected

-----------------------------------------------------------------------------
TokenTypes ==
  /\ clock \in Nat \ {0} /\ rate \in Nat \ {0} /\ burst \in Nat \ {0}
  /\ tokens \in Nat /\ stamp \in Nat /\ expiry \in Nat /\ granted \in Nat /\ lateness \in Nat
  /\ callTime \in [Callers -> Nat] /\ \A c \in Callers : callTime[c] <= clock

\* Before the first script there are no keys; after it, what was given and what
\* is left came from the burst and the refill, and the keys outlive the stored
\* time by a positive ttl.
NoKeys == expiry = 0 /\ granted = 0
Covered == granted + tokens <= burst + rate * (stamp - 1 + lateness)
KeysKept == Ttl > 0 /\ stamp <= clock /\ expiry >= stamp + Ttl

BucketInv == TokenTypes /\ (NoKeys \/ (Covered /\ KeysKept))

\* A product with a natural number is monotone, and distributes.
LEMMA Scaled ==
  ASSUME NEW r \in Nat, NEW x \in Int, NEW y \in Int, x <= y
  PROVE  r * x <= r * y /\ r * x \in Int /\ r * y \in Int /\ r * (y - x) = r * y - r * x
  OBVIOUS

\* The time to live, when it is not zero, is long enough to fill the bucket.
LEMMA TtlFills ==
  ASSUME NEW r \in Nat \ {0}, NEW b \in Nat \ {0}, (2 * b) \div r > 0
  PROVE  r * ((2 * b) \div r) >= b
<1> DEFINE q == (2 * b) \div r
<1>1. q \in Nat /\ r * q <= 2 * b /\ 2 * b < r * q + r
  OBVIOUS
<1>2. r <= r * q
  BY <1>1
<1> QED  BY <1>1, <1>2

\* The time to live is zero only when the bucket fills in less than a second.
LEMMA TtlZero ==
  ASSUME NEW r \in Nat \ {0}, NEW b \in Nat \ {0}
  PROVE  (2 * b) \div r \in Nat /\ ((2 * b) \div r = 0 => r > 2 * b)
  OBVIOUS

\* What the script finds is never more than the burst.
LEMMA FilledBounds ==
  ASSUME BucketInv, NEW now \in Nat
  PROVE  /\ Filled(now) \in Nat /\ Filled(now) <= burst
         /\ Live /\ now <= stamp => Filled(now) <= tokens
         /\ Live /\ now > stamp => Filled(now) <= tokens + rate * (now - stamp)
<1> DEFINE refill == (IF now > LastRefreshed THEN now - LastRefreshed ELSE 0) * rate
<1>1. LastTokens \in Nat /\ LastRefreshed \in Nat
  BY DEF BucketInv, TokenTypes, LastTokens, LastRefreshed
<1>2. refill \in Nat
  BY <1>1 DEF BucketInv, TokenTypes
<1>3. Filled(now) = Min2(burst, LastTokens + refill)
  BY DEF Filled
<1>4. Filled(now) \in Nat /\ Filled(now) <= burst /\ Filled(now) <= LastTokens + refill
  BY <1>1, <1>2, <1>3 DEF Min2, BucketInv, TokenTypes
<1>5. Live /\ now <= stamp => LastTokens = tokens /\ refill = 0
  BY DEF Live, LastTokens, LastRefreshed, BucketInv, TokenTypes
<1>6. Live /\ now > stamp => LastTokens = tokens /\ refill = rate * (now - stamp)
  BY DEF Live, LastTokens, LastRefreshed, BucketInv, TokenTypes
<1> HIDE DEF refill
<1> QED  BY <1>1, <1>2, <1>4, <1>5, <1>6 DEF BucketInv, TokenTypes

\* What the script gives and leaves is covered by the refill up to now.
LEMMA FilledCovered ==
  ASSUME BucketInv, Ttl > 0, NEW now \in Nat, now <= clock
  PROVE  granted + Filled(now) <= burst + rate * (clock - 1 + lateness)
<1> DEFINE due(t) == rate * (t - 1 + lateness)
<1>0. /\ TokenTypes /\ Filled(now) \in Nat /\ Filled(now) <= burst
      /\ due(clock) \in Nat /\ due(stamp) \in Int
  BY FilledBounds DEF BucketInv, TokenTypes
<1>1. CASE NoKeys
  BY <1>0, <1>1 DEF NoKeys, TokenTypes
<1>2. CASE Covered /\ KeysKept /\ Live
  <2>1. CASE now <= stamp
    <3>1. due(stamp) <= due(clock)
      BY <1>2, Scaled DEF BucketInv, TokenTypes, KeysKept
    <3>2. Filled(now) <= tokens
      BY <1>2, <2>1, FilledBounds
    <3>3. granted + tokens <= burst + due(stamp)
      BY <1>2 DEF Covered
    <3> HIDE DEF due
    <3>4. granted + Filled(now) <= burst + due(clock)
      BY <1>0, <3>1, <3>2, <3>3 DEF TokenTypes
    <3> QED  BY <3>4 DEF due
  <2>2. CASE now > stamp
    <3>1. due(now) <= due(clock) /\ due(now) \in Int /\ rate * (now - stamp) = due(now) - due(stamp)
      <4>1. rate \in Nat /\ now - 1 + lateness \in Int /\ clock - 1 + lateness \in Int
            /\ stamp - 1 + lateness \in Int
            /\ stamp - 1 + lateness <= now - 1 + lateness
            /\ now - 1 + lateness <= clock - 1 + lateness
            /\ now - stamp = (now - 1 + lateness) - (stamp - 1 + lateness)
        BY <1>0, <2>2 DEF TokenTypes
      <4> QED  BY <4>1, Scaled
    <3>2. Filled(now) <= tokens + rate * (now - stamp)
      BY <1>2, <2>2, FilledBounds
    <3>3. granted + tokens <= burst + due(stamp)
      BY <1>2 DEF Covered
    <3> HIDE DEF due
    <3>4. Filled(now) <= tokens + (due(now) - due(stamp))
      BY <3>1, <3>2
    <3>5. granted + Filled(now) <= burst + due(clock)
      BY <1>0, <3>1, <3>3, <3>4 DEF TokenTypes
    <3> QED  BY <3>5 DEF due
  <2> QED  BY <1>0, <2>1, <2>2 DEF TokenTypes
<1>3. CASE Covered /\ KeysKept /\ ~Live
  <2>1. burst <= rate * Ttl /\ Ttl \in Nat
    BY <1>0, TtlFills, TtlZero DEF Ttl, TokenTypes
  <2>2. stamp + Ttl <= clock
    BY <1>0, <1>3, <2>1 DEF KeysKept, Live, TokenTypes
  <2>3. rate * Ttl <= due(clock) - due(stamp)
    <3>1. rate \in Nat /\ Ttl <= clock - stamp /\ clock - stamp \in Int
          /\ stamp - 1 + lateness \in Int /\ clock - 1 + lateness \in Int
          /\ stamp - 1 + lateness <= clock - 1 + lateness
          /\ clock - stamp = (clock - 1 + lateness) - (stamp - 1 + lateness)
      BY <1>0, <2>1, <2>2 DEF TokenTypes
    <3>2. rate * (clock - stamp) = due(clock) - due(stamp)
      BY <3>1, Scaled
    <3>3. rate * Ttl <= rate * (clock - stamp)
      BY <3>1, <2>1, Scaled
    <3> QED  BY <3>2, <3>3
  <2>4. granted + tokens <= burst + due(stamp)
    BY <1>3 DEF Covered
  <2>5. rate * Ttl \in Int
    BY <1>0, <2>1 DEF TokenTypes
  <2> HIDE DEF due
  <2>6. granted + Filled(now) <= burst + due(clock)
    BY <1>0, <2>1, <2>3, <2>4, <2>5 DEF TokenTypes
  <2> QED  BY <2>6 DEF due
<1> QED  BY <1>1, <1>2, <1>3 DEF BucketInv

\* Every run of the script keeps the bucket.
LEMMA ScriptStep ==
  ASSUME BucketInv, NEW c \in Callers, Script(c)
  PROVE  BucketInv'
<1> DEFINE now == callTime[c]
<1>1. /\ now \in Nat /\ now <= clock /\ TokenTypes /\ Ttl > 0 /\ Ttl \in Nat
  BY TtlZero DEF BucketInv, TokenTypes, Script, Ttl
<1>2. /\ Filled(now) \in Nat
      /\ granted + Filled(now) <= burst + rate * (clock - 1 + lateness)
  BY <1>1, FilledBounds, FilledCovered
<1>3. /\ tokens' = IF Filled(now) >= 1 THEN Filled(now) - 1 ELSE Filled(now)
      /\ granted' = IF Filled(now) >= 1 THEN granted + 1 ELSE granted
      /\ stamp' = now /\ expiry' = clock + Ttl /\ lateness' = lateness + (clock - now)
      /\ UNCHANGED <<clock, rate, burst, callTime>>
  BY DEF Script
<1>4. TokenTypes'
  BY <1>1, <1>2, <1>3 DEF TokenTypes
<1>5. stamp' - 1 + lateness' = clock - 1 + lateness
  BY <1>1, <1>3 DEF TokenTypes
<1>6. granted' + tokens' = granted + Filled(now)
  BY <1>1, <1>2, <1>3 DEF TokenTypes
<1>7. Covered'
  BY <1>2, <1>3, <1>5, <1>6 DEF Covered
<1>8. Ttl' = Ttl
  BY <1>3 DEF Ttl
<1>9. KeysKept'
  BY <1>1, <1>3, <1>8 DEF KeysKept, TokenTypes
<1> QED  BY <1>4, <1>7, <1>9 DEF BucketInv

\* The other steps leave the bucket alone; time passes and calls take the time.
LEMMA BucketStep == BucketInv /\ [TokenNext]_tokenVars => BucketInv'
<1> SUFFICES ASSUME BucketInv, [TokenNext]_tokenVars PROVE BucketInv'
  OBVIOUS
<1>0. TokenTypes /\ Ttl \in Nat
  BY TtlZero DEF BucketInv, TokenTypes, Ttl
<1>1. CASE UNCHANGED <<rate, burst, bucket, clock, callTime>>
  BY <1>1 DEF bucket, BucketInv, TokenTypes, NoKeys, Covered, KeysKept, Ttl
<1>2. ASSUME NEW c \in Callers, Allow(c) PROVE BucketInv'
  <2>1. TokenTypes'
    BY <1>0, <1>2 DEF Allow, bucket, TokenTypes
  <2> QED  BY <1>2, <2>1 DEF Allow, bucket, BucketInv, NoKeys, Covered, KeysKept, Ttl
<1>3. CASE TokenTick
  <2>1. TokenTypes'
    BY <1>0, <1>3 DEF TokenTick, Tick, bucket, calling, TokenTypes
  <2>2. UNCHANGED <<rate, burst, tokens, stamp, expiry, granted, lateness>> /\ clock' = clock + 1
    BY <1>3 DEF TokenTick, Tick, bucket
  <2>3. (NoKeys => NoKeys') /\ (Covered => Covered')
    BY <2>2 DEF NoKeys, Covered
  <2>4. KeysKept => KeysKept'
    BY <1>0, <2>2 DEF KeysKept, Ttl, TokenTypes
  <2> QED  BY <2>1, <2>3, <2>4 DEF BucketInv
<1>4. ASSUME NEW c \in Callers, Reserve(c) \/ ScriptFails(c) \/ StartMonitor(c)
      PROVE  UNCHANGED <<rate, burst, bucket, clock, callTime>>
  BY <1>4 DEF Reserve, ScriptFails, StartMonitor
<1>5. ASSUME Ping \/ MonitorEnds \/ RedisDown \/ RedisBack \/ UNCHANGED tokenVars
      PROVE  UNCHANGED <<rate, burst, bucket, clock, callTime>>
  BY <1>5 DEF Ping, MonitorEnds, RedisDown, RedisBack, tokenVars, tokenState, calling
<1> QED  BY <1>1, <1>2, <1>3, <1>4, <1>5, ScriptStep DEF TokenNext, Calling

\* The rate and the burst are positive.
LEMMA LimitPair == TokenInit => rate \in Nat \ {0} /\ burst \in Nat \ {0}
<1> SUFFICES ASSUME TokenInit PROVE rate \in Nat \ {0} /\ burst \in Nat \ {0}
  OBVIOUS
<1>1. PICK l \in Limits : rate = l[1] /\ burst = l[2]
  BY DEF TokenInit
<1> QED  BY <1>1, LimitsPositive

\* The bucket in Redis grants no more than the burst and rate tokens a second,
\* the seconds counted that scripts run late, although the keys expire and come
\* back full.
THEOREM GrantsAlwaysBounded == TokenSpec => []GrantsBounded
<1>1. TokenInit => BucketInv
  <2> SUFFICES ASSUME TokenInit PROVE BucketInv
    OBVIOUS
  <2>1. /\ clock = 1 /\ tokens = 0 /\ stamp = 0 /\ expiry = 0 /\ granted = 0 /\ lateness = 0
        /\ callTime = [c \in Callers |-> 0]
    BY DEF TokenInit, ClockInit
  <2> QED  BY <2>1, LimitPair DEF BucketInv, TokenTypes, NoKeys
<1>2. BucketInv /\ [TokenNext]_tokenVars => BucketInv'
  BY BucketStep
<1>3. BucketInv => GrantsBounded
  <2> SUFFICES ASSUME BucketInv PROVE GrantsBounded
    OBVIOUS
  <2>1. CASE NoKeys
    BY <2>1 DEF NoKeys, BucketInv, TokenTypes, GrantsBounded
  <2>2. CASE Covered /\ KeysKept
    <3>1. rate * (stamp - 1 + lateness) <= rate * (clock - 1 + lateness)
      BY <2>2, Scaled DEF BucketInv, TokenTypes, KeysKept
    <3> QED  BY <2>2, <3>1 DEF Covered, BucketInv, TokenTypes, GrantsBounded
  <2> QED  BY <2>1, <2>2 DEF BucketInv
<1> QED  BY <1>1, <1>2, <1>3, PTL DEF TokenSpec

-----------------------------------------------------------------------------
\* Why a call may fail: an outage was counted, or the ttl is zero.
FailureExplained == outages > 0 \/ rate > 2 * burst

RescueTypes ==
  /\ rate \in Nat \ {0} /\ burst \in Nat \ {0} /\ outages \in Nat
  /\ redisUp \in BOOLEAN /\ redisAlive \in BOOLEAN /\ monitorStarted \in BOOLEAN
  /\ caller \in [Callers -> {"out", "reserve", "script", "failed"}]

RescueInv ==
  /\ RescueTypes
  /\ MonitorLives
  /\ redisUp = FALSE => FailureExplained
  /\ redisAlive = FALSE => FailureExplained
  /\ \A c \in Callers : caller[c] = "failed" => FailureExplained

\* Every step keeps the rescue limiter's invariant.
LEMMA RescueStep == RescueInv /\ [TokenNext]_tokenVars => RescueInv'
<1> SUFFICES ASSUME RescueInv, [TokenNext]_tokenVars PROVE RescueInv'
  OBVIOUS
<1> USE DEF RescueInv, RescueTypes, MonitorLives, CallerAt, store, rescue, calling
<1>1. ASSUME NEW c \in Callers, Allow(c) \/ Reserve(c) PROVE RescueInv'
  BY <1>1 DEF Allow, Reserve, FailureExplained
<1>2. ASSUME NEW c \in Callers, Script(c) PROVE RescueInv'
  BY <1>2 DEF Script, FailureExplained
<1>3. ASSUME NEW c \in Callers, ScriptFails(c) PROVE RescueInv'
  <2>1. FailureExplained
    BY <1>3, TtlZero DEF ScriptFails, Ttl, FailureExplained
  <2>2. FailureExplained'
    BY <1>3, <2>1 DEF ScriptFails, FailureExplained
  <2> QED  BY <1>3, <2>2 DEF ScriptFails
<1>4. ASSUME NEW c \in Callers, StartMonitor(c) PROVE RescueInv'
  <2>1. FailureExplained
    BY <1>4 DEF StartMonitor
  <2>2. FailureExplained'
    BY <1>4, <2>1 DEF StartMonitor, FailureExplained
  <2> QED  BY <1>4, <2>2 DEF StartMonitor
<1>5. CASE Ping
  BY <1>5 DEF Ping, FailureExplained
<1>6. CASE MonitorEnds
  BY <1>6 DEF MonitorEnds, FailureExplained
<1>7. CASE RedisDown
  <2>1. FailureExplained'
    BY <1>7 DEF RedisDown, FailureExplained
  <2>2. redisUp' = FALSE /\ outages' = outages + 1 /\ UNCHANGED <<rate, burst, rescue, caller>>
    BY <1>7 DEF RedisDown
  <2>3. RescueTypes'
    <3>1. outages' \in Nat
      BY <2>2
    <3>2. redisUp' \in BOOLEAN /\ redisAlive' \in BOOLEAN /\ monitorStarted' \in BOOLEAN
      BY <2>2, Zenon
    <3> QED  BY <2>2, <3>1, <3>2, Zenon
  <2>4. MonitorLives'
    BY <2>2
  <2> QED  BY <2>1, <2>3, <2>4
<1>8. CASE RedisBack
  BY <1>8 DEF RedisBack, FailureExplained
<1>9. CASE TokenTick \/ UNCHANGED tokenVars
  BY <1>9 DEF TokenTick, tokenVars, tokenState, FailureExplained
<1> QED  BY <1>1, <1>2, <1>3, <1>4, <1>5, <1>6, <1>7, <1>8, <1>9 DEF TokenNext, Calling

\* A limiter that has left Redis has a monitor pinging it, through every race of
\* failing calls with the monitor's end, and it left for an outage or a zero ttl.
THEOREM FallbackAlwaysSound == TokenSpec => []FallbackSound
<1>1. TokenInit => RescueInv
  <2> SUFFICES ASSUME TokenInit PROVE RescueInv
    OBVIOUS
  <2>1. /\ redisUp = TRUE /\ redisAlive = TRUE /\ monitorStarted = FALSE /\ outages = 0
        /\ caller = [c \in Callers |-> "out"]
    BY DEF TokenInit
  <2>2. RescueTypes
    BY <2>1, LimitPair DEF RescueTypes
  <2> QED  BY <2>1, <2>2 DEF RescueInv, MonitorLives
<1>2. RescueInv /\ [TokenNext]_tokenVars => RescueInv'
  BY RescueStep
<1>3. RescueInv => FallbackSound
  BY DEF RescueInv, RescueTypes, FallbackSound, RescueExplained, FailureExplained
<1> QED  BY <1>1, <1>2, <1>3, PTL DEF TokenSpec

-----------------------------------------------------------------------------
(***************************************************************************)
(* SafeMap for every set of keys and values and every threshold: a key is  *)
(* in one of the two maps at most, and through Get the two are one map.    *)
(***************************************************************************)

MapTypes ==
  /\ dirtyOld \in [MapKeys -> MapValues \cup {Absent}]
  /\ dirtyNew \in [MapKeys -> MapValues \cup {Absent}]

MapInv == MapTypes /\ OneCopy

\* A pair of Go maps as Del computes them.
IsPair(m) ==
  /\ m = <<m[1], m[2], m[3], m[4]>>
  /\ m[1] \in [MapKeys -> MapValues \cup {Absent}]
  /\ m[3] \in [MapKeys -> MapValues \cup {Absent}]
  /\ Held(m[1]) \cap Held(m[3]) = {}

\* What Get finds in such a pair.
Found(m) == [k \in MapKeys |-> IF m[1][k] # Absent THEN m[1][k] ELSE m[3][k]]

\* Copying one map over another that shares no key with it keeps every entry of
\* both (the loops of Del).
LEMMA CopiedHeld ==
  ASSUME NEW into \in [MapKeys -> MapValues \cup {Absent}],
         NEW from \in [MapKeys -> MapValues \cup {Absent}],
         Held(into) \cap Held(from) = {}
  PROVE  /\ Copied(into, from) \in [MapKeys -> MapValues \cup {Absent}]
         /\ \A k \in MapKeys : from[k] # Absent => Copied(into, from)[k] = from[k]
         /\ \A k \in MapKeys : into[k] # Absent => Copied(into, from)[k] = into[k]
         /\ \A k \in MapKeys : into[k] = Absent /\ from[k] = Absent => Copied(into, from)[k] = Absent
  BY DEF Copied, Held

\* The empty map holds nothing.
LEMMA EmptyHeld ==
  /\ EmptyMap \in [MapKeys -> MapValues \cup {Absent}]
  /\ Held(EmptyMap) = {}
  BY DEF EmptyMap, Held

\* The first test of Del keeps the pair a pair, with the same entries.
LEMMA TurnedKeeps ==
  ASSUME NEW old \in [MapKeys -> MapValues \cup {Absent}], NEW dold,
         NEW new \in [MapKeys -> MapValues \cup {Absent}], NEW dnew,
         Held(old) \cap Held(new) = {}
  PROVE  /\ IsPair(Turned(old, dold, new, dnew))
         /\ Found(Turned(old, dold, new, dnew)) = Found(<<old, dold, new, dnew>>)
<1>1. CASE OldFull(old, dold)
  <2>1. Turned(old, dold, new, dnew) = <<Copied(new, old), dnew, EmptyMap, 0>>
    BY <1>1 DEF Turned
  <2>2. Copied(new, old) \in [MapKeys -> MapValues \cup {Absent}]
    BY CopiedHeld
  <2>3. IsPair(<<Copied(new, old), dnew, EmptyMap, 0>>)
    BY <2>2, EmptyHeld DEF IsPair
  <2>4. \A k \in MapKeys : (IF Copied(new, old)[k] # Absent THEN Copied(new, old)[k] ELSE EmptyMap[k])
                         = (IF old[k] # Absent THEN old[k] ELSE new[k])
    BY CopiedHeld DEF EmptyMap
  <2> QED BY <2>1, <2>3, <2>4 DEF Found
<1>2. CASE ~OldFull(old, dold)
  BY <1>2 DEF Turned, IsPair, Found
<1> QED BY <1>1, <1>2

\* And so does the second one.
LEMMA MergedKeeps ==
  ASSUME NEW m, IsPair(m)
  PROVE  IsPair(Merged(m)) /\ Found(Merged(m)) = Found(m)
<1>1. CASE OldFull(m[3], m[4])
  <2>1. Merged(m) = <<Copied(m[1], m[3]), m[2], EmptyMap, 0>>
    BY <1>1 DEF Merged
  <2>2. Copied(m[1], m[3]) \in [MapKeys -> MapValues \cup {Absent}]
    BY CopiedHeld DEF IsPair
  <2>3. IsPair(<<Copied(m[1], m[3]), m[2], EmptyMap, 0>>)
    BY <2>2, EmptyHeld DEF IsPair
  <2>4. \A k \in MapKeys : (IF Copied(m[1], m[3])[k] # Absent THEN Copied(m[1], m[3])[k] ELSE EmptyMap[k])
                         = (IF m[1][k] # Absent THEN m[1][k] ELSE m[3][k])
    BY CopiedHeld DEF EmptyMap, IsPair, Held
  <2> QED BY <2>1, <2>3, <2>4 DEF Found
<1>2. CASE ~OldFull(m[3], m[4])
  BY <1>2 DEF Merged
<1> QED BY <1>1, <1>2

\* Del leaves a pair in which the key has no value and the others have theirs.
LEMMA DelErases ==
  ASSUME MapInv, NEW k \in MapKeys, Del(k)
  PROVE  MapInv' /\ Contents' = [Contents EXCEPT ![k] = Absent]
<1> DEFINE inOld == dirtyOld[k] # Absent
           inNew == ~inOld /\ dirtyNew[k] # Absent
           old == [dirtyOld EXCEPT ![k] = Absent]
           new == IF inNew THEN [dirtyNew EXCEPT ![k] = Absent] ELSE dirtyNew
           dold == IF inOld THEN deletionOld + 1 ELSE deletionOld
           dnew == IF inNew THEN deletionNew + 1 ELSE deletionNew
           t == Turned(old, dold, new, dnew)
           r == Merged(t)
<1>1. /\ old \in [MapKeys -> MapValues \cup {Absent}]
      /\ new \in [MapKeys -> MapValues \cup {Absent}]
      /\ Held(old) \cap Held(new) = {}
  BY DEF MapInv, MapTypes, OneCopy, Held
<1>2. \A j \in MapKeys : (IF old[j] # Absent THEN old[j] ELSE new[j]) = [Contents EXCEPT ![k] = Absent][j]
  BY DEF MapInv, MapTypes, OneCopy, Held, Contents, Get
<1>3. Becomes(r)
  BY DEF Del
<1> HIDE DEF old, new, dold, dnew
<1>4. IsPair(t) /\ Found(t) = Found(<<old, dold, new, dnew>>)
  BY <1>1, TurnedKeeps
<1> HIDE DEF t
<1>5. IsPair(r) /\ Found(r) = Found(t)
  BY <1>4, MergedKeeps
<1> HIDE DEF r
<1>6. dirtyOld' = r[1] /\ dirtyNew' = r[3]
  BY <1>3 DEF Becomes
<1>7. MapInv'
  BY <1>5, <1>6 DEF IsPair, MapInv, MapTypes, OneCopy
<1>8. Contents' = Found(r)
  BY <1>6 DEF Contents, Get, Found
<1>9. Found(<<old, dold, new, dnew>>) = [Contents EXCEPT ![k] = Absent]
  BY <1>2 DEF Found, Contents
<1> QED BY <1>4, <1>5, <1>7, <1>8, <1>9

\* Set puts the key into one map and takes it out of the other.
LEMMA SetPuts ==
  ASSUME MapInv, NEW k \in MapKeys, NEW v \in MapValues, SetOld(k, v) \/ SetNew(k, v)
  PROVE  MapInv' /\ Contents' = [Contents EXCEPT ![k] = v]
<1>1. CASE SetOld(k, v)
  <2>1. /\ dirtyOld' = [dirtyOld EXCEPT ![k] = v]
        /\ dirtyNew' = [dirtyNew EXCEPT ![k] = Absent]
    BY <1>1 DEF SetOld
  <2>2. MapInv'
    BY <2>1 DEF MapInv, MapTypes, OneCopy, Held
  <2>3. \A j \in MapKeys : (IF dirtyOld'[j] # Absent THEN dirtyOld'[j] ELSE dirtyNew'[j])
                         = [Contents EXCEPT ![k] = v][j]
    BY <2>1 DEF MapInv, MapTypes, OneCopy, Held, Contents, Get
  <2> QED BY <2>2, <2>3 DEF Contents, Get
<1>2. CASE SetNew(k, v)
  <2>1. /\ dirtyOld' = [dirtyOld EXCEPT ![k] = Absent]
        /\ dirtyNew' = [dirtyNew EXCEPT ![k] = v]
    BY <1>2 DEF SetNew
  <2>2. MapInv'
    BY <2>1 DEF MapInv, MapTypes, OneCopy, Held
  <2>3. \A j \in MapKeys : (IF dirtyOld'[j] # Absent THEN dirtyOld'[j] ELSE dirtyNew'[j])
                         = [Contents EXCEPT ![k] = v][j]
    BY <2>1 DEF MapInv, MapTypes, OneCopy, Held, Contents, Get
  <2> QED BY <2>2, <2>3 DEF Contents, Get
<1> QED BY <1>1, <1>2

\* A step of the map is a step of the store, or changes nothing.
LEMMA MapStep ==
  ASSUME MapInv, [MapNext]_mapVars
  PROVE  MapInv' /\ [Store!StoreNext]_Contents
<1>1. CASE \E k \in MapKeys : Del(k)
  <2>1. PICK k \in MapKeys : Del(k)
    BY <1>1
  <2>2. MapInv' /\ Contents' = [Contents EXCEPT ![k] = Absent]
    BY <2>1, DelErases
  <2> QED BY <2>2 DEF Store!StoreNext, Store!Erase
<1>2. CASE \E k \in MapKeys, v \in MapValues : SetOld(k, v) \/ SetNew(k, v)
  <2>1. PICK k \in MapKeys, v \in MapValues : SetOld(k, v) \/ SetNew(k, v)
    BY <1>2
  <2>2. MapInv' /\ Contents' = [Contents EXCEPT ![k] = v]
    BY <2>1, SetPuts
  <2> QED BY <2>2 DEF Store!StoreNext, Store!Put
<1>3. CASE UNCHANGED mapVars
  BY <1>3 DEF mapVars, MapInv, MapTypes, OneCopy, Held, Contents, Get
<1> QED BY <1>1, <1>2, <1>3 DEF MapNext

\* It begins empty, and so does the store.
LEMMA MapStart == MapInit => MapInv /\ Store!StoreInit
  BY EmptyHeld DEF MapInit, MapInv, MapTypes, OneCopy, Store!StoreInit, Contents, Get, EmptyMap

\* A key is in at most one of the two Go maps, whatever the deletions turn.
THEOREM NeverInBoth == MapSpec => []OneCopy
<1>1. MapInit => MapInv
  BY MapStart
<1>2. MapInv /\ [MapNext]_mapVars => MapInv'
  BY MapStep
<1>3. MapInv => OneCopy
  BY DEF MapInv
<1> QED BY <1>1, <1>2, <1>3, PTL DEF MapSpec

INSTANCE FiniteSetTheorems

\* What Get finds is what one of the maps holds, and no key is counted twice.
LEMMA SizeCounts == MapInv => SizeExact
<1> SUFFICES ASSUME MapInv PROVE SizeExact
  OBVIOUS
<1>1. Held(Contents) = Held(dirtyOld) \cup Held(dirtyNew)
  BY DEF Held, Contents, Get
<1>2. Held(dirtyOld) \cap Held(dirtyNew) = {}
  BY DEF MapInv, OneCopy
<1>3. IsFiniteSet(Held(dirtyOld)) /\ IsFiniteSet(Held(dirtyNew))
  BY MapKeysFinite, FS_Subset DEF Held
<1>4. Cardinality(Held(dirtyOld) \cup Held(dirtyNew))
        = Cardinality(Held(dirtyOld)) + Cardinality(Held(dirtyNew)) - Cardinality({})
  BY <1>2, <1>3, FS_Union
<1>5. Cardinality(Held(dirtyOld)) \in Nat /\ Cardinality(Held(dirtyNew)) \in Nat
  BY <1>3, FS_CardinalityType
<1>6. Cardinality({}) = 0
  BY FS_EmptySet
<1> QED  BY <1>1, <1>4, <1>5, <1>6 DEF SizeExact, MapSize

\* SafeMap implements a map: Get gives the value last set, or none after Del,
\* through every copy from one Go map to the other.
THEOREM ImplementsMap == MapSpec => ImplementsStore
<1>1. MapInit => MapInv /\ Store!StoreInit
  BY MapStart
<1>2. MapInv /\ [MapNext]_mapVars => MapInv' /\ [Store!StoreNext]_Contents
  BY MapStep
<1> QED BY <1>1, <1>2, PTL DEF MapSpec, ImplementsStore, Store!StoreSpec

\* To its callers SafeMap is a map with an exact Size, through every copy from
\* one Go map to the other.
THEOREM SafeMapSound == MapSpec => MapSound
<1>1. MapInit => MapInv
  BY MapStart
<1>2. MapInv /\ [MapNext]_mapVars => MapInv'
  BY MapStep
<1>3. MapInv => OneCopy /\ SizeExact
  BY SizeCounts DEF MapInv
<1> QED  BY <1>1, <1>2, <1>3, ImplementsMap, PTL DEF MapSpec, MapSound
=============================================================================
