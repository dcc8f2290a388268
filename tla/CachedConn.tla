----------------------------- MODULE CachedConn -----------------------------
(***************************************************************************)
(* core/stores/sqlc/cachedsql.go and core/stores/cache/cachenode.go: one   *)
(* row of the database behind a Redis key, read by QueryRow and written by *)
(* Exec, from several instances of a service.                              *)
(*                                                                         *)
(* The row has a version, raised by every write, and is there or not.  The *)
(* cached content carries the version it was read from.  Redis and the     *)
(* database are external: a Redis command may fail, a key may expire at    *)
(* any time.  A single flight is per instance, so the instance is its key. *)
(* Failing database statements change nothing and are left out, as are the *)
(* hit counters; a cached text that does not unmarshal is "corrupt".       *)
(***************************************************************************)
EXTENDS SingleFlight

CONSTANTS Readers,     \* goroutines that call QueryRow
          Writers,     \* goroutines that call Exec
          MaxVersion,  \* bound: number of writes
          Attempts     \* number of delays in nextDelay, with the first

ASSUME NodesAssumption ==
  /\ Results = {"row", "notFound", "failed"}
  /\ Procs = Readers \cup Writers /\ Readers \cap Writers = {} /\ Writers # {}
  /\ \A p \in Procs : \E n \in Keys : p \in n
ASSUME BoundsAssumption == MaxVersion \in Nat /\ Attempts \in Nat \ {0}

\* An instance of the service is the set of its goroutines.
Node == [p \in Procs |-> CHOOSE n \in Keys : p \in n]

Versions == 1..MaxVersion

VARIABLES db,      \* the row: [ver, present]
          cache,   \* the Redis key: [kind, ver]
          pc,
          got,     \* what a reader has read from the database
          mine,    \* the version whose key a writer has still to delete
          task,    \* clean tasks: the attempt that is next, 0 if none
          by,      \* the writer of each version
          givenUp, \* history: versions whose deletion was given up or died
          raced    \* history: the cache was filled from a row already replaced

rows == <<db, mine, by>>
connVars == <<db, cache, pc, got, mine, task, by, givenUp, raced, flight>>

NoRow == [ver |-> 0, present |-> FALSE]
Nothing == [kind |-> "none", ver |-> 0]

ConnInit ==
  /\ db \in {[ver |-> 0, present |-> b] : b \in BOOLEAN}
  /\ cache \in {Nothing, [kind |-> "corrupt", ver |-> 0]}
  /\ pc = [p \in Procs |-> "ready"]
  /\ got = [p \in Readers |-> NoRow]
  /\ mine = [w \in Writers |-> 0]
  /\ task = [v \in Versions |-> 0]
  /\ by = [v \in Versions |-> CHOOSE w \in Writers : TRUE]
  /\ givenUp = {} /\ raced = FALSE
  /\ FlightInit

Goto(p, l) == pc' = [pc EXCEPT ![p] = l]

(***************************************************************************)
(* QueryRow: doTake in the single flight of the instance.                  *)
(***************************************************************************)
QueryRow(p) ==
  /\ pc[p] = "ready" /\ p \in Readers
  /\ CreateCall(p, Node[p])
  /\ Goto(p, "take")
  /\ UNCHANGED <<rows, cache, got, task, givenUp, raced>>

\* doGetCache in fn: an error or a hit ends fn, a miss goes to the database.
GetHit(p) ==
  /\ pc[p] = "take" /\ cache.kind \in {"value", "placeholder"}
  /\ FnReturns(p, IF cache.kind = "value" THEN "row" ELSE "notFound")
  /\ UNCHANGED <<rows, cache, pc, got, task, givenUp, raced>>

GetFails(p) ==
  /\ pc[p] = "take"
  /\ FnReturns(p, "failed")
  /\ UNCHANGED <<rows, cache, pc, got, task, givenUp, raced>>

GetMiss(p) ==
  /\ pc[p] = "take" /\ phase[p] = "fn" /\ cache.kind = "none"
  /\ Goto(p, "query")
  /\ UNCHANGED <<rows, cache, got, task, givenUp, raced, flight>>

\* processCache: the text does not unmarshal and the key is deleted, whatever
\* it holds by then; the row is reloaded even if Redis refuses the deletion.
GetCorrupt(p) ==
  /\ pc[p] = "take" /\ phase[p] = "fn" /\ cache.kind = "corrupt"
  /\ Goto(p, "purge")
  /\ UNCHANGED <<rows, cache, got, task, givenUp, raced, flight>>

Purge(p) ==
  /\ pc[p] = "purge"
  /\ cache' \in {cache, Nothing}
  /\ Goto(p, "query")
  /\ UNCHANGED <<rows, got, task, givenUp, raced, flight>>

Query(p) ==
  /\ pc[p] = "query"
  /\ got' = [got EXCEPT ![p] = db]
  /\ Goto(p, "fill")
  /\ UNCHANGED <<rows, cache, task, givenUp, raced, flight>>

\* The query fails or panics: nothing is cached, and a panic leaves the call
\* without a result for those who joined it.
QueryFails(p) ==
  /\ pc[p] = "query"
  /\ \E r \in {"failed", Panicked} : FnReturns(p, r)
  /\ Goto(p, "take")
  /\ UNCHANGED <<rows, cache, got, task, givenUp, raced>>

\* Redis failures of the fill do not change what the caller gets.
Answer(row) == IF row.present THEN "row" ELSE "notFound"

\* Mutant of Fill: the placeholder is set like a value.
FillOverwrites(p) ==
  /\ pc[p] = "fill"
  /\ cache' = [kind |-> IF got[p].present THEN "value" ELSE "placeholder", ver |-> got[p].ver]
  /\ raced' = (got[p].ver < db.ver)
  /\ FnReturns(p, Answer(got[p]))
  /\ Goto(p, "take")
  /\ got' = [got EXCEPT ![p] = NoRow]
  /\ UNCHANGED <<rows, task, givenUp>>

\* SETEX of the row, or SETNX of the placeholder when there is no row.
Fill(p) ==
  /\ pc[p] = "fill"
  /\ IF got[p].present \/ cache.kind = "none"
     THEN /\ cache' = [kind |-> IF got[p].present THEN "value" ELSE "placeholder",
                       ver  |-> got[p].ver]
          /\ raced' = (got[p].ver < db.ver)
     ELSE UNCHANGED <<cache, raced>>
  /\ FnReturns(p, Answer(got[p]))
  /\ Goto(p, "take")
  /\ got' = [got EXCEPT ![p] = NoRow]
  /\ UNCHANGED <<rows, task, givenUp>>

\* Redis refuses the fill, which is logged.
FillFails(p) ==
  /\ pc[p] = "fill"
  /\ FnReturns(p, Answer(got[p]))
  /\ Goto(p, "take")
  /\ got' = [got EXCEPT ![p] = NoRow]
  /\ UNCHANGED <<rows, cache, task, givenUp, raced>>

LeaveFlight(p) ==
  /\ pc[p] = "take"
  /\ DeleteCall(p) \/ Done(p)
  /\ UNCHANGED <<rows, cache, pc, got, task, givenUp, raced>>

QueryReturns(p) ==
  /\ pc[p] = "take"
  /\ DoReturns(p)
  /\ Goto(p, "ready")
  /\ UNCHANGED <<rows, cache, got, task, givenUp, raced>>

(***************************************************************************)
(* Exec: write the row, then DelCache.                                     *)
(***************************************************************************)
Exec(w) ==
  /\ pc[w] = "ready" /\ w \in Writers /\ db.ver < MaxVersion
  /\ \E b \in BOOLEAN : db' = [ver |-> db.ver + 1, present |-> b]
  /\ mine' = [mine EXCEPT ![w] = db.ver + 1]
  /\ by' = [by EXCEPT ![db.ver + 1] = w]
  /\ Goto(w, "del")
  /\ UNCHANGED <<cache, got, task, givenUp, raced, flight>>

DelCache(w) ==
  /\ pc[w] = "del"
  /\ cache' = Nothing
  /\ mine' = [mine EXCEPT ![w] = 0]
  /\ Goto(w, "ready")
  /\ UNCHANGED <<db, by, got, task, givenUp, raced, flight>>

\* Mutant of DelFails: no clean task is added.
DelForgotten(w) ==
  /\ pc[w] = "del"
  /\ mine' = [mine EXCEPT ![w] = 0]
  /\ Goto(w, "ready")
  /\ UNCHANGED <<db, by, cache, got, task, givenUp, raced, flight>>

\* Redis refuses: asyncRetryDelCache, and DelCtx returns nil all the same.
DelFails(w) ==
  /\ pc[w] = "del"
  /\ task' = [task EXCEPT ![mine[w]] = 1]
  /\ mine' = [mine EXCEPT ![w] = 0]
  /\ Goto(w, "ready")
  /\ UNCHANGED <<db, by, cache, got, givenUp, raced, flight>>

(***************************************************************************)
(* The cleaner's retries; expiry; an instance that dies.                   *)
(***************************************************************************)
CleanDeletes(v) ==
  /\ task[v] > 0
  /\ cache' = Nothing
  /\ task' = [task EXCEPT ![v] = 0]
  /\ UNCHANGED <<rows, pc, got, givenUp, raced, flight>>

\* Mutant of CleanFails: there is always another attempt.
CleanForever(v) ==
  /\ task[v] > 0
  /\ task' = [task EXCEPT ![v] = IF @ < Attempts THEN @ + 1 ELSE 1]
  /\ UNCHANGED <<rows, cache, pc, got, givenUp, raced, flight>>

CleanFails(v) ==
  /\ task[v] > 0
  /\ IF task[v] < Attempts
     THEN task' = [task EXCEPT ![v] = @ + 1] /\ UNCHANGED givenUp
     ELSE task' = [task EXCEPT ![v] = 0] /\ givenUp' = givenUp \cup {v}
  /\ UNCHANGED <<rows, cache, pc, got, raced, flight>>

Expire ==
  /\ cache.kind # "none"
  /\ cache' = Nothing
  /\ UNCHANGED <<rows, pc, got, task, givenUp, raced, flight>>

\* Its goroutines, its single flight and its clean tasks are gone.
Crash(n) ==
  LET dead  == {p \in Procs : Node[p] = n}
      tasks == {v \in Versions : task[v] > 0 /\ by[v] \in dead}
  IN /\ \E p \in dead : pc[p] # "ready"
     /\ pc' = [p \in Procs |-> IF p \in dead THEN "ready" ELSE pc[p]]
     /\ phase' = [p \in Procs |-> IF p \in dead THEN "out" ELSE phase[p]]
     /\ calls' = Restrict(calls, DOMAIN calls \ {n})
     /\ task' = [v \in Versions |-> IF v \in tasks THEN 0 ELSE task[v]]
     /\ givenUp' = givenUp \cup tasks \cup {mine[w] : w \in {x \in Writers \cap dead : pc[x] = "del"}}
     /\ mine' = [w \in Writers |-> IF w \in dead THEN 0 ELSE mine[w]]
     /\ got' = [p \in Readers |-> IF p \in dead THEN NoRow ELSE got[p]]
     /\ UNCHANGED <<db, by, cache, raced, leader, result>>

Reading(p) ==
  \/ GetHit(p) \/ GetFails(p) \/ GetMiss(p) \/ GetCorrupt(p) \/ Purge(p)
  \/ Query(p) \/ QueryFails(p)
  \/ Fill(p) \/ FillFails(p) \/ LeaveFlight(p) \/ QueryReturns(p)

ConnNext ==
  \/ \E p \in Readers : QueryRow(p) \/ Reading(p)
  \/ \E w \in Writers : Exec(w) \/ DelCache(w) \/ DelFails(w)
  \/ \E v \in Versions : CleanDeletes(v) \/ CleanFails(v)
  \/ Expire \/ \E n \in Keys : Crash(n)

ConnSpec == ConnInit /\ [][ConnNext]_connVars

\* Goroutines are scheduled, Redis and the database answer, the wheel ticks.
ConnFairSpec ==
  /\ ConnSpec
  /\ \A p \in Readers : WF_connVars(Reading(p))
  /\ \A v \in Versions : WF_connVars(CleanDeletes(v) \/ CleanFails(v))

-----------------------------------------------------------------------------
\* Each variable keeps its type; the content of the cache was once in the row.
ConnTypeOK ==
  /\ db \in [ver : 0..MaxVersion, present : BOOLEAN]
  /\ cache \in [kind : {"none", "value", "placeholder", "corrupt"}, ver : 0..db.ver]
  /\ pc \in [Procs -> {"ready", "take", "purge", "query", "fill", "del"}]
  /\ got \in [Readers -> [ver : 0..db.ver, present : BOOLEAN]]
  /\ mine \in [Writers -> 0..db.ver]
  /\ task \in [Versions -> 0..Attempts]
  /\ by \in [Versions -> Writers]
  /\ givenUp \subseteq Versions /\ raced \in BOOLEAN

\* The deletion that follows write v has still to happen, or never will.
DeletionDue(v) == \/ v \in givenUp \/ task[v] > 0
                  \/ \E w \in Writers : pc[w] = "del" /\ mine[w] = v

\* No invalidation is lost silently: a cached row older than the database is
\* one whose newer writes all have their deletion still to come (or given up,
\* or dead with its instance), or one filled by a read that a write overtook.
StaleExplained ==
  cache.kind \in {"value", "placeholder"} /\ cache.ver < db.ver /\ ~raced =>
    \A v \in cache.ver + 1..db.ver : DeletionDue(v)

\* A placeholder never takes the place of a cached row, so a slow read that
\* found no row cannot hide one that another instance has cached since.
RowNotHidden == [][cache.kind = "value" => cache'.kind # "placeholder"]_connVars

\* One query of the row at a time in each instance.
OneQuery ==
  \A p, q \in Readers : p # q /\ Node[p] = Node[q] => ~(pc[p] = "query" /\ pc[q] = "query")

\* Every failed deletion is retried to its end, and every read returns.
CleaningEnds == \A v \in Versions : task[v] > 0 ~> task[v] = 0
ReadsReturn == \A p \in Readers : pc[p] # "ready" ~> pc[p] = "ready"

\* The cache holds what the row has been, and what is older than the row has its
\* deletion still to come.
CacheExplained == ConnTypeOK /\ StaleExplained

\* Failed deletions are retried to their end and reads return.
ConnProgress == CleaningEnds /\ ReadsReturn

=============================================================================
