--------------------------- MODULE TimedExecutors ---------------------------
(***************************************************************************)
(* core/executors/lessexecutor.go: LessExecutor, which runs at most one of *)
(* the tasks given to it within an interval; and delayexecutor.go:         *)
(* DelayExecutor, which runs its function some time after it is triggered. *)
(* The BulkInserter of core/stores/sqlx is at the end.                     *)
(*                                                                         *)
(* DoOrDiscard reads the clock, loads lastTime and stores it in three      *)
(* steps, without a lock.  The task itself is left out.  Trigger and the   *)
(* end of the delay are sections under de.lock, one step each; the delay   *)
(* takes any time.                                                         *)
(***************************************************************************)
EXTENDS Clock, Sequences

CONSTANTS Doers,
          Threshold,
          LessTime        \* bound on the clock

VARIABLES lastRun,        \* lastTime
          doer,           \* out, now, store
          nowRead,        \* the time a caller has read
          runs,           \* history: the times of the tasks that ran
          seenRuns,       \* history: runs when a caller loaded lastRun
          setBack         \* history: an older time was stored over a newer

lessState == <<lastRun, doer, nowRead, runs, seenRuns, setBack>>
lessVars == <<lessState, clock>>

LessInit ==
  /\ ClockInit
  /\ lastRun = 0
  /\ doer = [d \in Doers |-> "out"]
  /\ nowRead = [d \in Doers |-> 0]
  /\ runs = {} /\ seenRuns = [d \in Doers |-> {}] /\ setBack = FALSE

DoOrDiscard(d) ==
  /\ doer[d] = "out"
  /\ doer' = [doer EXCEPT ![d] = "now"]
  /\ nowRead' = [nowRead EXCEPT ![d] = clock]
  /\ UNCHANGED <<lastRun, runs, seenRuns, setBack, clock>>

\* Mutant of Due: a task is due at the very end of the interval.
DueAtEnd(now) == lastRun = 0 \/ lastRun + Threshold <= now

Due(now) == lastRun = 0 \/ lastRun + Threshold < now

LoadLast(d) ==
  /\ doer[d] = "now"
  /\ doer' = [doer EXCEPT ![d] = IF Due(nowRead[d]) THEN "store" ELSE "out"]
  /\ seenRuns' = [seenRuns EXCEPT ![d] = runs]
  /\ UNCHANGED <<lastRun, nowRead, runs, setBack, clock>>

StoreLast(d) ==
  /\ doer[d] = "store"
  /\ lastRun' = nowRead[d]
  /\ runs' = runs \cup {nowRead[d]}
  /\ setBack' = (setBack \/ nowRead[d] < lastRun)
  /\ doer' = [doer EXCEPT ![d] = "out"]
  /\ UNCHANGED <<nowRead, seenRuns, clock>>

LessNext ==
  \/ \E d \in Doers : DoOrDiscard(d) \/ LoadLast(d) \/ StoreLast(d)
  \/ Tick(LessTime) /\ UNCHANGED lessState

LessSpec == LessInit /\ [][LessNext]_lessVars

\* A task runs more than the threshold after every task that had run when
\* lastRun was loaded.  Two tasks of one interval have loaded it before either
\* stored it, or a slow caller has stored an older time over a newer one.
TasksSpaced ==
  ~setBack => \A d \in Doers : doer[d] = "store" => \A r \in seenRuns[d] : r + Threshold < nowRead[d]

-----------------------------------------------------------------------------
CONSTANT MaxFns   \* bound: goroutines that are to call fn or are in it

VARIABLES triggered,
          delayed,        \* the goroutines that wait for their timer
          toCall, inFn,   \* those that are to call fn, and those that are in it
          owed            \* history: Trigger was called since fn began last

delayVars == <<triggered, delayed, toCall, inFn, owed>>

DelayInit == triggered = FALSE /\ delayed = 0 /\ toCall = 0 /\ inFn = 0 /\ owed = FALSE

Trigger ==
  /\ triggered' = TRUE /\ owed' = TRUE
  /\ delayed' = IF triggered THEN delayed ELSE delayed + 1
  /\ UNCHANGED <<toCall, inFn>>

\* Mutant of DelayOver: triggered is left to a later step.
DelayOverQuiet ==
  /\ delayed > 0 /\ toCall + inFn < MaxFns
  /\ delayed' = delayed - 1 /\ toCall' = toCall + 1
  /\ UNCHANGED <<triggered, inFn, owed>>

DelayOver ==
  /\ delayed > 0 /\ toCall + inFn < MaxFns
  /\ triggered' = FALSE
  /\ delayed' = delayed - 1 /\ toCall' = toCall + 1
  /\ UNCHANGED <<inFn, owed>>

CallFn ==
  /\ toCall > 0
  /\ toCall' = toCall - 1 /\ inFn' = inFn + 1 /\ owed' = FALSE
  /\ UNCHANGED <<triggered, delayed>>

\* fn returns, or panics and is recovered by GoSafe.
FnEnds ==
  /\ inFn > 0 /\ inFn' = inFn - 1
  /\ UNCHANGED <<triggered, delayed, toCall, owed>>

DelayNext == Trigger \/ DelayOver \/ CallFn \/ FnEnds

DelaySpec == DelayInit /\ [][DelayNext]_delayVars

\* "set triggered to false before calling fn to ensure no triggers are missed":
\* after a Trigger a call of fn that has not begun is under way, also when fn is
\* running and however many goroutines trigger it; and one timer waits at most.
NoTriggerMissed ==
  /\ owed => delayed + toCall > 0
  /\ delayed = IF triggered THEN 1 ELSE 0

(***************************************************************************)
(* core/stores/sqlx/bulkinserter.go: BulkInserter, which formats rows for  *)
(* a statement and inserts them in batches, on a PeriodicalExecutor.       *)
(*                                                                         *)
(* A statement is a number, a row the statement it was formatted for.  A   *)
(* batch is removed in one step and executed later: by the background      *)
(* goroutine, by a caller of Flush, or by UpdateStmt.  Execute reads       *)
(* in.stmt more than once and without a lock, at any time until it ends.   *)
(***************************************************************************)
CONSTANTS Inserters, Flushers,
          Background, Updater, \* the executor's goroutine; the caller of UpdateStmt
          MaxBulkRows,
          MaxStmts             \* bound: statements

VARIABLES bulkStmt,            \* bi.stmt
          inserterStmt,        \* in.stmt
          values,              \* in.values
          inserting,           \* the full batch that Insert hands over; <<>> is none
          batch,               \* what each goroutine executes
          updating,            \* the step of UpdateStmt: out, flush, sync
          overtaken            \* history: the batches of which in.stmt was changed

bulkVars == <<bulkStmt, inserterStmt, values, inserting, batch, updating, overtaken>>

Executing == Flushers \cup {Background, Updater}

BulkInit ==
  /\ bulkStmt = 1 /\ inserterStmt = 1 /\ values = <<>>
  /\ inserting = [i \in Inserters |-> <<>>]
  /\ batch = [f \in Executing |-> <<>>]
  /\ updating = "out" /\ overtaken = {}

\* Insert, under the read lock: a row that fills the batch takes all of it.
Insert(i) ==
  /\ updating = "out" /\ inserting[i] = <<>>
  /\ LET rows == Append(values, bulkStmt)
         full == Len(rows) >= MaxBulkRows
     IN /\ values' = IF full THEN <<>> ELSE rows
        /\ inserting' = [inserting EXCEPT ![i] = IF full THEN rows ELSE <<>>]
  /\ UNCHANGED <<bulkStmt, inserterStmt, batch, updating, overtaken>>

\* The background goroutine receives the batch and confirms it: Insert returns.
InsertConfirmed(i) ==
  /\ inserting[i] # <<>> /\ batch[Background] = <<>>
  /\ batch' = [batch EXCEPT ![Background] = inserting[i]]
  /\ inserting' = [inserting EXCEPT ![i] = <<>>]
  /\ UNCHANGED <<bulkStmt, inserterStmt, values, updating, overtaken>>

\* Flush by a caller, or by the background goroutine at a tick.
BulkFlush(f) ==
  /\ f # Updater /\ batch[f] = <<>> /\ values # <<>>
  /\ batch' = [batch EXCEPT ![f] = values] /\ values' = <<>>
  /\ UNCHANGED <<bulkStmt, inserterStmt, inserting, updating, overtaken>>

BulkExecuted(f) ==
  /\ batch[f] # <<>>
  /\ batch' = [batch EXCEPT ![f] = <<>>] /\ overtaken' = overtaken \ {f}
  /\ UNCHANGED <<bulkStmt, inserterStmt, values, inserting, updating>>

\* UpdateStmt has the write lock: no Insert is under way.
UpdateStmt ==
  /\ updating = "out" /\ bulkStmt < MaxStmts
  /\ \A i \in Inserters : inserting[i] = <<>>
  /\ bulkStmt' = bulkStmt + 1 /\ updating' = "flush"
  /\ UNCHANGED <<inserterStmt, values, inserting, batch, overtaken>>

\* Mutant of UpdateFlush: what is pending is left for the new statement.
UpdateFlushNothing ==
  /\ updating = "flush" /\ updating' = "sync"
  /\ UNCHANGED <<bulkStmt, inserterStmt, values, inserting, batch, overtaken>>

UpdateFlush ==
  /\ updating = "flush" /\ updating' = "sync"
  /\ batch' = [batch EXCEPT ![Updater] = values] /\ values' = <<>>
  /\ UNCHANGED <<bulkStmt, inserterStmt, inserting, overtaken>>

\* Its own batch is executed; those of the others may be under way.
UpdateSync ==
  /\ updating = "sync" /\ batch[Updater] = <<>>
  /\ inserterStmt' = bulkStmt /\ updating' = "out"
  /\ overtaken' = {f \in Executing : batch[f] # <<>>}
  /\ UNCHANGED <<bulkStmt, values, inserting, batch>>

BulkNext ==
  \/ \E i \in Inserters : Insert(i) \/ InsertConfirmed(i)
  \/ \E f \in Executing : BulkFlush(f) \/ BulkExecuted(f)
  \/ UpdateStmt \/ UpdateFlush \/ UpdateSync

\* Rows are executed with the statement they were formatted for: those that wait,
\* those of a full batch, and those being executed, unless UpdateStmt changed the
\* statement while another goroutine had the batch.
RowsMatchStmt ==
  LET match(rows) == \A k \in 1..Len(rows) : rows[k] = inserterStmt
  IN /\ match(values)
     /\ \A i \in Inserters : match(inserting[i])
     /\ \A f \in Executing \ overtaken : match(batch[f])
=============================================================================
