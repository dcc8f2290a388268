---------------------------- MODULE CacheCleaner ----------------------------
(***************************************************************************)
(* core/stores/cache/cleaner.go: the retries of failed cache deletions,    *)
(* kept in a timing wheel, run by a TaskRunner, and drained at shutdown.   *)
(*                                                                         *)
(* Time is abstracted: a task in the wheel may fire at any moment.  The    *)
(* wheel's channels are unbuffered, so a SetTimer is received only while   *)
(* the goroutine of the wheel is in its select, not while it drains.       *)
(***************************************************************************)
EXTENDS Integers, FiniteSets

CONSTANTS CleanTasks,
          CleanAttempts, \* the delays of nextDelay, with the first
          CleanWorkers,  \* capacity of taskRunner
          DrainWorkers   \* capacity of the runner of drainAll

ASSUME CleanerAssumption ==
  IsFiniteSet(CleanTasks) /\ {CleanAttempts, CleanWorkers, DrainWorkers} \subseteq Nat \ {0}

VARIABLES cleanAt,       \* where a task is
          delayLevel,    \* which delay of nextDelay the task has
          held,          \* taskRunner.limitChan: the tasks that hold a place
          draining,      \* the limitChan of drainAll's runner
          cleanWheel,    \* "select", "drain", or "drained" back in the select
          toDrain,       \* what drainAll has still to go through
          unlinked       \* keys in tw.timers whose item is in no slot

cleanVars == <<cleanAt, delayLevel, held, draining, cleanWheel, toDrain, unlinked>>

CleanInit ==
  /\ cleanAt = [t \in CleanTasks |-> "idle"]
  /\ delayLevel = [t \in CleanTasks |-> 1]
  /\ held = {} /\ draining = {}
  /\ cleanWheel = "select" /\ toDrain = {} /\ unlinked = {}

CleanMove(t, s) == cleanAt' = [cleanAt EXCEPT ![t] = s]
Selecting == cleanWheel # "drain"

\* A new random key, so SetTimer links a new item.
AddCleanTask(t) ==
  /\ cleanAt[t] = "idle" /\ Selecting
  /\ CleanMove(t, "timer")
  /\ UNCHANGED <<delayLevel, held, draining, cleanWheel, toDrain, unlinked>>

\* scanAndRunTasks: the tasks of a tick run in a goroutine of their own.
CleanFires(t) ==
  /\ cleanAt[t] = "timer" /\ Selecting
  /\ CleanMove(t, "fired")
  /\ UNCHANGED <<delayLevel, held, draining, cleanWheel, toDrain, unlinked>>

\* clean: Schedule waits for a place in taskRunner; a drained task then gives
\* back the place it has in the runner of drainAll.
CleanSchedules(t) ==
  /\ cleanAt[t] \in {"fired", "drained"}
  /\ Cardinality(held) < CleanWorkers
  /\ held' = held \cup {t}
  /\ draining' = draining \ {t}
  /\ CleanMove(t, "cleaning")
  /\ UNCHANGED <<delayLevel, cleanWheel, toDrain, unlinked>>

CleanSucceeds(t) ==
  /\ cleanAt[t] = "cleaning"
  /\ CleanMove(t, "done")
  /\ held' = held \ {t}
  /\ UNCHANGED <<delayLevel, draining, cleanWheel, toDrain, unlinked>>

\* nextDelay has another delay: the task calls SetTimer, its place still held.
CleanFails(t) ==
  /\ cleanAt[t] = "cleaning" /\ delayLevel[t] < CleanAttempts
  /\ delayLevel' = [delayLevel EXCEPT ![t] = @ + 1]
  /\ CleanMove(t, "setting")
  /\ UNCHANGED <<held, draining, cleanWheel, toDrain, unlinked>>

\* Mutant of GiveUp: the place in taskRunner is not given back.
GiveUpLeaks(t) ==
  /\ cleanAt[t] = "cleaning" /\ delayLevel[t] = CleanAttempts
  /\ CleanMove(t, "givenUp")
  /\ UNCHANGED <<delayLevel, held, draining, cleanWheel, toDrain, unlinked>>

GiveUp(t) ==
  /\ cleanAt[t] = "cleaning" /\ delayLevel[t] = CleanAttempts
  /\ CleanMove(t, "givenUp")
  /\ held' = held \ {t}
  /\ UNCHANGED <<delayLevel, draining, cleanWheel, toDrain, unlinked>>

\* setTask: a key that a drain has left in tw.timers is moved, which either
\* links a new item or changes one that is in no slot (moveTask).
CleanSetTimer(t) ==
  /\ cleanAt[t] = "setting" /\ Selecting
  /\ held' = held \ {t}
  /\ \/ CleanMove(t, "timer") /\ unlinked' = unlinked \ {t}
     \/ t \in unlinked /\ CleanMove(t, "lost") /\ UNCHANGED unlinked
  /\ UNCHANGED <<delayLevel, draining, cleanWheel, toDrain>>

\* The shutdown listener hands clean to Drain.
Drain ==
  /\ cleanWheel = "select"
  /\ cleanWheel' = "drain"
  /\ toDrain' = {t \in CleanTasks : cleanAt[t] = "timer"}
  /\ UNCHANGED <<cleanAt, delayLevel, held, draining, unlinked>>

\* drainAll: unlink an item and Schedule it in a runner of its own.
DrainItem(t) ==
  /\ t \in toDrain
  /\ Cardinality(draining) < DrainWorkers
  /\ draining' = draining \cup {t}
  /\ toDrain' = toDrain \ {t}
  /\ unlinked' = unlinked \cup {t}
  /\ CleanMove(t, "drained")
  /\ UNCHANGED <<delayLevel, held, cleanWheel>>

DrainEnds ==
  /\ cleanWheel = "drain" /\ toDrain = {}
  /\ cleanWheel' = "drained"
  /\ UNCHANGED <<cleanAt, delayLevel, held, draining, toDrain, unlinked>>

CleanStep(t) == \/ CleanFires(t) \/ CleanSchedules(t) \/ CleanSucceeds(t) \/ CleanFails(t) \/ GiveUp(t)
                \/ CleanSetTimer(t) \/ DrainItem(t)

CleanNext == Drain \/ DrainEnds \/ \E t \in CleanTasks : AddCleanTask(t) \/ CleanStep(t)

CleanSpec == CleanInit /\ [][CleanNext]_cleanVars

\* What happens by itself: the wheel ticks and goroutines are scheduled; nobody
\* has to add or to shut down.
CleanGoes == DrainEnds \/ \E t \in CleanTasks : CleanStep(t)

-----------------------------------------------------------------------------
\* Where a task is agrees with the places it holds in the two runners.
PlacesHeld ==
  /\ cleanAt \in [CleanTasks -> {"idle", "timer", "fired", "drained", "cleaning", "setting",
                       "done", "givenUp", "lost"}]
  /\ delayLevel \in [CleanTasks -> 1..CleanAttempts]
  /\ held = {t \in CleanTasks : cleanAt[t] \in {"cleaning", "setting"}}
  /\ draining = {t \in CleanTasks : cleanAt[t] = "drained"}
  /\ cleanWheel \in {"select", "drain", "drained"}
  /\ toDrain \subseteq {t \in CleanTasks : cleanAt[t] = "timer"}
  /\ unlinked \subseteq CleanTasks

\* With no more tasks than the two runners have places, a drain is never stuck:
\* what keeps it from its next item is a deletion that is still being tried.
DrainMoves ==
  toDrain # {} /\ Cardinality(CleanTasks) <= CleanWorkers + DrainWorkers =>
    \/ Cardinality(draining) < DrainWorkers
    \/ Cardinality(held) < CleanWorkers /\ \E t \in CleanTasks : cleanAt[t] = "drained"
    \/ \E t \in CleanTasks : cleanAt[t] = "cleaning"

\* Every clean task is tried until it succeeds, is given up or (after a drain) is
\* lost with an unlinked item: a task takes a bounded number of steps, and when
\* none can be taken no task is waiting.  "Drain drains all items and executes
\* them": the drain has come to its end then as well.
TasksEnd ==
  ~ENABLED CleanGoes /\ Cardinality(CleanTasks) <= CleanWorkers + DrainWorkers =>
    /\ \A t \in CleanTasks : cleanAt[t] \in {"idle", "done", "givenUp", "lost"}
    /\ cleanWheel # "drain"
=============================================================================
