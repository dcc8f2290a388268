------------------------------ MODULE MCWorkers ------------------------------
(***************************************************************************)
(* The components with goroutines of their own, model-checked together:    *)
(* subject names the one that is taking steps, the others stay as they     *)
(* began.  They share nothing but the clock, so the states of a run are    *)
(* those of each component alone, one after the other.                     *)
(***************************************************************************)
EXTENDS Places, Runners, Queue, Stream, TokenLimiter,
        Publisher, Shutdown, RotateLogger, CacheCleaner, TimingWheel, InMemoryCache

VARIABLE subject

vars == <<subject, clock, poolVars, limitVars, runnerVars, stableVars, lockedVars, queueVars, streamVars,
          timedVars, tokenState, pubVars, procVars, groupVars, logState, cleanVars, wheelVars, cacheVars>>

\* <<rate, burst>>: full in one second or in two, and less than half the rate.
RateAndBurst == {<<2, 2>>, <<2, 1>>, <<3, 1>>}

ThreeServices == <<"s1", "s2", "s3">>

\* Up to two circles of the wheel, and a delay below an interval.
AllDelays == 0..2 * NumSlots + 1

\* A component that is not the subject has one initial state.
Init ==
  /\ subject \in {"pool", "limit", "runner", "stable", "locked", "queue", "stream", "timed", "token",
                  "publisher", "listeners", "group", "log", "cleaner", "wheel", "cache"}
  /\ LockedInit /\ GroupInit
  /\ PoolInit /\ LimitInit /\ RunnerInit /\ StableInit /\ QueueInit /\ ProcInit /\ LogInit /\ CleanInit
  /\ StreamInit /\ (subject # "stream" => limited /\ ending = "done" /\ headN = 1)
  /\ TimedInit /\ (subject # "timed" => form = "once")
  /\ TokenInit /\ (subject # "token" => burst = 2)
  /\ PubInit /\ (subject # "publisher" => withId)
  /\ WheelInit /\ CacheInit

OthersRest ==
  /\ UNCHANGED subject
  /\ subject # "pool" => UNCHANGED poolVars
  /\ subject # "limit" => UNCHANGED limitVars
  /\ subject # "runner" => UNCHANGED runnerVars
  /\ subject # "stable" => UNCHANGED stableVars
  /\ subject # "locked" => UNCHANGED lockedVars
  /\ subject # "queue" => UNCHANGED queueVars
  /\ subject # "stream" => UNCHANGED streamVars
  /\ subject # "timed" => UNCHANGED timedVars
  /\ subject # "token" => UNCHANGED tokenState
  /\ subject # "publisher" => UNCHANGED pubVars
  /\ subject # "listeners" => UNCHANGED procVars
  /\ subject # "group" => UNCHANGED groupVars
  /\ subject # "log" => UNCHANGED logState
  /\ subject # "cleaner" => UNCHANGED cleanVars
  /\ subject # "wheel" => UNCHANGED wheelVars
  /\ subject # "cache" => UNCHANGED cacheVars
  /\ subject \notin {"token", "log"} => UNCHANGED clock

Next ==
  /\ \/ subject = "pool" /\ PoolNext
     \/ subject = "limit" /\ LimitNext
     \/ subject = "runner" /\ RunnerNext
     \/ subject = "stable" /\ StableNext
     \/ subject = "locked" /\ LockedNext
     \/ subject = "queue" /\ QueueNext
     \/ subject = "stream" /\ StreamNext
     \/ subject = "timed" /\ TimedNext
     \/ subject = "token" /\ TokenNext
     \/ subject = "publisher" /\ PubNext
     \/ subject = "listeners" /\ ProcNext
     \/ subject = "group" /\ GroupNext
     \/ subject = "log" /\ LogNext
     \/ subject = "cleaner" /\ CleanNext
     \/ subject = "wheel" /\ WheelNext
     \/ subject = "cache" /\ CacheNext
  /\ OthersRest

Spec == Init /\ [][Next]_vars

-----------------------------------------------------------------------------
(***************************************************************************)
(* What the components of MCWorkers must keep, by the kind of promise.     *)
(***************************************************************************)
\* Places and counters are what the goroutines hold, with tasks that panic,
\* resources that expire and clean tasks that are given up: the pool's created,
\* the channel of a limit, the two counters of a task runner, the one locked call
\* of a key and the places of the clean tasks.
CountsExact == PoolAccount /\ PlacesCounted /\ RunnerCounted /\ CallsAlone /\ PlacesHeld

\* Nobody is left waiting.  Where the goroutines can come to a stop, none of
\* them waits then: in a task runner or a stable runner, in a stream whose end
\* wants no more items, in a function whose caller has given up, in
\* waitForCalled, in Start of a stopped service group, in Write or Close of the
\* log, or in the drain of the clean tasks.  A locked call waits for one that
\* runs.  No wake-up of a Get of the pool is lost, and none of a Borrow but the
\* Signal that comes between TryBorrow and the wait.
NobodyStuck ==
  /\ PoolNoLostWake /\ WaitExplained
  /\ RunnerNoneStuck /\ WaitReturns /\ LockedNoneStuck
  /\ StreamEnds /\ NoLeak /\ TimedReturns
  /\ WaitForCalledEnds /\ GroupEnds /\ WriteEnds /\ CloseEnds
  /\ DrainMoves /\ TasksEnd

\* What a wait is for has happened when it returns: the tasks scheduled before
\* TaskRunner.Wait are over, the messages pushed before StableRunner.Wait have
\* been taken, the listener of a waitForCalled has run, and the services of a
\* group are stopped when any Stop of it returns.
WaitsCover == WaitCovers /\ WaitTakesAll /\ WaitMeansCalled /\ StopMeansStopped

\* Order is kept between goroutines: messages leave a stable runner as they were
\* pushed, all consumers of a queue see the events in one order and its listeners
\* were told last what is true, Head lets the first n items pass, and services are
\* stopped last to first.
OrderKept == TakenInOrder /\ SameEventOrder /\ ToldWhatIsTrue /\ HeadExact /\ StopsInReverse

\* A channel is closed after the last send: by a queue that stops, and by Walk
\* with the pipe of its workers.
ClosedAfterLast == NoSendOnClosed /\ PipeOpenForWorkers

=============================================================================
