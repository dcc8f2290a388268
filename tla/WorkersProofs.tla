--------------------------- MODULE WorkersProofs ----------------------------
(***************************************************************************)
(* The promises that MCWorkers states for all its components, for every value *)
(* of their constants.  PlacesProofs, RunnersProofs and QueueProofs have an *)
(* inductive invariant for each component; here they are put together: a step *)
(* of MCWorkers is a step of one component, and the others stay as they are. *)
(***************************************************************************)
EXTENDS MCWorkers, PlacesProofs, RunnersProofs, QueueProofs

\* The leaves are propositional, and their context is large.
USE ZenonT(60), SMTT(60)

\* A step of MCWorkers is, for each component, one of its steps or none.
LEMMA StepOfOne ==
  ASSUME [Next]_vars
  PROVE  /\ [PoolNext]_poolVars /\ [LimitNext]_limitVars /\ [RunnerNext]_runnerVars
         /\ [StableNext]_stableVars /\ [LockedNext]_lockedVars /\ [QueueNext]_queueVars
         /\ [StreamNext]_streamVars /\ [PubNext]_pubVars /\ [ProcNext]_procVars
         /\ [GroupNext]_groupVars /\ [CleanNext]_cleanVars
         /\ subject' = subject
         /\ subject = "log" => [LogNext]_logVars
         /\ subject # "log" => UNCHANGED logState
<1>1. CASE Next
  <2>1. OthersRest
    BY <1>1 DEF Next
  <2>2. subject' = subject /\ (subject # "log" => UNCHANGED logState)
    BY <2>1 DEF OthersRest
  <2>3. [PoolNext]_poolVars /\ [LimitNext]_limitVars /\ [RunnerNext]_runnerVars
    BY <1>1, <2>1 DEF Next, OthersRest
  <2>4. [StableNext]_stableVars /\ [LockedNext]_lockedVars /\ [QueueNext]_queueVars
    BY <1>1, <2>1 DEF Next, OthersRest
  <2>5. [StreamNext]_streamVars /\ [PubNext]_pubVars /\ [ProcNext]_procVars
    BY <1>1, <2>1 DEF Next, OthersRest
  <2>6. [GroupNext]_groupVars /\ [CleanNext]_cleanVars
    BY <1>1, <2>1 DEF Next, OthersRest
  <2>7. subject = "log" => [LogNext]_logVars
    BY <1>1 DEF Next
  <2> QED  BY <2>2, <2>3, <2>4, <2>5, <2>6, <2>7
<1>2. CASE UNCHANGED vars
  BY <1>2 DEF vars, logVars
<1> QED  BY <1>1, <1>2

\* The counters of pools, limits, runners and clean tasks.
CountsInv == PoolInv /\ LimitInv /\ RunnerInv /\ LockedInv /\ CleanInv

\* What pools, limits and runners count is what the goroutines hold, whatever
\* panics, expires, is refused or given up, for any number of goroutines and any
\* limit.
THEOREM CountsAlwaysExact == Spec => []CountsExact
<1>1. Init => CountsInv
  BY PoolStart, LimitStart, RunnerStart, LockedStart, CleanStart DEF Init, CountsInv
<1>2. CountsInv /\ [Next]_vars => CountsInv'
  BY StepOfOne, PoolStep, LimitStep, RunnerStep, LockedStep, CleanPlaces DEF CountsInv
<1>3. CountsInv => CountsExact
  BY PoolEnd, LockedAlone DEF CountsInv, CountsExact, LimitInv, RunnerInv, CleanInv
<1> QED  BY <1>1, <1>2, <1>3, PTL DEF Spec

\* Waiters and stoppers.
WaitsInv == RunnerInv /\ StableInv /\ ProcInv /\ GroupInv

\* When a wait returns, what it waits for has happened, for any number of tasks,
\* messages, listeners, services and callers: TaskRunner.Wait, StableRunner.Wait,
\* waitForCalled and ServiceGroup.Stop.
THEOREM WaitsAlwaysCover == Spec => []WaitsCover
<1>1. Init => WaitsInv
  BY RunnerStart, StableStart, ProcStart, GroupStart DEF Init, WaitsInv
<1>2. WaitsInv /\ [Next]_vars => WaitsInv'
  BY StepOfOne, RunnerStep, StableStep, ProcStep, GroupStep DEF WaitsInv
<1>3. WaitsInv => WaitsCover
  BY StableEnd, GroupEnd DEF WaitsInv, WaitsCover, RunnerInv, ProcInv
<1> QED  BY <1>1, <1>2, <1>3, PTL DEF Spec

\* What keeps an order.
OrdersInv == StableInv /\ EventInv /\ ToldInv /\ WalkInv /\ HeadInv /\ GroupInv

\* Order is kept between goroutines, for any number of them: by StableRunner, by
\* the events of a queue and what its listeners are told, by Head, and by Stop of
\* a service group.
THEOREM OrderAlwaysKept == Spec => []OrderKept
<1>1. Init => OrdersInv
  BY StableStart, EventStart, ToldStart, WalkStart, HeadStart, GroupStart DEF Init, OrdersInv
<1>2. OrdersInv /\ [Next]_vars => OrdersInv'
  BY StepOfOne, StableStep, EventStep, ToldStep, WalkStep, HeadStep, GroupStep DEF OrdersInv
<1>3. OrdersInv => OrderKept
  BY StableEnd, EventEnd, ToldEnd, HeadEnd, GroupEnd DEF OrdersInv, OrderKept
<1> QED  BY <1>1, <1>2, <1>3, PTL DEF Spec

\* A queue that stops and Walk close their channel after the last send on it, for
\* any number of producers, consumers, items and workers.
THEOREM AlwaysClosedAfterLast == Spec => []ClosedAfterLast
<1>1. Init => ClosedInv /\ WalkInv
  BY ClosedStart, WalkStart DEF Init
<1>2. ClosedInv /\ WalkInv /\ [Next]_vars => (ClosedInv /\ WalkInv)'
  BY StepOfOne, ClosedStep, WalkStep
<1>3. ClosedInv /\ WalkInv => ClosedAfterLast
  BY WalkOpen, ClosedEnd DEF ClosedAfterLast
<1> QED  BY <1>1, <1>2, <1>3, PTL DEF Spec

\* etcd never has more keys of a publisher than the one it is registering and one
\* for each call that failed, for any set of leases and any number of failures.
THEOREM KeysAlwaysExplained == Spec => []KeysExplained
<1>1. Init => KeysInv
  BY KeysStart DEF Init
<1>2. KeysInv /\ [Next]_vars => KeysInv'
  BY StepOfOne, KeysStep
<1>3. KeysInv => KeysExplained
  BY KeysEnd
<1> QED  BY <1>1, <1>2, <1>3, PTL DEF Spec

\* The clock is also the limiter's: the log's bound on it holds while the log is
\* the subject, and otherwise nothing of the log changes.
LoggedInv == LogComplete /\ (subject = "log" => LogInv)

\* An entry that Write accepted is in the channel, in a file or accounted for,
\* whatever calls of os fail, for any number of entries, any size of the buffer
\* and of the files, and any number of backups.
THEOREM LogAlwaysComplete == Spec => []LogComplete
<1>1. Init => LoggedInv
  BY LogStart DEF Init, LoggedInv, LogInv
<1>2. LoggedInv /\ [Next]_vars => LoggedInv'
  <2> SUFFICES ASSUME LoggedInv, [Next]_vars PROVE LoggedInv'
    OBVIOUS
  <2>1. CASE subject = "log"
    BY <2>1, StepOfOne, LogStep DEF LoggedInv, LogInv
  <2>2. CASE subject # "log"
    <3>1. UNCHANGED logState /\ subject' # "log"
      BY <2>2, StepOfOne
    <3> QED  BY SMTT(60), <3>1 DEF LoggedInv, LogComplete, EntriesKept, DrainedAtClose, Accepted, Kept, InBackups,
                         logState, logFiles
  <2> QED  BY <2>1, <2>2
<1>3. LoggedInv => LogComplete
  BY DEF LoggedInv
<1> QED  BY <1>1, <1>2, <1>3, PTL DEF Spec
=============================================================================
